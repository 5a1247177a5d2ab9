------------------------------ MODULE ConfigFile ------------------------------
(***************************************************************************)
(* CConfigFileReader (src/common/base/CConfigFileReader.cc): a file of     *)
(* key=value lines, read into a map, and written back from it, the whole   *)
(* file, whenever a value is set.                                          *)
(*                                                                         *)
(* Keys and values are names; of a value it matters whether it reads back  *)
(* as it was written:                                                      *)
(*   "empty"    does not read back, its line is skipped;                   *)
(*   "hash"     has a # or blanks at an end: reads back as "part", what is *)
(*              left of it;                                                *)
(*   "newline"  is written as two lines, "part" for its key and one that   *)
(*              sets Injected to v2;                                       *)
(*   "long"     makes the line longer than szPaire, which cuts it before   *)
(*              its newline.  A reader takes the line after it for a part  *)
(*              of it, and the value is too long still.                    *)
(* A value is of one kind, and one at most is long (two such lines and a   *)
(* third do not fit fgets).  The lines of a file that a person wrote fit   *)
(* the 256 bytes of fgets.                                                 *)
(*                                                                         *)
(* What fwrite was given reaches the disk at fclose, or any part of it in  *)
(* a crash, or when the disk is full, which fclose reports and the code    *)
(* does not look at; a line that ends in the middle has the value "cut".   *)
(***************************************************************************)
EXTENDS Naturals, Sequences, SequencesExt

CONSTANTS
    KeyOrder,   \* all keys, in the order of the map
    Settable,   \* the keys SetConfigValue is called with
    Plain,      \* values that read back as they are
    Injected,   \* the key in the second line of a value with a newline
    MaxSets     \* bound: calls of SetConfigValue

Odd == {"empty", "hash", "newline", "long"}
Missing == <<[key |-> "none", val |-> "missing"]>>

VARIABLES
    file,      \* the lines on the disk, or Missing
    diskFull,  \* history: the disk was full when the file was written last
    map,       \* m_config_map
    loadOk,    \* m_load_ok
    confPc,    \* the object: "none", "idle", or "writing" in _WriteFIle
    written,   \* lines given to fwrite
    ret,       \* what SetConfigValue has returned
    intended,  \* history: for each key, the value it was set to last, and
               \* those of later calls that could not open the file
    spoiled,   \* history: the keys that a reader may find otherwise
    sets       \* calls of SetConfigValue

history == <<intended, spoiled>>
confVars == <<file, diskFull, map, loadOk, confPc, written, ret, history, sets>>

Keys == Range(KeyOrder)
Before(j, k) ==
    \E p, q \in DOMAIN KeyOrder : p < q /\ KeyOrder[p] = j /\ KeyOrder[q] = k

(* The keys of a map are different, none is the one that marks a missing   *)
(* file, and a plain value is not an odd one.                              *)
ASSUME ConfigAssumption ==
    /\ KeyOrder \in Seq(STRING) /\ IsInjective(KeyOrder) /\ "none" \notin Keys
    /\ Settable \subseteq Keys /\ Injected \in Keys
    /\ Plain \cap Odd = {}

Line(k, v) == [key |-> k, val |-> v]

(* What _WriteFIle writes for one key of the map.                          *)
Entry(k, v) ==
    IF v = "newline" THEN <<Line(k, "part"), Line(Injected, "v2")>> ELSE <<Line(k, v)>>

(* The file as _WriteFIle writes it, after each key of the order.          *)
LinesTo(m) ==
    LET to[n \in 0..Len(KeyOrder)] ==
            IF n = 0 THEN <<>>
            ELSE IF KeyOrder[n] \in DOMAIN m
            THEN to[n - 1] \o Entry(KeyOrder[n], m[KeyOrder[n]])
            ELSE to[n - 1]
    IN  to

Lines(m) == LinesTo(m)[Len(KeyOrder)]

(* _LoadFile, _ParseLine and _TrimSpace.  Of two lines for a key the first *)
(* counts.                                                                 *)
Parsed(f) ==
    {i \in DOMAIN f : (i > 1 => f[i - 1].val # "long") /\ f[i].val # "empty"}

ReadBack(v) == IF v = "hash" THEN "part" ELSE v

Loaded(f) ==
    [k \in {f[i].key : i \in Parsed(f)} |->
        LET first == CHOOSE i \in Parsed(f) :
                        /\ f[i].key = k
                        /\ \A j \in Parsed(f) : f[j].key = k => i <= j
        IN  ReadBack(f[first].val)]

(* What may be on the disk of the lines ls: all up to some byte.           *)
Truncated(ls) ==
    {SubSeq(ls, 1, n) : n \in 0..Len(ls)}
        \cup {[SubSeq(ls, 1, n) EXCEPT ![n].val = "cut"] :
                  n \in {i \in DOMAIN ls : ls[i].val # "empty"}}

(* The keys that a reader may find with another value, or not at all, when *)
(* the map m is written, and those whose line is cut in the file f.        *)
Spoils(m) ==
    {k \in DOMAIN m : m[k] \in Odd}
        \cup {k \in {Injected} : \E j \in DOMAIN m : m[j] = "newline"}

CutIn(f) == {f[i].key : i \in {j \in DOMAIN f : f[j].val = "cut"}}

(* A complete file; a person who wrote it may have given a key twice.      *)
ConfigInit ==
    /\ \E D \in SUBSET Settable :
         LET given == [k \in Keys \ D |-> "v1"]
         IN  /\ intended = [k \in Keys |-> IF k \in D THEN {} ELSE {"v1"}]
             /\ \/ file = Lines(given)
                \/ \E k \in Keys \ D : file = Append(Lines(given), Line(k, "v2"))
                \/ file = Missing
    /\ spoiled = {} /\ diskFull = FALSE
    /\ map = <<>> /\ loadOk = FALSE
    /\ confPc = "none" /\ written = 0 /\ ret = "none" /\ sets = 0

(* The constructor.  m_load_ok is not set when the file cannot be opened.  *)
Construct ==
    /\ confPc = "none"
    /\ confPc' = "idle"
    /\ IF file = Missing
       THEN map' = <<>> /\ loadOk' \in BOOLEAN
       ELSE map' = Loaded(file) /\ loadOk' = TRUE
    /\ UNCHANGED <<file, diskFull, written, ret, history, sets>>

SetRefused ==
    /\ confPc = "idle" /\ ~loadOk
    /\ ret' = "failed"
    /\ UNCHANGED <<file, diskFull, map, loadOk, confPc, written, history, sets>>

SetConfigValue(k, v) ==
    /\ confPc = "idle" /\ loadOk /\ sets < MaxSets
    /\ v = "long" => \A x \in DOMAIN map \ {k} : map[x] # "long"
    /\ map' = [x \in DOMAIN map \cup {k} |-> IF x = k THEN v ELSE map[x]]
    /\ sets' = sets + 1
    /\ \/ /\ ret' = "failed"        \* fopen fails
          /\ intended' = [intended EXCEPT ![k] = @ \cup {v}]
          /\ UNCHANGED <<file, diskFull, confPc, written, spoiled>>
       \/ /\ file' = <<>>           \* fopen(..., "w") empties the file
          /\ diskFull' = FALSE
          /\ intended' = [intended EXCEPT ![k] = {v}]
          /\ spoiled' = (spoiled \ {k}) \cup Spoils(map')
          /\ confPc' = "writing" /\ written' = 0
          /\ UNCHANGED ret
    /\ UNCHANGED loadOk

(* The two lines of a value with a newline are given to one fwrite; two    *)
(* steps leave the same files.                                             *)
WriteEntry ==
    /\ confPc = "writing" /\ written < Len(Lines(map))
    /\ written' = written + 1
    /\ UNCHANGED <<file, diskFull, map, loadOk, confPc, ret, history, sets>>

(* What reaches the disk of the lines ls, and the keys that are cut in it. *)
PartLeft(ls) ==
    /\ file' \in Truncated(ls)
    /\ spoiled' = spoiled \cup CutIn(file')

(* fwrite fails: what was written before stays.                            *)
WriteFails ==
    /\ confPc = "writing" /\ written < Len(Lines(map))
    /\ PartLeft(SubSeq(Lines(map), 1, written))
    /\ diskFull' = TRUE
    /\ confPc' = "idle" /\ ret' = "failed"
    /\ UNCHANGED <<map, loadOk, written, intended, sets>>

CloseFile_LeavesLast ==
    /\ confPc = "writing" /\ written >= Len(Lines(map)) - 1
    /\ confPc' = "idle" /\ ret' = "saved"
    /\ file' = SubSeq(Lines(map), 1, written)
    /\ UNCHANGED <<map, loadOk, written, history, sets, diskFull>>

CloseFile ==
    /\ confPc = "writing" /\ written = Len(Lines(map))
    /\ confPc' = "idle" /\ ret' = "saved"
    /\ \/ file' = Lines(map) /\ UNCHANGED <<diskFull, spoiled>>
       \/ PartLeft(Lines(map)) /\ diskFull' = TRUE
    /\ UNCHANGED <<map, loadOk, written, intended, sets>>

(* The process ends, at any moment.                                        *)
ConfigLost ==
    /\ \/ confPc = "writing" /\ PartLeft(SubSeq(Lines(map), 1, written))
       \/ confPc # "writing" /\ UNCHANGED <<file, spoiled>>
    /\ confPc' = "none" /\ map' = <<>> /\ loadOk' = FALSE
    /\ written' = 0 /\ ret' = "none"
    /\ UNCHANGED <<diskFull, intended, sets>>

(* The user removes the file.                                              *)
FileRemoved ==
    /\ confPc = "none" /\ file # Missing
    /\ file' = Missing
    /\ UNCHANGED <<diskFull, map, loadOk, confPc, written, ret, history, sets>>

ConfigNext ==
    \/ FileRemoved
    \/ Construct \/ SetRefused
    \/ \E k \in Settable, v \in Plain \cup Odd : SetConfigValue(k, v)
    \/ WriteEntry \/ WriteFails \/ CloseFile

-----------------------------------------------------------------------------
(* SetConfigValue and the next reader: what was saved reads back, every    *)
(* key of it and nothing else, as long as the disk had room and no value   *)
(* of the map is an odd one.  An odd value may spoil other keys than its   *)
(* own: a long one takes the line after it, at every save, and one with a  *)
(* newline gives a value to another key.                                   *)
SavedReadsBack ==
    /\ confPc = "idle" /\ ret = "saved" /\ ~diskFull
    /\ \A k \in DOMAIN map : map[k] \in Plain \cup {"cut", "part"}
    => Loaded(file) = map
=============================================================================
