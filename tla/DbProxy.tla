------------------------------- MODULE DbProxy -------------------------------
(***************************************************************************)
(* The start of the database proxy: main                                   *)
(* (src/db_proxy_server/db_proxy_server.cc), CDBManager (DBPool.cc) and    *)
(* CacheManager (CachePool.cc), which read dbproxyserver.conf and make a   *)
(* pool for each instance it names, with CStrExplode                       *)
(* (src/common/base/util.cc), which takes the names apart.                 *)
(*                                                                         *)
(* The process may end at any moment and is started again; while it serves *)
(* it may set values of its config file, which ConfigFile describes.  All  *)
(* keys of an instance are one key here, with the instance's name, and so  *)
(* are the four that main reads besides aesKey.  The pools are ConnPool's. *)
(***************************************************************************)
EXTENDS ConfigFile, FiniteSets

CONSTANTS
    DbTexts, CacheTexts,  \* possible values of DBInstances, CacheInstances
    Comma

VARIABLES
    dbText, cacheText,  \* those of the file; a text is a sequence
    proc,               \* "off", how far main is, or how it ended
    pools,              \* names in m_dbpool_map and m_cache_pool_map
    conf                \* what main has read

procVars == <<dbText, cacheText, proc, pools, conf>>
vars == <<confVars, procVars>>

-----------------------------------------------------------------------------
(* CStrExplode.  m_item_cnt is one more than there are separators; the     *)
(* loop does not split at a separator where a piece would be empty, so     *)
(* that fewer items than that may be set.                                  *)
ItemCnt(str) == 1 + Cardinality({i \in DOMAIN str : str[i] = Comma})

Scan_KeepsStart(s, a, pos) ==
    IF pos # a.start /\ s[pos] = Comma
    THEN [start |-> pos, items |-> Append(a.items, SubSeq(s, a.start, pos - 1))]
    ELSE a

Scan(s, a, pos) ==
    IF pos # a.start /\ s[pos] = Comma
    THEN [start |-> pos + 1, items |-> Append(a.items, SubSeq(s, a.start, pos - 1))]
    ELSE a

Scanned(str) ==
    LET at[pos \in 0..Len(str)] ==
            IF pos = 0 THEN [start |-> 1, items |-> <<>>] ELSE Scan(str, at[pos - 1], pos)
    IN  at

ItemList(str) ==
    LET end == Scanned(str)[Len(str)]
    IN  IF end.start <= Len(str)
        THEN Append(end.items, SubSeq(str, end.start, Len(str)))
        ELSE end.items

(* The pieces between the separators, empty ones included: the n-th lies   *)
(* between the borders that have n - 1 and n others before them.           *)
Borders(str) == {i \in DOMAIN str : str[i] = Comma} \cup {0, Len(str) + 1}

BorderAt(str, n) == CHOOSE e \in Borders(str) : Cardinality({d \in Borders(str) : d < e}) = n

Pieces(str) ==
    [n \in 1..ItemCnt(str) |-> SubSeq(str, BorderAt(str, n - 1) + 1, BorderAt(str, n) - 1)]

NoEmptyPiece(str) == \A e \in Borders(str) : e + 1 \notin Borders(str)

(* What the lists look like.  The order of the keys is that of bytes, and  *)
(* the names of database instances begin with small letters: their keys    *)
(* are behind DBInstances in a file the program wrote.  A value is not     *)
(* empty.  The program sets none of the lists, nor names one in a value    *)
(* with a newline, and the keys it sets are behind them, as all others of  *)
(* the shipped file are.                                                   *)
ASSUME ListsAssumption ==
    /\ DbTexts \cup CacheTexts \subseteq Seq(STRING) \ {<<>>}
    /\ Comma \notin Keys
    /\ Before("CacheInstances", "DBInstances")
    /\ \A t \in DbTexts : \A i \in DOMAIN t : t[i] \in Keys => Before("DBInstances", t[i])
    /\ \A k \in Settable : Before("DBInstances", k)
    /\ Injected \notin {"CacheInstances", "DBInstances"}

-----------------------------------------------------------------------------
(* The config as a reader finds it now.                                    *)
Config == IF file = Missing THEN <<>> ELSE Loaded(file)

(* The value of key: its text, or a part when it is cut.                   *)
TextOf(key, text) ==
    IF Config[key] = "cut" THEN {SubSeq(text, 1, n) : n \in 1..Len(text)} ELSE {text}

Configured(item) == \E k \in DOMAIN Config : item = <<k>>

Init ==
    /\ ConfigInit
    /\ dbText \in DbTexts /\ cacheText \in CacheTexts
    /\ proc = "off" /\ pools = {} /\ conf = <<>>

ProcAt(at) == proc' = at /\ UNCHANGED <<dbText, cacheText>>

MainStarts ==
    /\ proc \in {"off", "exited"} /\ confPc = "none"
    /\ ProcAt("db")
    /\ pools' = {} /\ conf' = <<>>
    /\ UNCHANGED confVars

(* getInstance and Init of a manager: key names the instances; a name that *)
(* is not configured, or a pool that cannot connect, ends it.  An item     *)
(* that was not set is a wild pointer to the loop, and to ~CStrExplode,    *)
(* which CDBManager does not get to when it fails: LOG_FATAL exits.        *)
ManagerFails(here, key) ==
    /\ proc = here /\ key \notin DOMAIN Config
    /\ ProcAt("exited")
    /\ UNCHANGED <<confVars, pools, conf>>

ManagerInit_FailureReturns(here, key, text, next) ==
    /\ proc = here /\ key \in DOMAIN Config
    /\ \E str \in TextOf(key, text) :
         LET items == ItemList(str)
             wild == Len(items) < ItemCnt(str)
         IN  \/ ProcAt(IF wild THEN "undefined" ELSE "exited") /\ UNCHANGED pools
             \/ /\ \A i \in DOMAIN items : Configured(items[i])
                /\ ProcAt(IF wild THEN "undefined" ELSE next)
                /\ pools' = pools \cup Range(items)
    /\ UNCHANGED <<confVars, conf>>

ManagerInit(here, key, text, next) ==
    /\ proc = here /\ key \in DOMAIN Config
    /\ \E str \in TextOf(key, text) :
         LET items == ItemList(str)
             wild == Len(items) < ItemCnt(str)
         IN  \/ /\ ProcAt(IF wild /\ here = "cache" THEN "undefined" ELSE "exited")
                /\ UNCHANGED pools
             \/ /\ \A i \in DOMAIN items : Configured(items[i])
                /\ ProcAt(IF wild THEN "undefined" ELSE next)
                /\ pools' = pools \cup Range(items)
    /\ UNCHANGED <<confVars, conf>>

MainKeys == {"Listen", "aesKey"}

MainReads_Unchecked ==
    /\ proc = "main"
    /\ conf' = Config
    /\ ProcAt("serving")
    /\ UNCHANGED <<confVars, pools>>

(* main's own keys.  A value of aesKey has the 32 characters it must have, *)
(* or no more of them in front of a # or a newline: a cut one has fewer.   *)
MainReads ==
    /\ proc = "main"
    /\ conf' = Config
    /\ \/ /\ MainKeys \subseteq DOMAIN Config
          /\ Config["aesKey"] \notin {"cut", "long"}
          /\ ProcAt("serving")
       \/ /\ MainKeys \subseteq DOMAIN Config =>
                  Config["aesKey"] \in {"cut", "long", "part"}
          /\ ProcAt("exited")
    /\ UNCHANGED <<confVars, pools>>

Configures == proc = "serving" /\ ConfigNext /\ UNCHANGED procVars

(* The process is killed, or ends.                                         *)
Ends ==
    /\ proc \notin {"off", "undefined"}
    /\ proc = "exited" => confPc # "none"
    /\ ConfigLost
    /\ ProcAt("off")
    /\ UNCHANGED <<pools, conf>>

Undefined == proc = "undefined" /\ UNCHANGED vars

Next ==
    \/ MainStarts \/ MainReads \/ Configures \/ Ends \/ Undefined
    \/ ManagerFails("db", "DBInstances") \/ ManagerInit("db", "DBInstances", dbText, "cache")
    \/ ManagerFails("cache", "CacheInstances")
    \/ ManagerInit("cache", "CacheInstances", cacheText, "main")

Spec == Init /\ [][Next]_vars

-----------------------------------------------------------------------------
(* The members have their types.                                           *)
TypeOK ==
    /\ file = Missing \/ \A i \in DOMAIN file : file[i].key \in Keys
    /\ DOMAIN map \subseteq Keys /\ DOMAIN conf \subseteq Keys
    /\ DOMAIN intended = Keys /\ spoiled \subseteq Keys
    /\ loadOk \in BOOLEAN /\ diskFull \in BOOLEAN
    /\ confPc \in {"none", "idle", "writing"}
    /\ written \in 0..(2 * Len(KeyOrder))
    /\ ret \in {"none", "saved", "failed"}
    /\ proc \in {"off", "db", "cache", "main", "serving", "exited", "undefined"}

(* CStrExplode: the pieces between the separators, if none is empty; if    *)
(* one is, fewer items are set than GetItemCnt says, but never more than   *)
(* the array has room for.                                                 *)
ExplodeSplits ==
    \A str \in {dbText, cacheText} :
        IF NoEmptyPiece(str)
        THEN ItemList(str) = Pieces(str) /\ ItemCnt(str) = Len(Pieces(str))
        ELSE Len(ItemList(str)) < ItemCnt(str)

(* CDBManager::Init and CacheManager::Init: no wild pointer is used when   *)
(* the lists in the config file have no empty piece, even if a crash has   *)
(* cut the file in the middle of a list.                                   *)
NeverUndefined ==
    /\ TypeOK
    /\ NoEmptyPiece(dbText) /\ NoEmptyPiece(cacheText) => proc # "undefined"

(* main, the managers and SetConfigValue: a server that comes up, after    *)
(* whatever crash or full disk, has a pool for each of the instances its   *)
(* config file names and for no other, and finds every key it needs, with  *)
(* the very value it was set to last (or that of a later call that failed  *)
(* to open the file).  Except the keys that are spoiled and not set since: *)
(* one whose line was cut by a crash or a full disk, one set to a value    *)
(* that does not read back, and one named in a value with a newline.       *)
ServesWhatWasSet ==
    [][proc' = "serving" /\ proc # "serving" =>
          /\ pools = Range(Pieces(dbText)) \cup Range(Pieces(cacheText))
          /\ \A k \in {"DBInstances", "CacheInstances"} \cup MainKeys
                         \cup {item[1] : item \in pools} :
                k \in DOMAIN Config /\ (k \in spoiled \/ Config[k] \in intended[k])]_vars
=============================================================================
