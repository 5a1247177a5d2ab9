------------------------------ MODULE ByteQueue ------------------------------
(***************************************************************************)
(* What a Buffer promises: a queue of bytes.  put is what was added last,  *)
(* got what was handed out last.                                           *)
(***************************************************************************)
EXTENDS Naturals, Sequences

CONSTANT Byte

VARIABLES content, put, got

vars == <<content, put, got>>

Init == content = <<>> /\ put = <<>> /\ got = <<>>

Put ==
    /\ put' \in Seq(Byte) /\ got' = <<>>
    /\ content' = content \o put'

Take ==
    /\ put' = <<>> /\ got' \in Seq(Byte)
    /\ content = got' \o content'

(* Hands out the first n bytes and keeps them.                             *)
Peek(n) ==
    /\ put' = <<>> /\ got' = SubSeq(content, 1, n)
    /\ content' = content

Drop(n) ==
    /\ put' = <<>> /\ got' = <<>>
    /\ content' = SubSeq(content, n + 1, Len(content))

Next ==
    \/ Put \/ Take
    \/ \E n \in 0..Len(content) : Peek(n) \/ Drop(n)

Spec == Init /\ [][Next]_vars
=============================================================================
