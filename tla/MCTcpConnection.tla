-------------------------- MODULE MCTcpConnection --------------------------
(* Small instances of TcpConnection for TLC.                               *)
EXTENDS TcpConnection, TLC

Symmetry == Permutations(Workers) \cup Permutations(Msgs)
=============================================================================
