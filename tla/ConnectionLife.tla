--------------------------- MODULE ConnectionLife ---------------------------
(***************************************************************************)
(* What a TcpServer promises to its user for each connection: it comes up, *)
(* goes down, each at most once and in this order, and its object is gone  *)
(* after that.  Only a server that is being destroyed may let an object go *)
(* without reporting the connection down.                                  *)
(***************************************************************************)
CONSTANT Conns

VARIABLES
    life,      \* of each connection: "none", "up", "down" or "gone"
    closing    \* the server is being destroyed

vars == <<life, closing>>

Init ==
    /\ life = [c \in Conns |-> "none"]
    /\ closing = FALSE

Becomes(c, from, to) ==
    /\ life[c] \in from
    /\ life' = [life EXCEPT ![c] = to]
    /\ UNCHANGED closing

Up(c) == Becomes(c, {"none"}, "up")
Down(c) == Becomes(c, {"up"}, "down")
Gone(c) == Becomes(c, {"down"}, "gone")
Dropped(c) == closing /\ Becomes(c, {"none", "up"}, "gone")

(* The loop of a destroyed server takes all it holds with it.              *)
DroppedTogether ==
    /\ closing
    /\ \E S \in SUBSET Conns :
          life' = [c \in Conns |-> IF c \in S THEN "gone" ELSE life[c]]
    /\ UNCHANGED closing

Close ==
    /\ ~closing
    /\ closing' = TRUE
    /\ UNCHANGED life

Next ==
    \/ \E c \in Conns : Up(c) \/ Down(c) \/ Gone(c) \/ Dropped(c)
    \/ DroppedTogether \/ Close

Spec == Init /\ [][Next]_vars
=============================================================================
