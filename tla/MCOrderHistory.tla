--------------------------- MODULE MCOrderHistory ---------------------------
(* Values for the constants of OrderHistory, for TLC. *)
EXTENDS OrderHistory

CONSTANTS alice, bob, c1, c2, l1

\* Everything belongs to one user, but for one create request.
Owner == [x \in Lister \cup Creator |-> IF x = c2 THEN bob ELSE alice]

\* Two orders of c1, one of c2.
MadeBy == [o \in Order |-> IF o = 3 THEN c2 ELSE c1]

\* A page too small for what c1 orders, and one with room left.
PageSize == [l \in Lister |-> IF l = l1 THEN 1 ELSE 3]
=============================================================================
