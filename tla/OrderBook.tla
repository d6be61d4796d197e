----------------------------- MODULE OrderBook ------------------------------
(***************************************************************************)
(* What the orders table promises to shops and robots, without its         *)
(* transactions: every request takes effect at most once, all at once, and *)
(* is told so only afterwards.                                             *)
(*                                                                         *)
(*   a create request places a batch of new orders;                        *)
(*   a plan takes a set of placed orders for a robot;                      *)
(*   a patch writes the status of one order, if there is such an order.    *)
(*                                                                         *)
(* A create request that was answered never takes effect afterwards: what  *)
(* the shop was told is final.  A robot that was answered with an error    *)
(* may find later that its request took effect all the same.               *)
(***************************************************************************)
CONSTANTS CreateReq, PlanReq, PatchReq, OrderId, PatchStatus

VARIABLES
    book,       \* status of each order id, "none": not placed
    effective,  \* requests that have taken effect
    about,      \* the orders a request's effect was about
    answer      \* "idle", "waiting", "ok", "err" or "lost"

bookVars == <<book, effective, about, answer>>

Req == CreateReq \cup PlanReq \cup PatchReq

Init ==
    /\ book = [o \in OrderId |-> "none"]
    /\ effective = {}
    /\ about = [r \in Req |-> {}]
    /\ answer = [r \in Req |-> "idle"]

Ask(r) ==
    /\ answer[r] = "idle"
    /\ answer' = [answer EXCEPT ![r] = "waiting"]
    /\ UNCHANGED <<book, effective, about>>

\* The one effect of r: the orders S show the status s.
Effect(r, S, s) ==
    /\ r \notin effective
    /\ effective' = effective \cup {r}
    /\ about' = [about EXCEPT ![r] = S]
    /\ book' = [o \in OrderId |-> IF o \in S THEN s ELSE book[o]]
    /\ UNCHANGED answer

\* New orders, none of which was placed before; nobody has been answered yet.
Place(r) ==
    /\ answer[r] \in {"waiting", "lost"}
    /\ \E S \in SUBSET OrderId : /\ \A o \in S : book[o] = "none"
                                 /\ Effect(r, S, "shipping")

\* Orders that were placed.  They need not be waiting any more: plans that
\* overlap may take the same order.
Take(r) ==
    /\ answer[r] # "idle"
    /\ \E S \in SUBSET OrderId : /\ \A o \in S : book[o] # "none"
                                 /\ Effect(r, S, "delivering")

\* One order, or an id nobody placed, for which nothing is written.
Mark(r) ==
    /\ answer[r] # "idle"
    /\ \E o \in OrderId, s \in PatchStatus :
         /\ Effect(r, {o}, IF book[o] = "none" THEN "none" ELSE s)

\* Success is answered for an effect only, an error at any time.
Tell(r) ==
    /\ answer[r] = "waiting"
    /\ \E a \in {"ok", "err"} : /\ a = "ok" => r \in effective
                                /\ answer' = [answer EXCEPT ![r] = a]
    /\ UNCHANGED <<book, effective, about>>

\* The server stops: who waits is never answered.
Stop ==
    /\ answer' = [r \in Req |-> IF answer[r] = "waiting" THEN "lost"
                                                         ELSE answer[r]]
    /\ UNCHANGED <<book, effective, about>>

Next ==
    \/ \E r \in CreateReq : Place(r)
    \/ \E r \in PlanReq : Take(r)
    \/ \E r \in PatchReq : Mark(r)
    \/ \E r \in Req : Ask(r) \/ Tell(r)
    \/ Stop

Spec == Init /\ [][Next]_bookVars
=============================================================================
