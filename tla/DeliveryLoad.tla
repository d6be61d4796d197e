---------------------------- MODULE DeliveryLoad ----------------------------
(***************************************************************************)
(* selectOrdersForDelivery: the search for the load of a delivery robot.   *)
(*                                                                         *)
(* A row-by-row dynamic program over exact weights.  dp[w] is the value of *)
(* the best load found that weighs exactly w, reach the weights found so   *)
(* far (a bitset, enumerated word by word), choose[i] the weights at which *)
(* order i was taken (to walk back from the answer).  The weights and the  *)
(* capacity are first divided by the greatest common divisor.              *)
(*                                                                         *)
(* One order of the outer loop is one step: the rows of the inner loop are *)
(* read from the previous order's, so its iterations do not interact.      *)
(* The context of the request may end at any time.                         *)
(***************************************************************************)
EXTENDS Integers, Sequences, FiniteSets, SequencesExt, FiniteSetsExt

CONSTANTS
    Input,      \* the order lists GetShippingOrders may return
    Capacity,   \* capacities a robot may ask with
    WordBits    \* bits of a bitset word, 64 in the code

ASSUME LoadInputs ==
    /\ Input \subseteq Seq([weight : Nat, value : Nat])
    /\ Capacity \subseteq Int
    /\ WordBits \in Nat \ {0}

VARIABLES
    orders, capacity,   \* the arguments
    pc,                 \* where the function is
    g, W,               \* common divisor; compressed capacity
    i,                  \* order of the outer loop, then of the way back
    dp, reach, choose,  \* the rows
    w,                  \* weight still to account for on the way back
    selected,           \* indices of the orders taken
    plan,               \* the result: indices, total weight, total value
    ctxDone             \* the context of the request is done

args == <<orders, capacity>>
rowVars == <<g, W, dp, reach, choose>>
vars == <<orders, capacity, pc, g, W, i, dp, reach, choose, w, selected, plan,
          ctxDone>>

n == Len(orders)

Weigh(S) == SumFunctionOnSet([k \in 1 .. n |-> orders[k].weight], S)
Worth(S) == SumFunctionOnSet([k \in 1 .. n |-> orders[k].value], S)

Plan(S, value) == [orders |-> S, weight |-> Weigh(S), value |-> value]

-----------------------------------------------------------------------------
(* Helpers of the code. *)

\* gcd(a, b); a function of the pair.
gcd[p \in Nat \X Nat] ==
    IF p[2] = 0 THEN p[1] ELSE gcd[<<p[2], p[1] % p[2]>>]

\* The divisor of all positive weights.
CommonDivisor ==
    FoldLeft(LAMBDA acc, o : IF o.weight > 0 THEN gcd[<<acc, o.weight>>] ELSE acc,
             0, orders)

\* Weight of order k in units of the divisor; 0 / g = 0.
wts(k) == orders[k].weight \div g

BadMaskUpTo(max) == 0 .. (max % WordBits) - 1      \* loses the last bit

\* The bits of a word up to the one that stands for max.
maskUpTo(max) == 0 .. max % WordBits

\* The members of the bitset S the inner loop visits: all bits of the words
\* before the last one, and those under the mask in the last.
Bases(S, max) ==
    LET lastWord == max \div WordBits
        Word(k)  == {b \in 0 .. WordBits - 1 : k * WordBits + b \in S}
        Bits(k)  == IF k = lastWord THEN Word(k) \cap maskUpTo(max) ELSE Word(k)
    IN  UNION {{k * WordBits + b : b \in Bits(k)} : k \in 0 .. lastWord}

AtMost(a, b) == IF a < b THEN a ELSE b

-----------------------------------------------------------------------------
Init ==
    /\ orders \in Input
    /\ capacity \in Capacity
    /\ pc = "start"
    /\ g = 1 /\ W = 0 /\ i = 1 /\ w = 0
    /\ dp = <<>> /\ reach = {} /\ choose = <<>>
    /\ selected = {}
    /\ plan = Plan({}, 0)
    /\ ctxDone = FALSE

\* Nothing to carry or no room: the empty plan.
ReturnEmpty ==
    /\ pc = "start"
    /\ n = 0 \/ capacity <= 0
    /\ pc' = "done"
    /\ UNCHANGED <<args, rowVars, i, w, selected, plan, ctxDone>>

\* Everything fits: everything.
ReturnAll ==
    /\ pc = "start"
    /\ n > 0 /\ capacity > 0
    /\ Weigh(1 .. n) <= capacity
    /\ plan' = Plan(1 .. n, Worth(1 .. n))
    /\ pc' = "done"
    /\ UNCHANGED <<args, rowVars, i, w, selected, ctxDone>>

BadCompress(c, d) == c                 \* the capacity stays in its own units

\* The capacity in units of the divisor.
Compress(c, d) == c \div d

\* Compression and the rows before the first order.
StartSearch ==
    /\ pc = "start"
    /\ n > 0 /\ capacity > 0
    /\ Weigh(1 .. n) > capacity
    /\ g' = CommonDivisor
    /\ W' = Compress(capacity, CommonDivisor)
    /\ dp' = [x \in 0 .. W' |-> 0]
    /\ reach' = {0}
    /\ choose' = [k \in 1 .. n |-> {}]
    /\ i' = 1
    /\ pc' = "items"
    /\ UNCHANGED <<args, w, selected, plan, ctxDone>>

BadImproved(k) ==      \* also from weights no load has
    {b + wts(k) : b \in {a \in 0 .. W : /\ a + wts(k) <= W
                                        /\ dp[a] + orders[k].value > dp[a + wts(k)]}}

\* The weights at which taking order k beats the row so far: only from weights
\* already reached, and only by a strictly higher value.
Improved(k) ==
    IF wts(k) = 0 \/ wts(k) > W THEN {}
    ELSE {b + wts(k) :
            b \in {a \in Bases(reach, AtMost(Max(reach), W - wts(k))) :
                     dp[a] + orders[k].value > dp[a + wts(k)]}}

BadRow(k) ==      \* the value of the order is not added to what it lies on
    [x \in 0 .. W |-> IF x \in Improved(k) THEN orders[k].value ELSE dp[x]]

\* The row after order k.
Row(k) ==
    [x \in 0 .. W |-> IF x \in Improved(k)
                      THEN dp[x - wts(k)] + orders[k].value ELSE dp[x]]

BadTaken(k) == IF wts(k) > 0 THEN 0 .. W ELSE {}      \* marked without the test

Taken(k) == Improved(k)

\* One order of the outer loop.
TryOrder ==
    /\ pc = "items"
    /\ i <= n
    /\ dp' = Row(i)
    /\ choose' = [choose EXCEPT ![i] = Taken(i)]
    /\ reach' = reach \cup Improved(i)
    /\ i' = i + 1
    /\ UNCHANGED <<args, pc, g, W, w, selected, plan, ctxDone>>

BadBestW == CHOOSE x \in 0 .. W : \A y \in 0 .. W : dp[y] <= dp[x]

\* bestValue is dp[W], and the loop that looks for the largest weight with this
\* value starts at W: bestW is always W.
bestValue == dp[W]
bestW == Max({x \in 0 .. W : dp[x] = bestValue})

StartRestore ==
    /\ pc = "items"
    /\ i > n
    /\ w' = bestW
    /\ i' = n
    /\ pc' = "restore"
    /\ UNCHANGED <<args, rowVars, selected, plan, ctxDone>>

\* The way back: order i is in the load when it was taken at the weight left.
Restore ==
    /\ pc = "restore"
    /\ i >= 1 /\ w >= 0
    /\ IF w \in choose[i]
       THEN selected' = selected \cup {i} /\ w' = w - wts(i)
       ELSE UNCHANGED <<selected, w>>
    /\ i' = i - 1
    /\ UNCHANGED <<args, rowVars, pc, plan, ctxDone>>

\* The final look at the context, and the plan in the units of the orders.
ReturnLoad ==
    /\ pc = "restore"
    /\ i < 1 \/ w < 0
    /\ ~ctxDone
    /\ plan' = Plan(selected, bestValue)
    /\ pc' = "done"
    /\ UNCHANGED <<args, rowVars, i, w, selected, ctxDone>>

\* The context is looked at now and then in the inner loop, and at the end.
ReturnCancelled ==
    /\ ctxDone
    /\ \/ pc = "items" /\ i <= n
       \/ pc = "restore" /\ (i < 1 \/ w < 0)
    /\ pc' = "cancelled"
    /\ UNCHANGED <<args, rowVars, i, w, selected, plan, ctxDone>>

Cancel ==
    /\ ~ctxDone
    /\ pc \notin {"done", "cancelled"}
    /\ ctxDone' = TRUE
    /\ UNCHANGED <<args, rowVars, pc, i, w, selected, plan>>

Returned == pc \in {"done", "cancelled"} /\ UNCHANGED vars

Next ==
    \/ ReturnEmpty \/ ReturnAll \/ StartSearch
    \/ TryOrder \/ StartRestore \/ Restore \/ ReturnLoad
    \/ ReturnCancelled \/ Cancel \/ Returned

Spec == Init /\ [][Next]_vars

-----------------------------------------------------------------------------
(* Reference: what a load is, by enumeration of all sets of orders. *)

Carriable == {k \in 1 .. n : orders[k].weight > 0}

\* Sets of the first k orders with the (compressed) weight x.
ExactLoads(k, x) == {S \in SUBSET (Carriable \cap 1 .. k) : Weigh(S) = x * g}

BestWorth(loads) == Max({0} \cup {Worth(S) : S \in loads})

ValuesPositive == \A k \in 1 .. n : orders[k].value > 0

Searching == pc \in {"items", "restore"}

-----------------------------------------------------------------------------
TypeOK ==
    /\ orders \in Input /\ capacity \in Capacity
    /\ pc \in {"start", "items", "restore", "done", "cancelled"}
    /\ g \in Nat \ {0} /\ W \in Nat /\ i \in 0 .. n + 1 /\ w \in 0 .. W
    /\ Searching => /\ dp \in [0 .. W -> Nat]
                    /\ reach \subseteq 0 .. W
                    /\ choose \in [1 .. n -> SUBSET (0 .. W)]
    /\ selected \subseteq 1 .. n
    /\ plan.orders \subseteq 1 .. n
    /\ ctxDone \in BOOLEAN

\* The word-by-word enumeration visits exactly the reached weights up to its
\* limit, at every word boundary (maskUpTo, lastWord).
EnumerationIsExact ==
    Searching => \A max \in 0 .. W :
                   Bases(reach, max) = {b \in reach : b <= max}

\* Orders whose rows are done.
Tried == IF pc = "items" THEN i - 1 ELSE n

\* S is the load the way back finds when it starts at order k with weight x.
Leads(S, k, x) ==
    \A j \in 1 .. k :
        j \in S <=> \E y \in choose[j] : y * g = x * g - Weigh(S \cap (j + 1 .. k))

\* Every row entry is the value of a real load of exactly that weight, and it
\* is the load the way back would find from there, although the rows it came
\* from are gone; weights that were never reached keep 0.
RowsAreLoads ==
    Searching => \A x \in 0 .. W :
        IF x \in reach
        THEN \E S \in ExactLoads(Tried, x) : Worth(S) = dp[x] /\ Leads(S, Tried, x)
        ELSE dp[x] = 0

\* While no order is worthless, the rows hold the best value the orders tried
\* so far have at each exact weight, and reach the weights that have a load.
RowsAreBest ==
    Searching /\ ValuesPositive =>
        \A x \in 0 .. W :
            LET loads == ExactLoads(Tried, x) IN
            /\ dp[x] = BestWorth(loads)
            /\ x \in reach <=> loads # {}

\* The result is one the rest of the system may rely on: the orders fit, the
\* totals are theirs, everything is taken when everything fits, and what the
\* search picked has weight (Selectable in OrderStore).
PlanIsALoad ==
    pc = "done" =>
        /\ plan.weight = Weigh(plan.orders)
        /\ plan.value = Worth(plan.orders)
        /\ plan.orders # {} => plan.weight <= capacity
        /\ IF n = 0 \/ capacity <= 0 THEN plan.orders = {}
           ELSE IF Weigh(1 .. n) <= capacity THEN plan.orders = 1 .. n
           ELSE plan.orders \subseteq Carriable

\* What the search finds when not everything fits: a load that fills the
\* capacity (rounded down to the divisor) to the brim, the best of those while
\* no order is worthless, and nothing at all when no set of orders does.
FillsExactly ==
    pc = "done" /\ n > 0 /\ capacity > 0 /\ Weigh(1 .. n) > capacity =>
        LET brim == ExactLoads(n, W) IN
        /\ plan.orders \in brim \cup {{}}
        /\ ValuesPositive => /\ plan.value = BestWorth(brim)
                             /\ plan.orders = {} => brim \subseteq {{}}

\* Why: the divisor divides every weight, so that units and weights are the same
\* thing; nothing is marked before its order was tried or without being reached;
\* and the way back has taken the part of the load that lies behind it.
Compressed ==
    /\ n > 0 /\ capacity > 0 /\ Weigh(1 .. n) > capacity
    /\ W = capacity \div g
    /\ \A k \in 1 .. n : wts(k) * g = orders[k].weight

NoLoadIsBetter ==
    ValuesPositive => \A x \in 0 .. W : \A S \in ExactLoads(Tried, x) :
                          x \in reach /\ Worth(S) <= dp[x]

MarksAreReached ==
    /\ 0 \in reach
    /\ \A k \in 1 .. n : choose[k] \subseteq IF k <= Tried THEN reach ELSE {}

OnTheWayBack ==
    IF W \in reach
    THEN \E S \in ExactLoads(n, W) :
            /\ Worth(S) = dp[W] /\ Leads(S, n, W)
            /\ selected = S \cap (i + 1 .. n)
            /\ w * g = W * g - Weigh(selected)
    ELSE selected = {} /\ w = W

LoadInv ==
    /\ TypeOK
    /\ RowsAreLoads
    /\ Searching => Compressed /\ NoLoadIsBetter /\ MarksAreReached
    /\ pc = "start" => plan = Plan({}, 0) /\ w = 0
    /\ pc \in {"start", "items"} => selected = {} /\ i >= 1
    /\ pc = "restore" => OnTheWayBack /\ i <= n
    /\ PlanIsALoad /\ FillsExactly

-----------------------------------------------------------------------------
(* What the document says and the code does not do. *)

\* The plan has the highest total value among the loads that fit
\* (documents/md/app/01_Service.md).
PlanIsOptimal ==
    pc = "done" /\ capacity >= 0 =>
        \A S \in SUBSET (1 .. n) : Weigh(S) <= capacity => Worth(S) <= plan.value
=============================================================================
