-------------------------- MODULE OrderStoreProofs --------------------------
(***************************************************************************)
(* Proofs about OrderStore, for every set of requests, products, carts,    *)
(* capacities and statuses and every number of orders.                     *)
(***************************************************************************)
EXTENDS OrderStore, TLAPS

(***************************************************************************)
(* What a step may do to the requests, the rows and the table, without the *)
(* detail of the steps: the safety proofs below are about these facts.     *)
(***************************************************************************)

\* Only products somebody listed with a quantity are ordered.
LEMMA WantedProducts ==
    ASSUME NEW cart \in Cart
    PROVE  DOMAIN ItemsToProcess(cart) \subseteq Product
<1>1. cart \in Seq(Item)
  BY Inputs
<1>2. \A i \in DOMAIN cart : cart[i] \in Item
  BY <1>1
<1>3. \A i \in DOMAIN cart : cart[i].product \in Product
  BY <1>2 DEF Item
<1> QED
  BY <1>3 DEF ItemsToProcess

\* Every action of the module preserves the types.
LEMMA TypeStep ==
    ASSUME TypeOK, [Next]_vars
    PROVE  TypeOK'
<1> USE RequestKinds, Inputs DEF TypeOK, OrderId, Status, Req
<1>0. CASE UNCHANGED vars
  BY <1>0 DEF vars
<1>1. ASSUME NEW r \in Req, Arrive(r) PROVE TypeOK'
  <2>1. ASSUME NEW first \in WorkerState, NEW target \in SUBSET OrderId,
               NEW new \in Status, Start(r, first, target, new)
        PROVE  TypeOK'
    BY <2>1 DEF Start, table, WorkerState, HandlerState
  <2>2. CASE r \in CreateReq /\ StartCreate(r)
    BY <2>1, <2>2 DEF StartCreate, WorkerState
  <2>3. CASE r \in PlanReq /\ StartPlan(r)
    BY <2>1, <2>3 DEF StartPlan, WorkerState
  <2>4. CASE r \in PatchReq /\ StartPatch(r)
    <3>1. PICK o \in OrderId, s \in PatchStatus : Start(r, "write", {o}, s)
      BY <2>4 DEF StartPatch
    <3> QED
      BY <2>1, <3>1 DEF WorkerState
  <2> QED
    BY <1>1, <2>2, <2>3, <2>4 DEF Arrive
<1>2. ASSUME NEW r \in Req, InsertOrders(r) PROVE TypeOK'
  <2>1. CASE UNCHANGED <<product, nextId, rows>>
    BY <1>2, <2>1 DEF InsertOrders, Go, WorkerState
  <2>2. ASSUME NEW cart \in Cart, CreateBatch(r, ItemsToProcess(cart))
        PROVE  TypeOK'
    <3> DEFINE wanted == ItemsToProcess(cart)
    <3>1. PICK last \in nextId .. MaxOrder :
            \E bought \in [nextId .. last -> DOMAIN wanted] :
              /\ \A p \in DOMAIN wanted :
                   wanted[p] = Cardinality({o \in nextId .. last : bought[o] = p})
              /\ product' = [o \in OrderId |-> IF o \in nextId .. last
                                               THEN bought[o] ELSE product[o]]
              /\ rows' = [rows EXCEPT ![r] = nextId .. last]
              /\ nextId' = NextId(last)
      BY <2>2 DEF CreateBatch
    <3>2. DOMAIN wanted \subseteq Product
      BY WantedProducts
    <3>3. PICK bought \in [nextId .. last -> DOMAIN wanted] :
            /\ product' = [o \in OrderId |-> IF o \in nextId .. last
                                             THEN bought[o] ELSE product[o]]
            /\ rows' = [rows EXCEPT ![r] = nextId .. last]
            /\ nextId' = NextId(last)
      BY <3>1
    <3>4. product' \in [OrderId -> Product \cup {NoProduct}]
      BY <3>2, <3>3
    <3>5. nextId .. last \in SUBSET OrderId
      BY <3>1
    <3>6. rows' \in [Req -> SUBSET OrderId] /\ nextId' \in 1 .. MaxOrder + 1
      BY <3>3, <3>5 DEF NextId
    <3> QED
      BY <1>2, <3>4, <3>6 DEF InsertOrders, Go, WorkerState
  <2> QED
    BY <1>2, <2>1, <2>2 DEF InsertOrders
<1>3. ASSUME NEW r \in Req, GetShippingOrders(r) PROVE TypeOK'
  BY <1>3 DEF GetShippingOrders, Visible, Go, table, WorkerState
<1>4. ASSUME NEW r \in Req, SelectOrders(r) PROVE TypeOK'
  BY <1>4 DEF SelectOrders, Selectable, Go, table, WorkerState
<1>5. ASSUME NEW r \in Req, UpdateStatuses(r) PROVE TypeOK'
  BY <1>5 DEF UpdateStatuses, Go, table, WorkerState
<1>6. ASSUME NEW r \in Req, CheckCommit(r) PROVE TypeOK'
  BY <1>6 DEF CheckCommit, Go, table, WorkerState
<1>7. ASSUME NEW r \in Req, NEW err \in {"nil", "err"}, Commit(r, err)
      PROVE  TypeOK'
  BY <1>7 DEF Commit, Return, Go, Written, WorkerState
<1>8. ASSUME NEW r \in Req, NEW err \in {"nil", "err"}, UpdateOrderStatus(r, err)
      PROVE  TypeOK'
  BY <1>8 DEF UpdateOrderStatus, Return, Go, Written, WorkerState
<1>9. ASSUME NEW r \in Req, Fail(r) PROVE TypeOK'
  BY <1>9 DEF Fail, Return, Go, table, WorkerState
<1>10. ASSUME NEW r \in Req, Cancel(r) PROVE TypeOK'
  BY <1>10 DEF Cancel, table
<1>11. ASSUME NEW r \in Req, HandlerStep(r) PROVE TypeOK'
  BY <1>11 DEF HandlerStep, AnswerResult, AnswerTimeout, Answer, table,
               HandlerState
<1>12. CASE Crash
  BY <1>12 DEF Crash, table, HandlerState
<1>13. CASE Finished
  BY <1>13 DEF Finished, vars
<1> QED
  BY <1>0, <1>1, <1>2, <1>3, <1>4, <1>5, <1>6, <1>7, <1>8, <1>9, <1>10, <1>11,
     <1>12, <1>13 DEF Next, WorkerStep, ReplyLost

\* The types hold from the start and stay.
THEOREM TypeCorrect == Spec => []TypeOK
<1>1. Init => TypeOK
  BY RequestKinds, Inputs
     DEF Init, TypeOK, WorkerState, HandlerState, Status, OrderId
<1>2. TypeOK /\ [Next]_vars => TypeOK'
  BY TypeStep
<1> QED
  BY <1>1, <1>2, PTL DEF Spec

-----------------------------------------------------------------------------
(***************************************************************************)
(* The inductive invariant.  Steps that leave the table and the rows in    *)
(* hand alone only disturb Phases and LocksExclusive.                      *)
(***************************************************************************)

LEMMA InitInv == Init => Inv
<1> SUFFICES ASSUME Init PROVE Inv
  OBVIOUS
<1>1. TypeOK
  BY RequestKinds, Inputs
     DEF Init, TypeOK, WorkerState, HandlerState, Status, OrderId
<1>2. Phases /\ LocksExclusive
  BY DEF Init, Phases, LocksExclusive, Held, Req
<1>3. IdsGivenOnce /\ BatchAtomic /\ PlanRowsStored
  BY DEF Init, IdsGivenOnce, BatchAtomic, PlanRowsStored, Req
<1>4. StoredHasCreator /\ TakenStaysTaken /\ DeliveringHasAuthor /\ NewsSinceRead
  BY DEF Init, StoredHasCreator, TakenStaysTaken, DeliveringHasAuthor,
         NewsSinceRead, Req
<1> QED
  BY <1>1, <1>2, <1>3, <1>4 DEF Inv

LEMMA QuietStep ==
    ASSUME Inv, TypeOK', Phases', LocksExclusive',
           UNCHANGED <<status, nextId, rows, to, durable, before>>,
           \A r \in Req : worker[r] = "done" => worker'[r] = "done"
    PROVE  Inv'
<1>1. IdsGivenOnce' /\ BatchAtomic' /\ StoredHasCreator' /\ PlanRowsStored'
  BY DEF Inv, IdsGivenOnce, BatchAtomic, StoredHasCreator, PlanRowsStored
<1>2. TakenStaysTaken' /\ DeliveringHasAuthor'
  BY DEF Inv, TakenStaysTaken, PutBack, DeliveringHasAuthor
<1>3. NewsSinceRead'
  BY DEF Inv, NewsSinceRead, Req
<1> QED
  BY <1>1, <1>2, <1>3 DEF Inv

LEMMA UpdateStatusesInv ==
    ASSUME Inv, TypeOK', NEW r \in PlanReq, UpdateStatuses(r)
    PROVE  Inv'
<1> USE DEF UpdateStatuses, Go, table
<1>1. Phases'
  BY RequestKinds DEF Inv, TypeOK, Phases, Req
<1>2. LocksExclusive'
  <2> SUFFICES ASSUME NEW p \in Req, NEW q \in Req, p # q
               PROVE  (Held(p) \cap Held(q) = {})'
    BY DEF LocksExclusive
  <2>1. CASE p = r
    BY <2>1 DEF Inv, TypeOK, Held, Unlocked, Req
  <2>2. CASE q = r
    BY <2>2 DEF Inv, TypeOK, Held, Unlocked, Req
  <2>3. CASE p # r /\ q # r
    BY <2>3 DEF Inv, TypeOK, LocksExclusive, Held
  <2> QED
    BY <2>1, <2>2, <2>3
<1>3. \A q \in Req : worker[q] = "done" => worker'[q] = "done"
  BY DEF Inv, TypeOK, Req
<1> QED
  BY <1>1, <1>2, <1>3, QuietStep

LEMMA CheckCommitInv ==
    ASSUME Inv, TypeOK', NEW r \in CreateReq \cup PlanReq, CheckCommit(r)
    PROVE  Inv'
<1> USE DEF CheckCommit, Go, table
<1>1. Phases'
  BY RequestKinds DEF Inv, TypeOK, Phases, Req
<1>2. \A q \in Req : Held(q)' = Held(q)
  BY DEF Inv, TypeOK, Held, Req
<1>3. LocksExclusive'
  BY <1>2 DEF Inv, LocksExclusive
<1>4. \A q \in Req : worker[q] = "done" => worker'[q] = "done"
  BY DEF Inv, TypeOK, Req
<1> QED
  BY <1>1, <1>3, <1>4, QuietStep

LEMMA FailInv ==
    ASSUME Inv, TypeOK', NEW r \in Req, Fail(r)
    PROVE  Inv'
<1> USE DEF Fail, Return, Go, table
<1>1. Phases'
  BY DEF Inv, TypeOK, Phases
<1>2. \A q \in Req : Held(q)' \subseteq Held(q)
  BY DEF Inv, TypeOK, Held
<1>3. LocksExclusive'
  BY <1>2 DEF Inv, LocksExclusive
<1>4. \A q \in Req : worker[q] = "done" => worker'[q] = "done"
  BY DEF Inv, TypeOK, Req
<1> QED
  BY <1>1, <1>3, <1>4, QuietStep

\* Cancel, the handlers' steps, a crash and the end leave the workers alone.
LEMMA HandlersInv ==
    ASSUME Inv, TypeOK',
           \/ \E r \in Req : Cancel(r) \/ HandlerStep(r)
           \/ Crash
           \/ UNCHANGED vars
    PROVE  Inv'
<1>1. ASSUME NEW r \in Req, Cancel(r) PROVE Phases'
  BY <1>1 DEF Cancel, table, Inv, TypeOK, Phases
<1>2. ASSUME NEW r \in Req, HandlerStep(r) PROVE Phases'
  BY <1>2 DEF HandlerStep, AnswerResult, AnswerTimeout, Answer, table, Inv,
              TypeOK, Phases
<1>3. CASE Crash
  <2>1. Phases'
    BY <1>3 DEF Crash, table, Inv, TypeOK, Phases
  <2> QED
    BY <1>3, <2>1, QuietStep DEF Crash, table, Inv, LocksExclusive, Held
<1>4. CASE UNCHANGED vars
  BY <1>4, QuietStep DEF vars, Inv, Phases, LocksExclusive, Held
<1>5. ASSUME NEW r \in Req, Cancel(r) \/ HandlerStep(r) PROVE Inv'
  BY <1>1, <1>2, <1>5, QuietStep
     DEF Cancel, HandlerStep, AnswerResult, AnswerTimeout, Answer, table, Inv,
         LocksExclusive, Held
<1> QED
  BY <1>3, <1>4, <1>5

-----------------------------------------------------------------------------
(* Steps that take orders in hand. *)

LEMMA ArriveInv ==
    ASSUME Inv, TypeOK', NEW r \in Req, Arrive(r)
    PROVE  Inv'
<1>1. PICK first \in {"read", "write"}, target \in SUBSET OrderId, new \in Status :
         /\ Start(r, first, target, new)
         /\ r \in CreateReq => first = "write" /\ target = {}
         /\ r \in PlanReq => target = {} /\ new = "delivering"
         /\ r \in PatchReq => first = "write"
  BY RequestKinds DEF Arrive, StartCreate, StartPlan, StartPatch, Status
<1> USE DEF Start, table
<1>2. worker[r] = "idle" /\ r \notin durable
  BY <1>1 DEF Inv, Phases
<1>3. Phases'
  BY <1>1, <1>2, Inputs DEF Inv, TypeOK, Phases, Status
<1>4. \A q \in Req : Held(q)' = Held(q)
  BY <1>1, <1>2 DEF Inv, TypeOK, Held
<1>5. LocksExclusive'
  BY <1>4 DEF Inv, LocksExclusive
<1>6. \A q \in Req : (q # r \/ q \in CreateReq) => rows'[q] = rows[q]
  <2>1. rows' = [rows EXCEPT ![r] = target] /\ DOMAIN rows = Req
    BY <1>1 DEF Inv, TypeOK
  <2>2. \A q \in Req : q # r => rows'[q] = rows[q]
    BY <2>1
  <2>3. r \in CreateReq => rows[r] = {} /\ target = {}
    BY <1>1, <1>2 DEF Inv, Phases
  <2>4. r \in CreateReq => rows'[r] = rows[r]
    BY <2>1, <2>3
  <2> QED
    BY <2>2, <2>4
<1>7. \A q \in Req : q # r => to'[q] = to[q]
  BY <1>1 DEF Inv, TypeOK
<1>8. IdsGivenOnce' /\ BatchAtomic'
  BY <1>1, <1>6 DEF Inv, IdsGivenOnce, BatchAtomic, Req
<1>9. StoredHasCreator'
  BY <1>1, <1>6 DEF Inv, StoredHasCreator, Req
<1>10. PlanRowsStored'
  BY <1>1, <1>6 DEF Inv, TypeOK, PlanRowsStored, Req
<1>11. TakenStaysTaken'
  BY <1>1, <1>2, <1>6, <1>7 DEF Inv, TakenStaysTaken, PutBack, Req
<1>12. DeliveringHasAuthor'
  BY <1>1, <1>2, <1>6, <1>7 DEF Inv, TypeOK, DeliveringHasAuthor
<1>13. NewsSinceRead'
  <2> SUFFICES ASSUME NEW q \in PlanReq
               PROVE  /\ before[q] \subseteq durable
                      /\ worker'[q] # "done" => \A o \in rows'[q] :
                           status[o] # "shipping" =>
                             \E u \in durable \ before[q] : o \in rows'[u]
    BY <1>1 DEF NewsSinceRead
  <2>1. \A u \in durable : u # r /\ u \in Req /\ rows'[u] = rows[u]
    BY <1>2, <1>6 DEF Inv, TypeOK
  <2>2. CASE q = r
    BY <1>1, <2>2 DEF Inv, TypeOK, NewsSinceRead
  <2>3. CASE q # r
    BY <1>1, <1>6, <2>1, <2>3 DEF Inv, TypeOK, NewsSinceRead, Req
  <2> QED
    BY <2>2, <2>3
<1> QED
  BY <1>3, <1>5, <1>8, <1>9, <1>10, <1>11, <1>12, <1>13 DEF Inv

\* GetShippingOrders and SelectOrders: the plan holds shipping orders, then
\* some of them; a transaction that has only read has locked nothing.
LEMMA PlanReadInv ==
    ASSUME Inv, TypeOK', NEW r \in PlanReq,
           GetShippingOrders(r) \/ SelectOrders(r)
    PROVE  Inv'
<1>1. /\ worker[r] \in {"read", "select"}
      /\ worker'[r] \in {"select", "commit", "write"}
      /\ worker'[r] = "commit" => rows'[r] = {}
      /\ \A o \in rows'[r] : status[o] # "none"
      /\ \A q \in Req \ {r} : worker'[q] = worker[q] /\ rows'[q] = rows[q]
      /\ UNCHANGED <<table, result, to, handler, cancelled>>
  <2>1. CASE GetShippingOrders(r)
    BY <2>1 DEF GetShippingOrders, Visible, Go, Inv, TypeOK, Req
  <2>2. CASE SelectOrders(r)
    <3>1. PICK cap \in Capacity : \E load \in Selectable(rows[r], cap) :
             /\ rows' = [rows EXCEPT ![r] = load]
             /\ Go(r, IF load = {} THEN "commit" ELSE "write")
      BY <2>2, Zenon DEF SelectOrders
    <3>2. PICK load \in Selectable(rows[r], cap) :
             /\ rows' = [rows EXCEPT ![r] = load]
             /\ Go(r, IF load = {} THEN "commit" ELSE "write")
      BY <3>1
    <3>3. load \subseteq rows[r]
      BY <3>2 DEF Selectable
    <3> QED
      BY <2>2, <3>2, <3>3 DEF SelectOrders, Go, Inv, TypeOK, PlanRowsStored, Req
  <2> QED
    BY <2>1, <2>2
<1>2. r \notin durable /\ r \notin CreateReq /\ r \notin PatchReq
  BY <1>1, RequestKinds DEF Inv, Phases, Req
<1>3. Phases'
  BY <1>1, <1>2 DEF Inv, Phases, table, Req
<1>4. \A q \in Req : Held(q)' = Held(q)
  BY <1>1 DEF Held
<1>5. LocksExclusive'
  BY <1>4 DEF Inv, LocksExclusive
<1>6. IdsGivenOnce' /\ BatchAtomic' /\ StoredHasCreator'
  BY <1>1, <1>2 DEF Inv, IdsGivenOnce, BatchAtomic, StoredHasCreator, table, Req
<1>7. PlanRowsStored' /\ TakenStaysTaken'
  BY <1>1, <1>2 DEF Inv, PlanRowsStored, TakenStaysTaken, PutBack, table, Req
<1>8. DeliveringHasAuthor'
  BY <1>1, <1>2 DEF Inv, TypeOK, DeliveringHasAuthor, table, Req
<1>9. NewsSinceRead'
  <2>1. \A q \in PlanReq \ {r} : /\ before'[q] = before[q]
                                /\ worker'[q] = worker[q]
                                /\ rows'[q] = rows[q]
    BY <1>1 DEF GetShippingOrders, SelectOrders, Inv, TypeOK, Req
  <2>2. \A u \in durable : rows'[u] = rows[u]
    BY <1>1, <1>2 DEF Inv, TypeOK
  <2>3. CASE GetShippingOrders(r)
    <3>1. before'[r] = durable /\ \A o \in rows'[r] : status[o] = "shipping"
      BY <2>3 DEF GetShippingOrders, Visible, Inv, TypeOK, Req
    <3> QED
      BY <1>1, <2>1, <2>2, <3>1 DEF Inv, NewsSinceRead, table
  <2>4. CASE SelectOrders(r)
    <3>1. rows'[r] \subseteq rows[r] /\ before' = before
      <4>1. PICK cap \in Capacity : \E load \in Selectable(rows[r], cap) :
               rows' = [rows EXCEPT ![r] = load]
        BY <2>4, Zenon DEF SelectOrders
      <4>2. PICK load \in Selectable(rows[r], cap) : rows' = [rows EXCEPT ![r] = load]
        BY <4>1
      <4>3. load \subseteq rows[r]
        BY <4>2 DEF Selectable
      <4> QED
        BY <2>4, <4>2, <4>3 DEF SelectOrders, Inv, TypeOK, Req
    <3> QED
      BY <1>1, <2>1, <2>2, <3>1 DEF Inv, NewsSinceRead, table
  <2> QED
    BY <2>3, <2>4
<1> QED
  BY <1>3, <1>5, <1>6, <1>7, <1>8, <1>9 DEF Inv

\* The INSERT takes ids nobody holds: they are not below the counter.
LEMMA InsertOrdersInv ==
    ASSUME Inv, TypeOK', NEW r \in CreateReq, InsertOrders(r)
    PROVE  Inv'
<1>1. /\ worker[r] = "write"
      /\ worker' = [worker EXCEPT ![r] = "commit"]
      /\ UNCHANGED <<status, durable, result, to, handler, cancelled, before>>
  BY DEF InsertOrders, Go
<1>2. r \notin durable /\ rows[r] = {} /\ r \notin PlanReq /\ r \notin PatchReq
  BY <1>1, RequestKinds DEF Inv, Phases, Req
<1>3. PICK ids \in SUBSET OrderId :
         /\ rows' = [rows EXCEPT ![r] = ids]
         /\ nextId' >= nextId
         /\ \A o \in ids : o >= nextId /\ o < nextId'
  <2>1. CASE UNCHANGED <<product, nextId, rows>>
    <3>1. rows' = [rows EXCEPT ![r] = {}]
      BY <1>2, <2>1 DEF Inv, TypeOK
    <3>2. nextId' >= nextId
      BY <2>1 DEF Inv, TypeOK
    <3> WITNESS {} \in SUBSET OrderId
    <3> QED
      BY <3>1, <3>2
  <2>2. ASSUME NEW cart \in Cart, CreateBatch(r, ItemsToProcess(cart))
        PROVE  \E ids \in SUBSET OrderId :
                 /\ rows' = [rows EXCEPT ![r] = ids]
                 /\ nextId' >= nextId
                 /\ \A o \in ids : o >= nextId /\ o < nextId'
    <3>1. PICK last \in nextId .. MaxOrder :
             /\ rows' = [rows EXCEPT ![r] = nextId .. last]
             /\ nextId' = last + 1
      BY <2>2, Zenon DEF CreateBatch, NextId
    <3>2. nextId .. last \in SUBSET OrderId
      BY <3>1, Inputs DEF Inv, TypeOK, OrderId
    <3>3. nextId' >= nextId /\ \A o \in nextId .. last : o >= nextId /\ o < nextId'
      BY <3>1, Inputs DEF Inv, TypeOK
    <3> QED
      BY <3>1, <3>2, <3>3
  <2> QED
    BY <2>1, <2>2 DEF InsertOrders
<1>4. \A q \in Req \ {r} : rows'[q] = rows[q]
  BY <1>3 DEF Inv, TypeOK
<1>5. \A o \in rows'[r] : o >= nextId /\ o < nextId'
  BY <1>3 DEF Inv, TypeOK, Req
<1>6. Phases'
  BY <1>1, <1>2, <1>4 DEF Inv, TypeOK, Phases, Req
<1>7. IdsGivenOnce'
  <2>1. \A c \in CreateReq : \A o \in rows'[c] : o < nextId'
    BY <1>3, <1>4, <1>5, Inputs DEF Inv, TypeOK, IdsGivenOnce, OrderId, Req
  <2>2. \A c \in CreateReq : c # r => rows'[c] \cap rows'[r] = {}
    BY <1>4, <1>5, Inputs DEF Inv, TypeOK, IdsGivenOnce, OrderId, Req
  <2> QED
    BY <1>4, <2>1, <2>2 DEF Inv, IdsGivenOnce, Req
<1>8. \A o \in OrderId : o >= nextId => status[o] = "none"
  BY Inputs DEF Inv, TypeOK, StoredHasCreator, IdsGivenOnce, OrderId
<1>9. BatchAtomic'
  BY <1>1, <1>2, <1>3, <1>4, <1>5, <1>8 DEF Inv, TypeOK, BatchAtomic, Req
<1>10. StoredHasCreator' /\ PlanRowsStored'
  BY <1>1, <1>2, <1>4 DEF Inv, StoredHasCreator, PlanRowsStored, Req
<1>11. TakenStaysTaken' /\ DeliveringHasAuthor'
  BY <1>1, <1>2, <1>4
     DEF Inv, TypeOK, TakenStaysTaken, PutBack, DeliveringHasAuthor, Req
<1>12. LocksExclusive'
  <2>1. \A q \in Req \ {r} : Held(q)' = Held(q)
    BY <1>1, <1>4 DEF Inv, TypeOK, Held
  <2>2. \A q \in Req \ {r} : \A o \in Held(q) : o < nextId
    <3> SUFFICES ASSUME NEW q \in Req \ {r}, NEW o \in Held(q) PROVE o < nextId
      OBVIOUS
    <3>1. o \in rows[q] /\ q \notin PatchReq
      BY DEF Held, Inv, Phases
    <3>2. CASE q \in CreateReq
      BY <3>1, <3>2 DEF Inv, IdsGivenOnce
    <3>3. CASE q \in PlanReq
      <4>1. o \in OrderId /\ status[o] # "none"
        BY <3>1, <3>3 DEF Inv, TypeOK, PlanRowsStored
      <4> QED
        BY <1>8, <4>1, Inputs DEF Inv, TypeOK, OrderId
    <3> QED
      BY <3>1, <3>2, <3>3 DEF Req
  <2>3. \A o \in Held(r)' : o >= nextId
    BY <1>5 DEF Held
  <2>4. \A q \in Req \ {r} : Held(q)' \cap Held(r)' = {}
    <3> SUFFICES ASSUME NEW q \in Req \ {r}, NEW o \in Held(q), o \in Held(r)'
                 PROVE  FALSE
      BY <2>1
    <3>1. o < nextId /\ o >= nextId
      BY <2>2, <2>3
    <3>2. o \in OrderId
      BY DEF Held, Inv, TypeOK
    <3> QED
      BY <3>1, <3>2, Inputs DEF Inv, TypeOK, OrderId
  <2> QED
    BY <2>1, <2>4 DEF Inv, LocksExclusive
<1>13. NewsSinceRead'
  BY <1>1, <1>2, <1>4 DEF Inv, TypeOK, NewsSinceRead, Req
<1> QED
  BY <1>6, <1>7, <1>9, <1>10, <1>11, <1>12, <1>13 DEF Inv

-----------------------------------------------------------------------------
(* Steps that write the table: COMMIT and the autocommitted UPDATE. *)

LEMMA WriteInv ==
    ASSUME Inv, TypeOK', NEW r \in Req, NEW err \in {"nil", "err"},
           worker[r] \notin {"idle", "done"},
           status' = Written(r), durable' = durable \cup {r}, Return(r, err),
           UNCHANGED <<product, nextId, rows, to, handler, cancelled, before>>
    PROVE  Inv'
<1> USE DEF Return, Go
<1>1. r \notin durable /\ to[r] # "none"
  BY DEF Inv, Phases
<1>2. Phases'
  BY DEF Inv, TypeOK, Phases
<1>3. \A o \in OrderId : /\ o \notin rows[r] => status'[o] = status[o]
                         /\ o \in rows[r] => status'[o] \in {status[o], to[r]}
  BY DEF Written
<1>4. \A o \in OrderId : status[o] # "none" => status'[o] # "none"
  BY <1>1, <1>3
<1>5. \A o \in rows[r] : r \in CreateReq \/ status[o] # "none" => status'[o] = to[r]
  BY DEF Written, Inv, TypeOK
<1>6. ASSUME NEW o \in OrderId, status[o] = "none", status'[o] # "none"
      PROVE  r \in CreateReq /\ o \in rows[r]
  BY <1>6 DEF Written
<1>7. IdsGivenOnce' /\ PlanRowsStored'
  BY <1>4 DEF Inv, TypeOK, IdsGivenOnce, PlanRowsStored, Req
<1>8. BatchAtomic'
  <2> SUFFICES ASSUME NEW c \in CreateReq, NEW o \in rows[c]
               PROVE  status'[o] # "none" <=> c \in durable'
    BY DEF BatchAtomic
  <2>1. o \in OrderId
    BY DEF Inv, TypeOK, Req
  <2>2. CASE c = r
    BY <1>1, <1>5, <2>2
  <2>3. CASE c # r
    <3>1. status'[o] # "none" <=> status[o] # "none"
      BY <1>4, <1>6, <2>1, <2>3 DEF Inv, IdsGivenOnce
    <3> QED
      BY <2>3, <3>1 DEF Inv, BatchAtomic
  <2> QED
    BY <2>2, <2>3
<1>9. StoredHasCreator'
  BY <1>6 DEF Inv, StoredHasCreator
<1>10. TakenStaysTaken'
  <2> SUFFICES ASSUME NEW q \in PlanReq \cap durable', NEW o \in rows[q],
                      status'[o] = "shipping"
               PROVE  PutBack(o)'
    BY DEF TakenStaysTaken
  <2>1. o \in OrderId /\ status[o] # "none"
    BY DEF Inv, TypeOK, PlanRowsStored, Req
  <2>2. CASE o \in rows[r] /\ r \in PatchReq
    BY <1>5, <2>1, <2>2 DEF PutBack
  <2>3. CASE o \in rows[r] /\ r \in PlanReq
    BY <1>5, <2>1, <2>3 DEF Inv, Phases
  <2>4. CASE o \in rows[r] /\ r \in CreateReq
    BY <1>1, <2>1, <2>4 DEF Inv, BatchAtomic
  <2>5. CASE o \notin rows[r]
    BY <1>3, <2>1, <2>5 DEF Inv, TakenStaysTaken, PutBack
  <2> QED
    BY <2>2, <2>3, <2>4, <2>5 DEF Req
<1>11. DeliveringHasAuthor'
  BY <1>3 DEF Inv, DeliveringHasAuthor
<1>12. \A q \in Req : Held(q)' \subseteq Held(q)
  BY DEF Held, Inv, TypeOK
<1>13. LocksExclusive'
  BY <1>12 DEF Inv, LocksExclusive
<1>14. NewsSinceRead'
  <2> SUFFICES ASSUME NEW q \in PlanReq
               PROVE  /\ before[q] \subseteq durable'
                      /\ worker'[q] # "done" => \A o \in rows[q] :
                           status'[o] # "shipping" =>
                             \E u \in durable' \ before[q] : o \in rows[u]
    BY DEF NewsSinceRead
  <2>1. before[q] \subseteq durable /\ r \notin before[q]
    BY <1>1 DEF Inv, NewsSinceRead
  <2>2. worker'[q] # "done" => worker[q] # "done"
    BY DEF Inv, TypeOK, Req
  <2>3. ASSUME worker'[q] # "done", NEW o \in rows[q], status'[o] # "shipping"
        PROVE  \E u \in durable' \ before[q] : o \in rows[u]
    <3>1. o \in OrderId
      BY DEF Inv, TypeOK, Req
    <3>2. CASE o \in rows[r]
      BY <2>1, <3>2
    <3>3. CASE o \notin rows[r]
      BY <1>3, <2>2, <2>3, <3>1, <3>3 DEF Inv, NewsSinceRead
    <3> QED
      BY <3>2, <3>3
  <2> QED
    BY <2>1, <2>3
<1> QED
  BY <1>2, <1>7, <1>8, <1>9, <1>10, <1>11, <1>13, <1>14 DEF Inv

LEMMA NextInv ==
    ASSUME Inv, [Next]_vars
    PROVE  Inv'
<1>0. TypeOK'
  BY TypeStep DEF Inv
<1>1. ASSUME NEW r \in Req, NEW err \in {"nil", "err"},
             Commit(r, err) \/ UpdateOrderStatus(r, err)
      PROVE  Inv'
  BY <1>0, <1>1, WriteInv DEF Commit, UpdateOrderStatus
<1>2. ASSUME NEW r \in Req, WorkerStep(r) PROVE Inv'
  BY <1>0, <1>1, <1>2, InsertOrdersInv, PlanReadInv, UpdateStatusesInv,
     CheckCommitInv DEF WorkerStep
<1>3. ASSUME NEW r \in Req, ReplyLost(r) PROVE Inv'
  BY <1>1, <1>3 DEF ReplyLost
<1>4. ASSUME NEW r \in Req, Arrive(r) \/ Fail(r) PROVE Inv'
  BY <1>0, <1>4, ArriveInv, FailInv
<1>5. ASSUME NEW r \in Req, Cancel(r) \/ HandlerStep(r) PROVE Inv'
  BY <1>0, <1>5, HandlersInv
<1>6. ASSUME Crash \/ Finished \/ UNCHANGED vars PROVE Inv'
  BY <1>0, <1>6, HandlersInv DEF Finished
<1> QED
  BY <1>2, <1>3, <1>4, <1>5, <1>6 DEF Next

\* The strengthened invariant holds for any requests, orders and item lists.
THEOREM Invariance == Spec => []Inv
  BY InitInv, NextInv, PTL DEF Spec

-----------------------------------------------------------------------------
(* The safety properties. *)

\* Batches are stored whole or not at all.
THEOREM BatchesAreAtomic == Spec => []BatchAtomic
<1>1. Inv => BatchAtomic
  BY DEF Inv
<1> QED
  BY <1>1, Invariance, PTL

\* A success answer is never given without its effect, and no id twice.
THEOREM AcksHold == Spec => []AcksAreTrue
<1>1. Inv => AcksAreTrue
  BY DEF Inv, AcksAreTrue, Phases, IdsGivenOnce
<1> QED
  BY <1>1, Invariance, PTL

\* Plans hold orders of committed create requests only.
THEOREM NoPhantomOrders == Spec => []PlansHoldRealOrders
<1>1. Inv => PlansHoldRealOrders
  BY DEF Inv, TypeOK, PlansHoldRealOrders, PlanRowsStored, StoredHasCreator, Req
<1> QED
  BY <1>1, Invariance, PTL

\* A taken order is not offered again unless a PATCH puts it back.
THEOREM TakenOrdersStayTaken == Spec => []TakenStaysTaken
<1>1. Inv => TakenStaysTaken
  BY DEF Inv
<1> QED
  BY <1>1, Invariance, PTL

\* Only a cut request can leave an order 'delivering' without a robot that knows.
THEOREM StrandingNeedsACut == Spec => []StrandedOnlyByCut
<1>1. ASSUME Inv, NEW r \in durable
      PROVE  \/ handler[r] \in {"waiting", "ok"}
             \/ r \in cancelled
             \/ result[r] = "err"
  <2>1. handler[r] \in HandlerState \ {"idle"}
    BY <1>1 DEF Inv, TypeOK, Phases
  <2> QED
    BY <1>1, <2>1 DEF Inv, TypeOK, Phases, HandlerState
<1>2. Inv => StrandedOnlyByCut
  BY <1>1 DEF Inv, StrandedOnlyByCut, DeliveringHasAuthor
<1> QED
  BY <1>2, Invariance, PTL

\* Plans that follow each other are disjoint.
THEOREM SerialPlansDisjoint == Spec => ReadsNothingTaken
<1>1. ASSUME Inv, [Next]_vars, NEW r \in PlanReq,
             worker[r] = "read", worker'[r] = "select"
      PROVE  \A o \in rows'[r] : o \in OrderId /\ status[o] = "shipping"
  <2>1. GetShippingOrders(r) => rows'[r] = Visible
    BY <1>1 DEF GetShippingOrders, Inv, TypeOK, Req
  <2>2. GetShippingOrders(r)
    BY <1>1 DEF Next, vars, Arrive, StartCreate, StartPlan, StartPatch, Start,
       WorkerStep, ReplyLost, InsertOrders, GetShippingOrders, SelectOrders,
       UpdateStatuses, CheckCommit, Commit, UpdateOrderStatus, Fail, Return, Go,
       Cancel, HandlerStep, AnswerResult, AnswerTimeout, Answer, Crash, Finished,
       Inv, TypeOK, Req
  <2> QED
    BY <2>1, <2>2 DEF Visible
<1>2. Inv /\ [Next]_vars =>
        [\A r \in PlanReq :
           worker[r] = "read" /\ worker'[r] = "select" =>
             \A q \in PlanReq \cap durable : \A o \in rows'[r] \cap rows[q] :
               PutBack(o)]_vars
  BY <1>1 DEF Inv, TakenStaysTaken
<1> QED
  BY <1>2, Invariance, PTL DEF Spec, ReadsNothingTaken

\* A plan overwrites only what was committed after its SELECT.
THEOREM OverwritesNeedOverlap == Spec => OverwritesOverlapOnly
<1>1. ASSUME Inv, [Next]_vars, NEW r \in PlanReq, r \in durable' \ durable
      PROVE  worker[r] = "committing"
  BY <1>1, RequestKinds DEF Next, vars, table, Arrive, StartCreate, StartPlan,
     StartPatch, Start, WorkerStep, ReplyLost, InsertOrders, GetShippingOrders,
     SelectOrders, UpdateStatuses, CheckCommit, Commit, UpdateOrderStatus, Fail,
     Cancel, HandlerStep, AnswerResult, AnswerTimeout, Answer, Crash, Finished
<1>2. Inv /\ [Next]_vars =>
        [\A r \in PlanReq \cap (durable' \ durable) : \A o \in rows[r] :
           status[o] # "shipping" =>
             \E q \in durable \ before[r] : o \in rows[q]]_vars
  BY <1>1 DEF Inv, NewsSinceRead
<1> QED
  BY <1>2, Invariance, PTL DEF Spec, OverwritesOverlapOnly
=============================================================================
