--------------------------- MODULE OrderBookProofs --------------------------
(* OrderStore implements OrderBook: every step of a transaction, a handler  *)
(* or the server is a step of the book or leaves it alone.                  *)
EXTENDS OrderStoreProofs

\* CreateOrders runs inside its handler: when that answers, the worker is done.
\* It writes 'shipping' and nothing else; a PATCH writes one order.
BookInv ==
    /\ \A c \in CreateReq :
         /\ handler[c] \in {"ok", "err"} => worker[c] = "done"
         /\ worker[c] # "idle" => to[c] = "shipping"
    /\ \A u \in PatchReq : worker[u] # "idle" =>
         \E o \in OrderId : rows[u] = {o} /\ to[u] \in PatchStatus

LEMMA BookInvariance == Spec => []BookInv
<1>1. Init => BookInv
  BY DEF Init, BookInv, Req
<1>2. ASSUME Inv, BookInv, [Next]_vars PROVE BookInv'
  <2> USE RequestKinds DEF BookInv
  <2>0. /\ handler \in [Req -> HandlerState] /\ worker \in [Req -> WorkerState]
        /\ to \in [Req -> Status \cup {"none"}] /\ rows \in [Req -> SUBSET OrderId]
        /\ CreateReq \subseteq Req /\ PlanReq \subseteq Req /\ PatchReq \subseteq Req
        /\ \A r \in Req : worker[r] = "idle" <=> handler[r] = "idle"
    BY <1>2 DEF Inv, TypeOK, Phases, Req
  <2>1. ASSUME NEW r \in Req, Arrive(r) PROVE BookInv'
    BY <1>2, <2>0, <2>1 DEF Arrive, StartCreate, StartPlan, StartPatch, Start
  <2>2. ASSUME NEW r \in Req, WorkerStep(r) \/ ReplyLost(r) \/ Fail(r)
        PROVE  BookInv'
    <3>1. /\ UNCHANGED <<handler, to>>
          /\ r \in PatchReq => rows' = rows
      BY <2>2 DEF WorkerStep, ReplyLost, Fail, InsertOrders, GetShippingOrders,
           SelectOrders, UpdateStatuses, CheckCommit, Commit, UpdateOrderStatus
    <3>2. /\ worker[r] \notin {"idle", "done"}
          /\ \A q \in Req \ {r} : worker'[q] = worker[q] /\ rows'[q] = rows[q]
      BY <2>0, <2>2 DEF WorkerStep, ReplyLost, Fail, InsertOrders, CreateBatch,
           GetShippingOrders, SelectOrders, UpdateStatuses, CheckCommit, Commit,
           UpdateOrderStatus, Return, Go
    <3> QED
      BY <1>2, <2>0, <3>1, <3>2
  <2>3. ASSUME NEW r \in Req, Cancel(r) \/ HandlerStep(r)
        PROVE  BookInv'
    BY <1>2, <2>0, <2>3
       DEF Cancel, HandlerStep, AnswerResult, AnswerTimeout, Answer
  <2>4. CASE Crash \/ Finished \/ UNCHANGED vars
    BY <1>2, <2>0, <2>4 DEF Crash, Finished, vars
  <2> QED
    BY <1>2, <2>1, <2>2, <2>3, <2>4 DEF Next
<1> QED
  BY <1>1, <1>2, Invariance, PTL DEF Spec

-----------------------------------------------------------------------------
(* The steps, one kind at a time. *)

LEMMA BookInit == Init => Book!Init
  BY DEF Init, Book!Init, Book!Req, Req, About

\* Work in progress is not in the book.
LEMMA HiddenStep ==
    ASSUME Inv, UNCHANGED <<status, durable, handler>>,
           \A q \in durable : rows'[q] = rows[q]
    PROVE  UNCHANGED Book!bookVars
<1>1. About' = About
  BY DEF About
<1> QED
  BY <1>1 DEF Book!bookVars

LEMMA ArriveAsks ==
    ASSUME Inv, NEW r \in Req, Arrive(r)
    PROVE  Book!Ask(r)
<1>1. /\ handler[r] = "idle"
      /\ handler' = [handler EXCEPT ![r] = "waiting"]
      /\ UNCHANGED <<status, durable>>
      /\ \A q \in Req \ {r} : rows'[q] = rows[q]
  BY DEF Arrive, StartCreate, StartPlan, StartPatch, Start, table, Inv, TypeOK
<1>2. r \notin durable
  BY <1>1 DEF Inv, Phases
<1>3. About' = About
  BY <1>1, <1>2 DEF About
<1> QED
  BY <1>1, <1>3 DEF Book!Ask

LEMMA WorkIsHidden ==
    ASSUME Inv, NEW r \in Req,
           \/ InsertOrders(r) \/ GetShippingOrders(r) \/ SelectOrders(r)
           \/ UpdateStatuses(r) \/ CheckCommit(r) \/ Fail(r) \/ Cancel(r)
    PROVE  UNCHANGED Book!bookVars
<1>1. UNCHANGED <<status, durable, handler>>
  BY DEF InsertOrders, GetShippingOrders, SelectOrders, UpdateStatuses,
         CheckCommit, Fail, Cancel, table
<1>2. rows' = rows \/ r \notin durable
  BY DEF InsertOrders, GetShippingOrders, SelectOrders, UpdateStatuses,
         CheckCommit, Fail, Cancel, Inv, Phases
<1>3. \A q \in Req \ {r} : rows'[q] = rows[q]
  BY DEF InsertOrders, CreateBatch, GetShippingOrders, SelectOrders,
         UpdateStatuses, CheckCommit, Fail, Cancel, Inv, TypeOK
<1> QED
  BY <1>1, <1>2, <1>3, HiddenStep DEF Inv, TypeOK

\* A write that takes effect: the orders in hand get the status in hand.
LEMMA WriteIsEffect ==
    ASSUME Inv, NEW r \in Req, worker[r] # "done", NEW s,
           status' = Written(r), durable' = durable \cup {r},
           UNCHANGED <<rows, handler>>,
           \A o \in rows[r] : Written(r)[o] = s
    PROVE  Book!Effect(r, rows[r], s)
<1>1. r \notin durable
  BY DEF Inv, Phases
<1>2. rows[r] \subseteq OrderId
  BY DEF Inv, TypeOK
<1>3. status' = [o \in OrderId |-> IF o \in rows[r] THEN s ELSE status[o]]
  BY <1>2 DEF Written
<1>4. About' = [About EXCEPT ![r] = rows[r]]
  BY <1>1 DEF About
<1> QED
  BY <1>1, <1>3, <1>4 DEF Book!Effect

LEMMA CommitIsEffect ==
    ASSUME Inv, BookInv, NEW r \in CreateReq \cup PlanReq,
           NEW err, Commit(r, err)
    PROVE  \/ r \in CreateReq /\ Book!Place(r)
           \/ r \in PlanReq /\ Book!Take(r)
<1>0. r \in Req
  BY DEF Req
<1>1. /\ worker[r] = "committing"
      /\ status' = Written(r) /\ durable' = durable \cup {r}
      /\ UNCHANGED <<rows, handler>>
  BY DEF Commit
<1>2. /\ r \notin durable /\ handler[r] # "idle" /\ rows[r] \subseteq OrderId
      /\ handler[r] \in HandlerState
  BY <1>0, <1>1 DEF Inv, TypeOK, Phases
<1>3. CASE r \in CreateReq
  <2>1. \A o \in rows[r] : status[o] = "none" /\ Written(r)[o] = to[r]
    BY <1>2, <1>3 DEF Inv, BatchAtomic, Written
  <2>2. to[r] = "shipping" /\ handler[r] \in {"waiting", "lost"}
    BY <1>1, <1>2, <1>3 DEF BookInv, HandlerState
  <2>3. Book!Effect(r, rows[r], "shipping")
    BY <1>0, <1>1, <2>1, <2>2, WriteIsEffect
  <2> QED
    BY <1>2, <1>3, <2>1, <2>2, <2>3 DEF Book!Place
<1>4. CASE r \in PlanReq
  <2>1. \A o \in rows[r] : status[o] # "none" /\ Written(r)[o] = "delivering"
    BY <1>0, <1>1, <1>2, <1>4 DEF Inv, PlanRowsStored, Phases, Written
  <2>2. Book!Effect(r, rows[r], "delivering")
    BY <1>0, <1>1, <2>1, WriteIsEffect
  <2> QED
    BY <1>2, <1>4, <2>1, <2>2 DEF Book!Take
<1> QED
  BY <1>3, <1>4

LEMMA PatchIsMark ==
    ASSUME Inv, BookInv, NEW r \in PatchReq, NEW err, UpdateOrderStatus(r, err)
    PROVE  Book!Mark(r)
<1>0. r \in Req
  BY DEF Req
<1>1. /\ worker[r] = "write"
      /\ status' = Written(r) /\ durable' = durable \cup {r}
      /\ UNCHANGED <<rows, handler>>
  BY DEF UpdateOrderStatus
<1>2. PICK o \in OrderId : rows[r] = {o} /\ to[r] \in PatchStatus
  BY <1>1 DEF BookInv
<1>3. Written(r)[o] = IF status[o] = "none" THEN "none" ELSE to[r]
  BY <1>2, RequestKinds DEF Written
<1>4. Book!Effect(r, {o}, Written(r)[o])
  <2>1. worker[r] # "done" /\ \A p \in rows[r] : Written(r)[p] = Written(r)[o]
    BY <1>1, <1>2
  <2> QED
    BY <1>0, <1>1, <1>2, <2>1, WriteIsEffect
<1>5. handler[r] # "idle"
  BY <1>0, <1>1 DEF Inv, Phases
<1> QED
  BY <1>2, <1>3, <1>4, <1>5 DEF Book!Mark

LEMMA AnswerIsTell ==
    ASSUME Inv, NEW r \in Req, HandlerStep(r)
    PROVE  Book!Tell(r)
<1>. DEFINE a == handler'[r]
<1>1. handler[r] = "waiting" /\ UNCHANGED <<status, durable, rows>>
  BY DEF HandlerStep, AnswerResult, AnswerTimeout, Answer, table
<1>2. /\ a \in {"ok", "err"}
      /\ handler' = [handler EXCEPT ![r] = a]
      /\ a = "ok" => result[r] = "nil"
  BY DEF HandlerStep, AnswerResult, AnswerTimeout, Answer, Inv, TypeOK
<1>3. a = "ok" => r \in durable
  BY <1>2 DEF Inv, Phases
<1>4. About' = About
  BY <1>1 DEF About
<1>. HIDE DEF a
<1> QED
  BY <1>1, <1>2, <1>3, <1>4 DEF Book!Tell

LEMMA CrashIsStop ==
    ASSUME Crash
    PROVE  Book!Stop
<1>1. About' = About
  BY DEF Crash, table, About
<1>2. UNCHANGED <<status, durable>>
  BY DEF Crash, table
<1> QED
  BY <1>1, <1>2 DEF Crash, table, Book!Stop, Book!Req, Req

LEMMA StepIsBookStep ==
    ASSUME Inv, BookInv, [Next]_vars
    PROVE  [Book!Next]_(Book!bookVars)
<1>1. ASSUME NEW r \in Req, Arrive(r) PROVE Book!Next
  BY <1>1, ArriveAsks DEF Book!Next, Book!Req, Req
<1>2. ASSUME NEW r \in CreateReq \cup PlanReq, NEW err, Commit(r, err)
      PROVE  Book!Next
  BY <1>2, CommitIsEffect DEF Book!Next
<1>3. ASSUME NEW r \in PatchReq, NEW err, UpdateOrderStatus(r, err)
      PROVE  Book!Next
  BY <1>3, PatchIsMark DEF Book!Next
<1>4. ASSUME NEW r \in Req, WorkerStep(r) \/ ReplyLost(r)
      PROVE  [Book!Next]_(Book!bookVars)
  BY <1>2, <1>3, <1>4, WorkIsHidden DEF WorkerStep, ReplyLost
<1>5. ASSUME NEW r \in Req, Fail(r) \/ Cancel(r)
      PROVE  UNCHANGED Book!bookVars
  BY <1>5, WorkIsHidden
<1>6. ASSUME NEW r \in Req, HandlerStep(r) PROVE Book!Next
  BY <1>6, AnswerIsTell DEF Book!Next, Book!Req, Req
<1>7. CASE Crash
  BY <1>7, CrashIsStop DEF Book!Next
<1>8. CASE Finished \/ UNCHANGED vars
  BY <1>8, HiddenStep DEF Finished, vars
<1> QED
  BY <1>1, <1>4, <1>5, <1>6, <1>7, <1>8 DEF Next

\* The transactions, goroutines and handlers of the server implement the book:
\* every request takes effect at one moment, once, and answers are true.
THEOREM OrdersKeepTheBook == Spec => KeepsTheBook
<1> QED
  BY BookInit, StepIsBookStep, Invariance, BookInvariance, PTL
     DEF Spec, KeepsTheBook, Book!Spec
=============================================================================
