----------------------------- MODULE OrderStore -----------------------------
(***************************************************************************)
(* The orders table of the StoreLink backend under concurrent requests.    *)
(*                                                                         *)
(* Three kinds of request write the table:                                 *)
(*   CreateOrders         one transaction: INSERT a batch of orders;       *)
(*   GenerateDeliveryPlan one transaction: SELECT the shipping orders,     *)
(*                        choose a load, UPDATE it to 'delivering';        *)
(*   UpdateOrderStatus    one autocommitted UPDATE of one order.           *)
(*                                                                         *)
(* A request is two threads.  "worker" runs the service function against   *)
(* the database; "handler" waits for it and answers.  CreateOrders runs    *)
(* inside its handler; the two robot requests run in a goroutine that      *)
(* utils.WithTimeout starts and may abandon once the context is done.      *)
(*                                                                         *)
(* MySQL (InnoDB, REPEATABLE READ) is external: a plain SELECT sees        *)
(* committed rows only and locks nothing, UPDATE and INSERT lock the rows  *)
(* they write until the transaction ends, AUTO_INCREMENT never goes back.  *)
(*                                                                         *)
(* Definitions named Bad... are no part of the specification: each is the  *)
(* definition that follows it with a plausible bug, put in its place to    *)
(* see that a property notices.                                            *)
(***************************************************************************)
EXTENDS Integers, FiniteSets, Sequences, FiniteSetsExt

CONSTANTS
    CreateReq,      \* POST /api/v1/product/post requests
    PlanReq,        \* GET  /api/robot/delivery-plan requests
    PatchReq,       \* PATCH /api/robot/orders/status requests
    Product,        \* rows of the products table
    NoProduct,      \* product of an order id that was never inserted
    Weight,         \* products.weight
    Cart,           \* item lists a client may post
    Capacity,       \* capacities a robot may ask with
    PatchStatus,    \* statuses a robot may write
    MaxOrder        \* bound: the largest order id the model inserts

Req     == CreateReq \cup PlanReq \cup PatchReq
OrderId == 1 .. MaxOrder
Status  == {"shipping", "delivering"} \cup PatchStatus
Item    == [product : Product, quantity : Int]

ASSUME RequestKinds ==
    /\ CreateReq \cap PlanReq = {}
    /\ CreateReq \cap PatchReq = {}
    /\ PlanReq \cap PatchReq = {}
ASSUME Inputs ==
    /\ NoProduct \notin Product
    /\ Weight \in [Product -> Nat]          \* INT UNSIGNED in init.sql
    /\ Cart \subseteq Seq(Item)
    /\ Capacity \subseteq Int
    /\ "none" \notin PatchStatus            \* "none": no such row
    /\ MaxOrder \in Nat

VARIABLES
    status,     \* committed shipped_status of each order id, "none": no row
    product,    \* product_id of each order id
    nextId,     \* AUTO_INCREMENT counter of the table
    worker,     \* what the service function does next
    result,     \* the error value it left for the handler
    rows,       \* orders it has in hand: read, then selected; inserted; patched
    to,         \* status it writes to them
    handler,    \* the HTTP side of the request
    cancelled,  \* requests whose context is done
    durable,    \* requests whose transaction the database committed
    before      \* history: what was durable when a plan read the table

table == <<status, product, nextId, durable>>
vars  == <<status, product, nextId, worker, result, rows, to, handler,
           cancelled, durable, before>>

-----------------------------------------------------------------------------
(* Type invariant. *)

WorkerState  == {"idle", "read", "select", "write", "commit", "committing",
                 "done"}
HandlerState == {"idle", "waiting", "ok", "err", "lost"}

TypeOK ==
    /\ status \in [OrderId -> Status \cup {"none"}]
    /\ product \in [OrderId -> Product \cup {NoProduct}]
    /\ nextId \in 1 .. MaxOrder + 1
    /\ worker \in [Req -> WorkerState]
    /\ result \in [Req -> {"none", "nil", "err"}]
    /\ rows \in [Req -> SUBSET OrderId]
    /\ to \in [Req -> Status \cup {"none"}]
    /\ handler \in [Req -> HandlerState]
    /\ cancelled \subseteq Req
    /\ durable \subseteq Req
    /\ before \in [PlanReq -> SUBSET Req]

-----------------------------------------------------------------------------
(* The database and the pure parts of the services. *)

\* Rows an open transaction has written: InnoDB keeps them locked, and no
\* other transaction sees the new values, until it commits or rolls back.
Held(r) == IF worker[r] \in {"commit", "committing"} THEN rows[r] ELSE {}

\* An UPDATE of the orders S waits while another transaction holds one of them.
Unlocked(r, S) == \A q \in Req \ {r} : Held(q) \cap S = {}

BadVisible == {o \in OrderId : \/ status[o] = "shipping"
                                \/ \E c \in CreateReq : o \in Held(c)}

\* Bug: no condition on the status.
BadVisibleAll == {o \in OrderId : status[o] # "none"}

\* The orders the WHERE clause of GetShippingOrders finds: committed ones only.
Visible == {o \in OrderId : status[o] = "shipping"}

\* The counter after ids up to "last" were given out; a rollback keeps it.
NextId(last) == last + 1

\* What the transaction of r does to the committed table, all at once.
Written(r) == [o \in OrderId |->
                 IF o \in rows[r] /\ (r \in CreateReq \/ status[o] # "none")
                 THEN to[r] ELSE status[o]]

\* itemsToProcess: quantity by product; items without a positive quantity are
\* dropped and a later item for the same product replaces an earlier one.
ItemsToProcess(cart) ==
    LET kept == {i \in DOMAIN cart : cart[i].quantity > 0}
        Of(p) == {i \in kept : cart[i].product = p}
    IN  [p \in {cart[i].product : i \in kept} |-> cart[Max(Of(p))].quantity]

TotalWeight(S) == MapThenSumSet(LAMBDA o : Weight[product[o]], S)

\* The loads selectOrdersForDelivery may return for the orders S: nothing
\* when there is nothing to carry, everything when everything fits, else some
\* load of positively weighted orders within the capacity.
Selectable(S, cap) ==
    IF S = {} \/ cap <= 0 THEN {{}}
    ELSE IF TotalWeight(S) <= cap THEN {S}
    ELSE {L \in SUBSET S : /\ TotalWeight(L) <= cap
                           /\ \A o \in L : Weight[product[o]] > 0}

-----------------------------------------------------------------------------
Init ==
    /\ status = [o \in OrderId |-> "none"]
    /\ product = [o \in OrderId |-> NoProduct]
    /\ nextId = 1
    /\ worker = [r \in Req |-> "idle"]
    /\ result = [r \in Req |-> "none"]
    /\ rows = [r \in Req |-> {}]
    /\ to = [r \in Req |-> "none"]
    /\ handler = [r \in Req |-> "idle"]
    /\ cancelled = {}
    /\ durable = {}
    /\ before = [r \in PlanReq |-> {}]

(* Requests arrive. *)

Start(r, first, target, new) ==
    /\ handler[r] = "idle"
    /\ handler' = [handler EXCEPT ![r] = "waiting"]
    /\ worker' = [worker EXCEPT ![r] = first]
    /\ rows' = [rows EXCEPT ![r] = target]
    /\ to' = [to EXCEPT ![r] = new]
    /\ UNCHANGED <<table, result, cancelled, before>>

StartCreate(r) == Start(r, "write", {}, "shipping")

BadStartPlan(r) == Start(r, "read", {}, "shipping")   \* does not take the load

StartPlan(r) == Start(r, "read", {}, "delivering")

StartPatch(r) ==
    \E o \in OrderId, s \in PatchStatus : Start(r, "write", {o}, s)

-----------------------------------------------------------------------------
(* The service functions.  A statement whose context is already done        *)
(* returns the context's error instead of running, see Fail.                *)

Go(r, state) == worker' = [worker EXCEPT ![r] = state]

Return(r, err) == /\ Go(r, "done")
                  /\ result' = [result EXCEPT ![r] = err]

\* CreateBatch: one multi-row INSERT takes consecutive ids; the products come
\* in the iteration order of a Go map, that is in any order.
CreateBatch(r, wanted) ==
    \E last \in nextId .. MaxOrder :
    \E bought \in [nextId .. last -> DOMAIN wanted] :
      /\ \A p \in DOMAIN wanted :
           wanted[p] = Cardinality({o \in nextId .. last : bought[o] = p})
      /\ product' = [o \in OrderId |-> IF o \in nextId .. last
                                       THEN bought[o] ELSE product[o]]
      /\ rows' = [rows EXCEPT ![r] = nextId .. last]
      /\ nextId' = NextId(last)

\* The transaction of CreateOrders up to its Commit.
InsertOrders(r) ==
    /\ worker[r] = "write"
    /\ r \notin cancelled
    /\ \E cart \in Cart :
         IF DOMAIN ItemsToProcess(cart) = {}
         THEN UNCHANGED <<product, nextId, rows>>
         ELSE CreateBatch(r, ItemsToProcess(cart))
    /\ Go(r, "commit")
    /\ UNCHANGED <<status, durable, result, to, handler, cancelled, before>>

\* GetShippingOrders: a plain SELECT, it sees committed rows and locks none.
GetShippingOrders(r) ==
    /\ worker[r] = "read"
    /\ r \notin cancelled
    /\ rows' = [rows EXCEPT ![r] = Visible]
    /\ before' = [before EXCEPT ![r] = durable]
    /\ Go(r, "select")
    /\ UNCHANGED <<table, result, to, handler, cancelled>>

\* selectOrdersForDelivery works on the rows read, however old they are.
SelectOrders(r) ==
    /\ worker[r] = "select"
    /\ \E cap \in Capacity : \E load \in Selectable(rows[r], cap) :
         /\ rows' = [rows EXCEPT ![r] = load]
         /\ Go(r, IF load = {} THEN "commit" ELSE "write")
    /\ UNCHANGED <<table, result, to, handler, cancelled, before>>

\* Bug: the UPDATE runs on the store outside the transaction.
BadUpdateStatuses(r) ==
    /\ worker[r] = "write"
    /\ r \notin cancelled
    /\ Unlocked(r, rows[r])
    /\ status' = Written(r)
    /\ Go(r, "commit")
    /\ UNCHANGED <<product, nextId, durable, result, rows, to, handler,
                   cancelled, before>>

\* UpdateStatuses in the plan's transaction: UPDATE ... WHERE order_id IN
\* (...) whatever the present status is.
UpdateStatuses(r) ==
    /\ worker[r] = "write"
    /\ r \notin cancelled
    /\ Unlocked(r, rows[r])
    /\ Go(r, "commit")
    /\ UNCHANGED <<table, result, rows, to, handler, cancelled, before>>

\* Commit looks at the context once, before it sends COMMIT.
CheckCommit(r) ==
    /\ worker[r] = "commit"
    /\ r \notin cancelled
    /\ Go(r, "committing")
    /\ UNCHANGED <<table, result, rows, to, handler, cancelled, before>>

\* COMMIT takes effect; err is "err" when its reply is lost with the connection.
Commit(r, err) ==
    /\ worker[r] = "committing"
    /\ status' = Written(r)
    /\ durable' = durable \cup {r}
    /\ Return(r, err)
    /\ UNCHANGED <<product, nextId, rows, to, handler, cancelled, before>>

\* UpdateOrderStatus: UpdateStatuses outside a transaction, committed at once.
\* An id without a row matches nothing and is no error.  The context may end
\* while the statement runs, which then has its effect and returns an error.
UpdateOrderStatus(r, err) ==
    /\ worker[r] = "write"
    /\ Unlocked(r, rows[r])
    /\ r \in cancelled => err = "err"
    /\ status' = Written(r)
    /\ durable' = durable \cup {r}
    /\ Return(r, err)
    /\ UNCHANGED <<product, nextId, rows, to, handler, cancelled, before>>

\* Bug: the INSERT runs on the store outside the transaction.
BadFailStored(r) ==
    /\ worker[r] \notin {"idle", "done"}
    /\ worker[r] = "select" => r \in cancelled
    /\ status' = Written(r)
    /\ Return(r, "err")
    /\ UNCHANGED <<product, nextId, durable, rows, to, handler, cancelled, before>>

\* Bug: no Rollback when Commit finds the context done.
BadFailOpen(r) ==
    /\ worker[r] \notin {"idle", "done", "commit"}
    /\ worker[r] = "select" => r \in cancelled
    /\ Return(r, "err")
    /\ UNCHANGED <<table, rows, to, handler, cancelled, before>>

\* A statement fails, or finds the context done: the deferred Rollback ends the
\* transaction.  The selection only fails on a context that is done.
Fail(r) ==
    /\ worker[r] \notin {"idle", "done"}
    /\ worker[r] = "select" => r \in cancelled
    /\ Return(r, "err")
    /\ UNCHANGED <<table, rows, to, handler, cancelled, before>>

-----------------------------------------------------------------------------
(* The handlers. *)

\* The client disconnects, or the deadline of WithTimeout passes.
Cancel(r) ==
    /\ handler[r] = "waiting"
    /\ r \notin cancelled
    /\ cancelled' = cancelled \cup {r}
    /\ UNCHANGED <<table, worker, result, rows, to, handler, before>>

Answer(r, code) ==
    /\ handler[r] = "waiting"
    /\ handler' = [handler EXCEPT ![r] = code]
    /\ UNCHANGED <<table, worker, result, rows, to, cancelled, before>>

\* Bug: the error is dropped.
BadAnswerResult(r) == worker[r] = "done" /\ Answer(r, "ok")

\* The service function returned (case err := <-done of WithTimeout).
AnswerResult(r) ==
    /\ worker[r] = "done"
    /\ Answer(r, IF result[r] = "nil" THEN "ok" ELSE "err")

BadAnswerEarly(r) == Answer(r, "err")     \* gives up at any time

BadAnswerJoined(r) ==                     \* waits for the goroutine as well
    worker[r] = "done" /\ r \in cancelled /\ Answer(r, "err")

\* case <-ctx.Done() of WithTimeout: the goroutine is left running.
AnswerTimeout(r) ==
    /\ r \in cancelled
    /\ Answer(r, "err")

\* The server stops: nobody is answered, and every context is gone.  What the
\* database is still executing for it may end either way, as after Cancel.
Crash ==
    /\ \E r \in Req : handler[r] = "waiting"
    /\ handler' = [r \in Req |-> IF handler[r] = "waiting" THEN "lost"
                                                           ELSE handler[r]]
    /\ cancelled' = cancelled \cup {r \in Req : handler[r] = "waiting"}
    /\ UNCHANGED <<table, worker, result, rows, to, before>>

\* Every request is over: the machine may rest.
Finished ==
    /\ \A r \in Req : handler[r] \in {"ok", "err", "lost"} /\ worker[r] = "done"
    /\ UNCHANGED vars

-----------------------------------------------------------------------------

\* What the service function of r does when nothing goes wrong.
WorkerStep(r) ==
    \/ r \in CreateReq /\ (InsertOrders(r) \/ CheckCommit(r) \/ Commit(r, "nil"))
    \/ r \in PlanReq /\ \/ GetShippingOrders(r) \/ SelectOrders(r)
                        \/ UpdateStatuses(r)
                        \/ CheckCommit(r) \/ Commit(r, "nil")
    \/ r \in PatchReq /\ UpdateOrderStatus(r, "nil")

\* The effect is there, the worker returns an error all the same.
ReplyLost(r) ==
    \/ r \in CreateReq \cup PlanReq /\ Commit(r, "err")
    \/ r \in PatchReq /\ UpdateOrderStatus(r, "err")

Arrive(r) ==
    \/ r \in CreateReq /\ StartCreate(r)
    \/ r \in PlanReq /\ StartPlan(r)
    \/ r \in PatchReq /\ StartPatch(r)

\* Bug: CreateOrders under WithTimeout as well.
BadHandlerStep(r) == AnswerResult(r) \/ AnswerTimeout(r)

HandlerStep(r) ==
    \/ AnswerResult(r)
    \/ r \in PlanReq \cup PatchReq /\ AnswerTimeout(r)

Next ==
    \/ \E r \in Req : \/ Arrive(r) \/ WorkerStep(r) \/ ReplyLost(r)
                      \/ Fail(r) \/ Cancel(r) \/ HandlerStep(r)
    \/ Crash
    \/ Finished

Spec == Init /\ [][Next]_vars

\* The database executes what it is sent and returns once the rows it needs are
\* free; a worker whose context is done is told so; the Go scheduler runs a
\* handler that can answer.  Arrivals, cancellations, failures and crashes are
\* never owed.
DatabaseServes ==
    \A r \in Req : /\ WF_vars(WorkerStep(r) \/ (r \in cancelled /\ Fail(r)))
                   /\ WF_vars(AnswerResult(r))

\* The clock alone: the deadline of WithTimeout passes and its select runs.
\* The database owes nothing, it may hang for ever.
TimersFire ==
    \A r \in PlanReq \cup PatchReq : WF_vars(Cancel(r)) /\ WF_vars(AnswerTimeout(r))

-----------------------------------------------------------------------------
(* Safety. *)

\* PATCH requests that put order o back to 'shipping' in the table.
PutBack(o) == \E p \in PatchReq \cap durable :
                 o \in rows[p] /\ to[p] = "shipping"

\* A create request is all there or not there at all: its orders have rows in
\* the table exactly when its transaction committed, whatever failed, timed
\* out or crashed in between (ExecTx, CreateBatch).
BatchAtomic ==
    \A r \in CreateReq : \A o \in rows[r] :
        status[o] # "none" <=> r \in durable

\* A request answered with success has had its effect: 201 means the orders are
\* stored, 200 means the plan or the patch is committed.  And no order is
\* acknowledged to two create requests.
AcksAreTrue ==
    /\ \A r \in Req : handler[r] = "ok" => r \in durable
    /\ \A c, d \in CreateReq : c # d => rows[c] \cap rows[d] = {}

\* A plan is made of orders that exist: a delivery plan never holds an order
\* whose creation was not committed, even when that creation fails later.
PlansHoldRealOrders ==
    \A r \in PlanReq : \A o \in rows[r] :
        \E c \in CreateReq \cap durable : o \in rows[c]

\* An order taken by a committed plan does not go back to 'shipping' by any
\* interleaving of plans, timeouts and crashes; only a PATCH puts it back.
TakenStaysTaken ==
    \A r \in PlanReq \cap durable : \A o \in rows[r] :
        status[o] = "shipping" => PutBack(o)

\* An order shows 'delivering' only because a committed plan took it or a PATCH
\* said so.  Its robot is told or still waits, unless the request was cut: its
\* context ended, the reply of COMMIT was lost, or the server stopped under it.
StrandedOnlyByCut ==
    \A o \in OrderId : status[o] = "delivering" =>
        \E r \in durable :
            /\ o \in rows[r]
            /\ to[r] = "delivering"
            /\ \/ handler[r] \in {"waiting", "ok"}
               \/ r \in cancelled
               \/ result[r] = "err"

\* Robots that come one after the other never get the same order: the orders a
\* plan reads contain none that an already committed plan took (unless a PATCH
\* put it back).  Only overlapping plans can share an order.
ReadsNothingTaken ==
    [][\A r \in PlanReq :
          worker[r] = "read" /\ worker'[r] = "select" =>
              \A q \in PlanReq \cap durable : \A o \in rows'[r] \cap rows[q] :
                  PutBack(o)]_vars

\* A plan writes over a status that is not 'shipping' any more only if the
\* request that wrote it committed while the plan was under way, after its
\* SELECT: whatever was committed before, the plan has seen and left alone.
OverwritesOverlapOnly ==
    [][\A r \in PlanReq \cap (durable' \ durable) : \A o \in rows[r] :
          status[o] # "shipping" => \E q \in durable \ before[r] : o \in rows[q]]_vars

\* The orders the effect of r was about.
About == [r \in Req |-> IF r \in durable THEN rows[r] ELSE {}]

\* All of this is a book of orders with requests that take effect at one moment:
\* a transaction is nothing before its COMMIT and everything after it, and what
\* a shop was answered is final (ExecTx, WithTimeout).
Book == INSTANCE OrderBook WITH
            book <- status,
            effective <- durable,
            about <- About,
            answer <- handler

KeepsTheBook == Book!Spec

-----------------------------------------------------------------------------
(* Why the safety properties hold: an inductive invariant, in named parts. *)

\* Where a request is: no effect before its worker is done, no success without
\* the effect, no premature answer without a cut.
Phases ==
    \A r \in Req :
        /\ worker[r] = "idle" <=> handler[r] = "idle"
        /\ worker[r] = "idle" => rows[r] = {}
        /\ worker[r] # "idle" => to[r] # "none"
        /\ worker[r] # "idle" /\ r \in PlanReq => to[r] = "delivering"
        /\ r \in CreateReq => /\ worker[r] \notin {"read", "select"}
                              /\ worker[r] = "write" => rows[r] = {}
        /\ r \in PatchReq => worker[r] \in {"idle", "write", "done"}
        /\ worker[r] = "done" <=> result[r] # "none"
        /\ r \in durable => worker[r] = "done"
        /\ result[r] = "nil" => r \in durable
        /\ handler[r] = "ok" => result[r] = "nil"
        /\ handler[r] = "err" => r \in cancelled \/ result[r] = "err"
        /\ handler[r] = "lost" => r \in cancelled

\* The ids given out lie below the counter, to one request each.
IdsGivenOnce ==
    /\ \A c \in CreateReq : \A o \in rows[c] : o < nextId
    /\ \A c, d \in CreateReq : c # d => rows[c] \cap rows[d] = {}

\* Every stored order came from a committed create request.
StoredHasCreator ==
    \A o \in OrderId : status[o] # "none" =>
        \E c \in CreateReq \cap durable : o \in rows[c]

\* The orders a plan has in hand are stored.
PlanRowsStored ==
    \A r \in PlanReq : \A o \in rows[r] : status[o] # "none"

\* Somebody committed says 'delivering' for every order that shows it.
DeliveringHasAuthor ==
    \A o \in OrderId : status[o] = "delivering" =>
        \E r \in durable : o \in rows[r] /\ to[r] = "delivering"

\* An order in a plan's hands is still waiting, or a request that committed
\* after the plan's SELECT has written it.
NewsSinceRead ==
    \A r \in PlanReq :
        /\ before[r] \subseteq durable
        /\ worker[r] # "done" => \A o \in rows[r] :
              status[o] # "shipping" => \E q \in durable \ before[r] : o \in rows[q]

\* Two open transactions never hold the same row.
LocksExclusive ==
    \A p, q \in Req : p # q => Held(p) \cap Held(q) = {}

Inv ==
    /\ TypeOK
    /\ Phases
    /\ IdsGivenOnce
    /\ BatchAtomic
    /\ StoredHasCreator
    /\ PlanRowsStored
    /\ TakenStaysTaken
    /\ DeliveringHasAuthor
    /\ LocksExclusive
    /\ NewsSinceRead

-----------------------------------------------------------------------------
(* Liveness. *)

\* When the database serves, a transaction whose handler gave up does not keep
\* its rows.
LocksReleased ==
    DatabaseServes => \A r \in Req : Held(r) # {} ~> Held(r) = {}

\* A robot request is answered even when the database never returns
\* (WithTimeout).  CreateOrders has no such guard.
RobotsAreAnswered ==
    TimersFire =>
        \A r \in PlanReq \cup PatchReq :
            handler[r] = "waiting" ~> handler[r] # "waiting"

-----------------------------------------------------------------------------
(* What the documents say and the code does not do. *)

\* An order a robot was given and reported as completed stays completed
\* (webapp/e2e/tests/robot.e2e.ts: plan, then PATCH, then the order is shown as
\* delivered).
CompletionSticks ==
    [][\A o \in OrderId :
          /\ status[o] = "completed"
          /\ \E p \in PlanReq : handler[p] = "ok" /\ o \in rows[p]
          /\ \E u \in PatchReq : handler[u] = "ok" /\ o \in rows[u]
          => status'[o] = "completed"]_vars
=============================================================================
