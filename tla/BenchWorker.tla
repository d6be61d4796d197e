---------------------------- MODULE BenchWorker ----------------------------
(***************************************************************************)
(* The workers that run load tests.  A request is a message in a storage   *)
(* queue and a row of a table, both put there by another server.  A worker *)
(* takes a message, which the queue hides for a while, marks the row as    *)
(* running, skips the request when the table shows another one of the      *)
(* team, runs the test, posts the score, marks the row as finished and     *)
(* deletes the message.  A message that is not deleted is shown again.     *)
(*                                                                         *)
(* Queue, table, dead-letter queue and score server are external; a call   *)
(* to one of them may fail, a worker may stop and be started again, and    *)
(* the hiding may end while the worker is still busy.  The number of such  *)
(* faults is bounded by MaxFault, the number of deliveries is not.         *)
(*                                                                         *)
(* Definitions named Bad... are the definition that follows them with a    *)
(* plausible bug, to see that a property notices.                          *)
(***************************************************************************)
EXTENDS Naturals

CONSTANTS
    Worker,
    Request,    \* load test ids, each with one message and one row
    Team,
    TeamOf,     \* the team (PartitionKey) of a request
    None,
    MaxFault    \* bound: faults in one behaviour

ASSUME BenchInputs ==
    /\ TeamOf \in [Request -> Team]
    /\ None \notin Request /\ None \notin Worker
    /\ MaxFault \in Nat

VARIABLES
    row,        \* Status of the request in the table
    active,     \* rows waiting or running, UpdatedAt less than an hour ago
    garbled,    \* requests whose message is not JSON
    message,    \* the message as the queue sees it
    holder,     \* worker with the latest pop receipt of the message
    dlq,        \* requests in the dead-letter queue
    posted,     \* scores registered for the request: 0, 1, or 2 for more
    pc, job,    \* what each worker does next, and for which request
    unseen,     \* rows a worker that looks for duplicates has not read yet
    faults,     \* faults so far
    disturbed   \* history: requests that met a fault

vars == <<row, active, garbled, message, holder, dlq, posted, pc, job, unseen, faults,
          disturbed>>

TypeOK ==
    /\ row \in [Request -> {"none", "waiting", "running", "finished", "failed"}]
    /\ active \subseteq {r \in Request : row[r] \in {"waiting", "running"}}
    /\ garbled \subseteq Request
    /\ message \in [Request -> {"none", "visible", "hidden", "deleted"}]
    /\ holder \in [Request -> {None} \cup Worker]
    /\ dlq \subseteq Request
    /\ posted \in [Request -> 0 .. 2]
    /\ pc \in [Worker -> {"poll", "mark", "check", "lock", "run", "post", "drop",
                          "markFailed", "release", "delete"}]
    /\ job \in [Worker -> {None} \cup Request]
    /\ \A w \in Worker : job[w] = None <=> pc[w] = "poll"
    /\ unseen \in [Worker -> SUBSET Request]
    /\ \A w \in Worker : unseen[w] # {} => pc[w] = "check"
    /\ faults \in 0 .. MaxFault
    /\ disturbed \subseteq Request

Init ==
    /\ row = [r \in Request |-> "none"]
    /\ active = {}
    /\ garbled = {}
    /\ message = [r \in Request |-> "none"]
    /\ holder = [r \in Request |-> None]
    /\ dlq = {}
    /\ posted = [r \in Request |-> 0]
    /\ pc = [w \in Worker |-> "poll"]
    /\ job = [w \in Worker |-> None]
    /\ unseen = [w \in Worker |-> {}]
    /\ faults = 0
    /\ disturbed = {}

queueVars == <<garbled, message, holder>>
tableVars == <<row, active>>

Busy(r) == \E w \in Worker : job[w] = r

\* Bug: a request is a duplicate of itself.
BadMates(r) == {q \in Request : TeamOf[q] = TeamOf[r]}

\* The rows that make r a duplicate are the other ones of its team.
Mates(r) == {q \in Request \ {r} : TeamOf[q] = TeamOf[r]}

\* One step of worker w, at "from", about the request it has.
Goes(w, from, to) ==
    /\ pc[w] = from
    /\ pc' = [pc EXCEPT ![w] = to]
    /\ unseen' = [unseen EXCEPT ![w] = IF to = "check" THEN Mates(job[w]) ELSE {}]
    /\ job' = [job EXCEPT ![w] = IF to = "poll" THEN None ELSE @]

NoFault == UNCHANGED <<faults, disturbed>>

Fault(r) ==
    /\ faults < MaxFault
    /\ faults' = faults + 1
    /\ disturbed' = disturbed \cup {r}

\* UpsertEntity on the row of r.
SetRow(r, status) ==
    /\ row' = [row EXCEPT ![r] = status]
    /\ active' = IF status \in {"waiting", "running"} THEN active \cup {r}
                                                    ELSE active \ {r}

-----------------------------------------------------------------------------
(* The other side: requests arrive, messages show up again, time passes. *)

Submit(r) ==
    /\ message[r] = "none"
    /\ message' = [message EXCEPT ![r] = "visible"]
    /\ garbled' \in {garbled, garbled \cup {r}}
    /\ SetRow(r, "waiting")
    /\ UNCHANGED <<holder, dlq, posted, pc, job, unseen>> /\ NoFault

\* The visibility timeout ends; while a worker is at it, that is a fault.
Reappear(r) ==
    /\ message[r] = "hidden"
    /\ message' = [message EXCEPT ![r] = "visible"]
    /\ IF Busy(r) THEN Fault(r) ELSE NoFault
    /\ UNCHANGED <<tableVars, garbled, holder, dlq, posted, pc, job, unseen>>

\* UpdatedAt is now more than an hour old, while a worker is at it or not.
HourPasses(r) ==
    /\ r \in active
    /\ active' = active \ {r}
    /\ IF Busy(r) THEN Fault(r) ELSE NoFault
    /\ UNCHANGED <<row, queueVars, dlq, posted, pc, job, unseen>>

\* The process stops and is started again.
Crash(w) ==
    /\ pc[w] # "poll"
    /\ Goes(w, pc[w], "poll")
    /\ Fault(job[w])
    /\ UNCHANGED <<tableVars, queueVars, dlq, posted>>

-----------------------------------------------------------------------------
(* The worker. *)

\* DequeueMessage and json.Unmarshal: a message it cannot read is deleted.
Receive(w, r) ==
    /\ pc[w] = "poll"
    /\ message[r] = "visible"
    /\ message' = [message EXCEPT ![r] = "hidden"]
    /\ holder' = [holder EXCEPT ![r] = w]
    /\ pc' = [pc EXCEPT ![w] = IF r \in garbled THEN "delete" ELSE "mark"]
    /\ job' = [job EXCEPT ![w] = r]
    /\ UNCHANGED <<tableVars, garbled, dlq, posted, unseen>> /\ NoFault

\* Nothing to receive: the worker sleeps and asks again.
EmptyPoll(w) ==
    /\ pc[w] = "poll"
    /\ \A r \in Request : message[r] # "visible"
    /\ UNCHANGED vars

\* Bug: the mark is left to acquireLock.
BadMarked(w) == Goes(w, "mark", "check") /\ UNCHANGED tableVars

Marked(w) == Goes(w, "mark", "check") /\ SetRow(job[w], "running")

\* updateRequestStatus(.., "running") on receipt; its failure is only logged.
Mark(w) ==
    /\ \/ Marked(w) /\ NoFault
       \/ Goes(w, "mark", "check") /\ Fault(job[w]) /\ UNCHANGED tableVars
    /\ UNCHANGED <<queueVars, dlq, posted>>

\* isDuplicateOrSkip asks for active rows of the team and reads the answer page
\* by page, not all at once.
LookOn(w) ==
    /\ pc[w] = "check"
    /\ \E q \in unseen[w] : /\ q \notin active
                            /\ unseen' = [unseen EXCEPT ![w] = @ \ {q}]
    /\ UNCHANGED <<tableVars, queueVars, dlq, posted, pc, job>> /\ NoFault

\* Nothing is undone: the row stays "running", the message stays hidden.
Skip(w) ==
    /\ Goes(w, "check", "poll")
    /\ unseen[w] \cap active # {}
    /\ UNCHANGED <<tableVars, queueVars, dlq, posted>> /\ NoFault

Proceed(w) ==
    /\ Goes(w, "check", "lock")
    /\ unseen[w] = {}
    /\ UNCHANGED <<tableVars, queueVars, dlq, posted>> /\ NoFault

\* acquireLock
Lock(w) ==
    /\ Goes(w, "lock", "run")
    /\ SetRow(job[w], "running")
    /\ UNCHANGED <<queueVars, dlq, posted>> /\ NoFault

\* The look at the table or the lock fails: the worker gives the message up.
GiveUp(w) ==
    /\ Goes(w, "check", "poll") \/ Goes(w, "lock", "poll")
    /\ Fault(job[w])
    /\ UNCHANGED <<tableVars, queueVars, dlq, posted>>

\* runLoadTest: no score to compute is a score of 0, only k6 itself may fail.
RunLoadTest(w) ==
    /\ Goes(w, "run", "post") \/ Goes(w, "run", "drop")
    /\ UNCHANGED <<tableVars, queueVars, dlq, posted>> /\ NoFault

Registered(r) == posted' = [posted EXCEPT ![r] = IF @ = 2 THEN 2 ELSE @ + 1]

\* postScore: registered; refused; or registered but the answer is lost.
PostScore(w) ==
    /\ \/ Goes(w, "post", "release") /\ Registered(job[w])
       \/ Goes(w, "post", "drop") /\ UNCHANGED posted
       \/ Goes(w, "post", "drop") /\ Registered(job[w])
    /\ UNCHANGED <<tableVars, queueVars, dlq>> /\ NoFault

\* markFailedAndDrop: dead-letter queue, then the row, then the message, each
\* whether or not the one before failed.
Drop(w) ==
    /\ Goes(w, "drop", "markFailed")
    /\ \/ dlq' = dlq \cup {job[w]} /\ NoFault
       \/ UNCHANGED dlq /\ Fault(job[w])
    /\ UNCHANGED <<tableVars, queueVars, posted>>

MarkFailed(w) ==
    /\ Goes(w, "markFailed", "delete")
    /\ \/ SetRow(job[w], "failed") /\ NoFault
       \/ UNCHANGED tableVars /\ Fault(job[w])
    /\ UNCHANGED <<queueVars, dlq, posted>>

\* Bug: released by a defer, on the way out of a failed run as well.
BadReleased(w) ==
    /\ Goes(w, "release", "delete") \/ Goes(w, "drop", "delete")
    /\ SetRow(job[w], "finished")

\* Bug: nothing is written, the row is left to grow old.
BadUnreleased(w) == Goes(w, "release", "delete") /\ UNCHANGED tableVars

Released(w) == Goes(w, "release", "delete") /\ SetRow(job[w], "finished")

\* releaseLock, its error ignored.
Release(w) ==
    /\ \/ Released(w) /\ NoFault
       \/ Goes(w, "release", "delete") /\ Fault(job[w]) /\ UNCHANGED tableVars
    /\ UNCHANGED <<queueVars, dlq, posted>>

Deleted(r) ==
    /\ message' = [message EXCEPT ![r] = "deleted"]
    /\ holder' = [holder EXCEPT ![r] = None]
    /\ UNCHANGED garbled

\* DeleteMessage with the pop receipt of this delivery, which is void once the
\* message has been handed out again; its failure is only logged.
Delete(w) ==
    /\ Goes(w, "delete", "poll")
    /\ \/ holder[job[w]] = w /\ Deleted(job[w]) /\ NoFault
       \/ holder[job[w]] # w /\ UNCHANGED queueVars /\ NoFault
       \/ UNCHANGED queueVars /\ Fault(job[w])
    /\ UNCHANGED <<tableVars, dlq, posted>>

-----------------------------------------------------------------------------
WorkerStep(w) ==
    \/ Mark(w) \/ LookOn(w) \/ Skip(w) \/ Proceed(w) \/ Lock(w) \/ GiveUp(w)
    \/ RunLoadTest(w) \/ PostScore(w) \/ Drop(w) \/ MarkFailed(w)
    \/ Release(w) \/ Delete(w)

Next ==
    \/ \E r \in Request : Submit(r) \/ Reappear(r) \/ HourPasses(r)
    \/ \E w \in Worker : EmptyPoll(w) \/ Crash(w) \/ WorkerStep(w)
    \/ \E w \in Worker, r \in Request : Receive(w, r)

Spec == Init /\ [][Next]_vars

\* A busy worker goes on (the k6 script has a fixed duration), a hidden message
\* nobody works on shows up again, and the queue, which hands messages out in
\* about the order they came, does not pass over one for ever.
FairSpec ==
    /\ Spec
    /\ \A w \in Worker : WF_vars(WorkerStep(w))
    /\ \A r \in Request : /\ WF_vars(~Busy(r) /\ Reappear(r))
                          /\ SF_vars(\E w \in Worker : Receive(w, r))

-----------------------------------------------------------------------------
(* Safety. *)

\* Two requests of a team never have their load tests run at the same time,
\* unless one of them met a fault: every worker marks its row before it looks
\* at the others', so the second to look sees the first.
OneRunPerTeam ==
    \A v, w \in Worker :
        /\ pc[v] = "run" /\ pc[w] = "run"
        /\ job[v] # job[w] /\ TeamOf[job[v]] = TeamOf[job[w]]
        => {job[v], job[w]} \cap disturbed # {}

\* A row says "finished" only after a score was registered, whatever failed and
\* however often the message was delivered.
FinishedMeansPosted ==
    \A r \in Request : row[r] = "finished" => posted[r] > 0

\* A message goes only with its work done: without faults, one score and a
\* finished row, or a failed row and a copy in the dead-letter queue.
CleanEnd ==
    \A r \in Request \ (garbled \cup disturbed) :
        message[r] = "deleted" =>
            \/ row[r] = "finished" /\ posted[r] = 1
            \/ row[r] = "failed" /\ r \in dlq

-----------------------------------------------------------------------------
(* The inductive invariant behind OneRunPerTeam. *)

\* A request that met no fault is with one worker at most.
HeldOnce ==
    \A v, w \in Worker :
        job[v] = job[w] /\ job[v] \in Request \ disturbed => v = w

\* The message of a request that met no fault is hidden while a worker has it.
HeldHidden ==
    \A w \in Worker : job[w] \in Request \ disturbed => message[job[w]] = "hidden"

Marks(w) == pc[w] \in {"check", "lock", "run"} /\ job[w] \notin disturbed

\* A request is active from its mark to the end of its test.
MarkedActive == \A w \in Worker : Marks(w) => job[w] \in active

\* v looked at the row of w's request and saw nothing in its way.
Passed(v, w) == job[w] \in Mates(job[v]) /\ job[w] \notin unseen[v]

\* Of two marked requests of a team at most one got past the other.
OnePasses ==
    \A v, w \in Worker :
        Marks(v) /\ Marks(w) /\ Passed(v, w) => ~Passed(w, v)

\* Together: why mark, look and run exclude one another without an atomic lock.
LockInv == TypeOK /\ HeldOnce /\ HeldHidden /\ MarkedActive /\ OnePasses

-----------------------------------------------------------------------------
(* Liveness. *)

\* No other request of the team is active.
Quiet(r) == \A q \in active \ {r} : TeamOf[q] # TeamOf[r]

\* A request ends, whatever failed on the way, unless its team keeps having
\* other active ones: what was skipped is shown again and gets its turn.
QuietTeamEnds ==
    \A r \in Request :
        <>[]Quiet(r) => (message[r] = "visible" ~> message[r] = "deleted")

-----------------------------------------------------------------------------
(* What a message says and the code does not do. *)

InProgress(r) == row[r] = "waiting" \/ Busy(r)

\* "Skipped because another request is already in progress" (queue.go): another
\* request of the team is waiting or some worker is at it.
SkipsMeanProgress ==
    [][\A w \in Worker : Skip(w) =>
          \E q \in Request \ {job[w]} :
              TeamOf[q] = TeamOf[job[w]] /\ InProgress(q)]_vars
=============================================================================
