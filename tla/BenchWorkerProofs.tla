------------------------- MODULE BenchWorkerProofs -------------------------
(***************************************************************************)
(* Proofs about BenchWorker, for any workers, requests and teams and any   *)
(* number of faults.  Every step of a worker is first abstracted to what   *)
(* it does to the request the worker has (Moves), then the parts of        *)
(* LockInv are shown once for all of them.                                 *)
(***************************************************************************)
EXTENDS BenchWorker, TLAPS

LEMMA TypeInit ==
    ASSUME Init
    PROVE  TypeOK
BY BenchInputs DEF Init, TypeOK

LEMMA TypeStep ==
    ASSUME TypeOK, [Next]_vars
    PROVE  TypeOK'
<1> USE BenchInputs DEF TypeOK, NoFault, tableVars, queueVars
<1>1. ASSUME NEW r \in Request, Submit(r)
      PROVE  TypeOK'
  BY <1>1 DEF Submit, SetRow
<1>2. ASSUME NEW r \in Request, Reappear(r) \/ HourPasses(r)
      PROVE  TypeOK'
  BY <1>2 DEF Reappear, HourPasses, Fault
<1>3. ASSUME NEW w \in Worker, Crash(w)
      PROVE  TypeOK'
  BY <1>3 DEF Crash, Goes, Fault
<1>4. ASSUME NEW w \in Worker, NEW r \in Request, Receive(w, r)
      PROVE  TypeOK'
  BY <1>4 DEF Receive
<1>5. ASSUME NEW w \in Worker, WorkerStep(w)
      PROVE  TypeOK'
  <2>0. Mates(job[w]) \subseteq Request
    BY DEF Mates
  <2>1. CASE Mark(w)
    BY <2>0, <2>1 DEF Mark, Marked, Goes, SetRow, Fault
  <2>2. CASE LookOn(w)
    BY <2>2 DEF LookOn
  <2>3. CASE Skip(w) \/ Proceed(w) \/ GiveUp(w) \/ RunLoadTest(w)
    BY <2>3 DEF Skip, Proceed, GiveUp, RunLoadTest, Goes, Fault
  <2>4. CASE Lock(w)
    BY <2>4 DEF Lock, Goes, SetRow
  <2>5. CASE PostScore(w)
    BY <2>5 DEF PostScore, Goes, Registered
  <2>6. CASE Drop(w)
    BY <2>6 DEF Drop, Goes, Fault
  <2>7. CASE MarkFailed(w)
    BY <2>7 DEF MarkFailed, Goes, SetRow, Fault
  <2>8. CASE Release(w)
    BY <2>8 DEF Release, Released, Goes, SetRow, Fault
  <2>9. CASE Delete(w)
    BY <2>9 DEF Delete, Deleted, Goes, Fault
  <2> QED
    BY <1>5, <2>1, <2>2, <2>3, <2>4, <2>5, <2>6, <2>7, <2>8, <2>9 DEF WorkerStep
<1>6. CASE UNCHANGED vars
  BY <1>6 DEF vars
<1> QED
  BY <1>1, <1>2, <1>3, <1>4, <1>5, <1>6 DEF Next, EmptyPoll

\* Every variable keeps its type.
THEOREM WorkerTypes == Spec => []TypeOK
<1>1. Init => TypeOK
  BY TypeInit
<1>2. TypeOK /\ [Next]_vars => TypeOK'
  BY TypeStep
<1> QED
  BY <1>1, <1>2, PTL DEF Spec

-----------------------------------------------------------------------------
\* What a step of a worker that has a request may do: it concerns that request
\* only, a fault is remembered, a mark is set on the way in and taken back, like
\* the message, only on the way out.
Moves(w) ==
    /\ job[w] \in Request
    /\ \A v \in Worker \ {w} :
          pc'[v] = pc[v] /\ job'[v] = job[v] /\ unseen'[v] = unseen[v]
    /\ job'[w] \in {None, job[w]}
    /\ disturbed \subseteq disturbed'
    /\ \A r \in Request \ {job[w]} :
          message'[r] = message[r] /\ (r \in active' <=> r \in active)
    /\ job'[w] = job[w] => message'[job[w]] = message[job[w]]
    /\ pc'[w] \in {"check", "lock", "run"} /\ job[w] \notin disturbed' =>
          /\ job'[w] = job[w]
          /\ job[w] \in active'
          /\ \/ pc[w] = "mark" /\ unseen'[w] = Mates(job[w])
             \/ /\ Marks(w)
                /\ \A q \in unseen[w] : q \notin unseen'[w] => q \notin active

LEMMA StepMoves ==
    ASSUME LockInv, NEW w \in Worker, WorkerStep(w) \/ Crash(w)
    PROVE  Moves(w)
<1> USE BenchInputs DEF LockInv, TypeOK, NoFault, tableVars, queueVars
<1>0. pc[w] # "poll" /\ job[w] \in Request /\ job[w] # None
  BY DEF WorkerStep, Crash, Mark, Marked, LookOn, Skip, Proceed, Lock, GiveUp, RunLoadTest,
     PostScore, Drop, MarkFailed, Release, Released, Delete, Goes
<1>a. pc[w] \in {"check", "lock", "run"} /\ job[w] \notin disturbed => Marks(w) /\ job[w] \in active
  BY DEF MarkedActive, Marks
<1>1. CASE Mark(w)
  BY <1>0, <1>1 DEF Mark, Marked, Goes, SetRow, Fault, Moves
<1>2. CASE LookOn(w)
  BY <1>0, <1>a, <1>2 DEF LookOn, Moves
<1>3. CASE Skip(w) \/ RunLoadTest(w) \/ GiveUp(w) \/ Crash(w)
  BY <1>0, <1>3 DEF Skip, RunLoadTest, GiveUp, Crash, Goes, Fault, Moves
<1>4. CASE Proceed(w)
  BY <1>0, <1>a, <1>4 DEF Proceed, Goes, Moves
<1>5. CASE Lock(w)
  BY <1>0, <1>a, <1>5 DEF Lock, Goes, SetRow, Moves
<1>6. CASE PostScore(w) \/ Drop(w)
  BY <1>0, <1>6 DEF PostScore, Drop, Goes, Fault, Moves
<1>7. CASE MarkFailed(w)
  BY <1>0, <1>7 DEF MarkFailed, Goes, SetRow, Fault, Moves
<1>8. CASE Release(w)
  BY <1>0, <1>8 DEF Release, Released, Goes, SetRow, Fault, Moves
<1>9. CASE Delete(w)
  BY <1>0, <1>9 DEF Delete, Deleted, Goes, Fault, Moves
<1> QED
  BY <1>1, <1>2, <1>3, <1>4, <1>5, <1>6, <1>7, <1>8, <1>9 DEF WorkerStep

LEMMA MovesKeep ==
    ASSUME LockInv, TypeOK', NEW w \in Worker, Moves(w)
    PROVE  LockInv'
<1> USE BenchInputs DEF LockInv, TypeOK
<1>1. HeldOnce'
  BY DEF HeldOnce, Moves
<1>2. HeldHidden'
  <2> SUFFICES ASSUME NEW v \in Worker, job'[v] \in Request \ disturbed'
               PROVE  message'[job'[v]] = "hidden"
    BY DEF HeldHidden
  <2>1. CASE v = w
    BY <2>1 DEF HeldHidden, Moves
  <2>2. CASE v # w
    BY <2>2 DEF HeldHidden, HeldOnce, Moves
  <2> QED
    BY <2>1, <2>2
<1>3. MarkedActive'
  <2> SUFFICES ASSUME NEW v \in Worker, Marks(v)'
               PROVE  job'[v] \in active'
    BY DEF MarkedActive
  <2>1. CASE v = w
    BY <2>1 DEF Marks, Moves
  <2>2. CASE v # w
    <3>1. Marks(v) /\ job'[v] = job[v] /\ job[v] \in Request
      BY <2>2 DEF Marks, Moves
    <3>2. job[v] # job[w] /\ job[v] \in active
      BY <2>2, <3>1 DEF Marks, MarkedActive, HeldOnce
    <3> QED
      BY <3>1, <3>2 DEF Moves
  <2> QED
    BY <2>1, <2>2
<1>4. OnePasses'
  \* Two workers, of which w is one: what w passes now it passed before, or it
  \* is not active and so not marked.
  <2>1. ASSUME NEW v \in Worker, v # w, Marks(v)', Marks(w)', Passed(w, v)'
        PROVE  Marks(v) /\ Marks(w) /\ Passed(w, v)
    <3>1. Marks(v) /\ job'[v] = job[v] /\ job[v] \in active
      BY <2>1 DEF Marks, MarkedActive, Moves
    <3>2. job'[w] = job[w] /\ job[v] \in Mates(job[w]) /\ job[v] \notin unseen'[w]
      BY <2>1, <3>1 DEF Passed, Marks, Moves
    <3>3. Marks(w) /\ job[v] \notin unseen[w]
      BY <2>1, <3>1, <3>2 DEF Marks, Moves
    <3> QED
      BY <3>1, <3>2, <3>3 DEF Passed
  <2>2. ASSUME NEW v \in Worker, v # w, Marks(v)', Marks(w)', Passed(w, v)'
        PROVE  ~Passed(v, w)'
    <3>1. Marks(v) /\ Marks(w) /\ Passed(w, v) /\ ~Passed(v, w)
      BY <2>1, <2>2 DEF OnePasses
    <3>2. job'[v] = job[v] /\ unseen'[v] = unseen[v] /\ job'[w] = job[w]
      BY <2>2 DEF Marks, Moves
    <3> QED
      BY <3>1, <3>2 DEF Passed
  <2>3. ASSUME NEW u \in Worker, NEW v \in Worker, u # w, v # w,
               Marks(u)', Marks(v)', Passed(u, v)'
        PROVE  ~Passed(v, u)'
    <3>1. /\ job'[v] = job[v] /\ unseen'[v] = unseen[v] /\ pc'[v] = pc[v]
          /\ job'[u] = job[u] /\ unseen'[u] = unseen[u] /\ pc'[u] = pc[u]
          /\ disturbed \subseteq disturbed'
      BY <2>3 DEF Moves
    <3> QED
      BY <2>3, <3>1 DEF OnePasses, Marks, Passed
  <2>4. \A u \in Worker : ~Passed(u, u)'
    BY DEF Passed, Mates
  <2> QED
    BY <2>2, <2>3, <2>4 DEF OnePasses
<1> QED
  BY <1>1, <1>2, <1>3, <1>4

\* What the other side does leaves the workers where they are and disturbs the
\* request it would otherwise take from one.
LEMMA OutsideKeeps ==
    ASSUME LockInv, TypeOK', UNCHANGED <<pc, job, unseen>>, disturbed \subseteq disturbed',
           \A r \in Request \ disturbed' : Busy(r) =>
              /\ message[r] = "hidden" => message'[r] = "hidden"
              /\ r \in active => r \in active'
    PROVE  LockInv'
<1> USE DEF LockInv, TypeOK
<1>1. HeldOnce'
  BY DEF HeldOnce
<1>2. HeldHidden'
  BY DEF HeldHidden, Busy
<1>3. MarkedActive'
  <2> SUFFICES ASSUME NEW w \in Worker, Marks(w)'
               PROVE  job[w] \in active'
    BY DEF MarkedActive
  <2>1. Marks(w) /\ job[w] \in Request \ disturbed'
    BY BenchInputs DEF Marks
  <2> QED
    BY <2>1 DEF MarkedActive, Busy
<1>4. OnePasses'
  BY DEF OnePasses, Marks, Passed
<1> QED
  BY <1>1, <1>2, <1>3, <1>4

\* A message is received only when no undisturbed worker has it.
LEMMA ReceiveKeeps ==
    ASSUME LockInv, TypeOK', NEW w \in Worker, NEW r \in Request, Receive(w, r)
    PROVE  LockInv'
<1> USE BenchInputs DEF LockInv, TypeOK, Receive, NoFault, tableVars
<1>1. /\ \A v \in Worker : job[v] = r => r \in disturbed
      /\ \A v \in Worker \ {w} :
            pc'[v] = pc[v] /\ job'[v] = job[v] /\ unseen'[v] = unseen[v]
      /\ job'[w] = r /\ pc'[w] \in {"mark", "delete"}
      /\ disturbed' = disturbed /\ active' = active
      /\ message'[r] = "hidden" /\ \A q \in Request \ {r} : message'[q] = message[q]
  BY DEF HeldHidden
<1>2. ~Marks(w)' /\ \A v \in Worker \ {w} : Marks(v)' <=> Marks(v)
  BY <1>1 DEF Marks
<1> HIDE DEF Receive
<1>3. HeldOnce'
  BY <1>1 DEF HeldOnce
<1>4. HeldHidden'
  BY <1>1 DEF HeldHidden
<1>5. MarkedActive'
  BY <1>1, <1>2 DEF MarkedActive
<1>6. OnePasses'
  BY <1>1, <1>2 DEF OnePasses, Passed
<1> QED
  BY <1>3, <1>4, <1>5, <1>6

\* LockInv is inductive.
THEOREM LockInvariance == Spec => []LockInv
<1>1. Init => LockInv
  BY TypeInit, BenchInputs DEF Init, LockInv, HeldOnce, HeldHidden, MarkedActive, OnePasses, Marks
<1>2. LockInv /\ [Next]_vars => LockInv'
  <2> SUFFICES ASSUME LockInv, [Next]_vars
               PROVE  LockInv'
    OBVIOUS
  <2>0. TypeOK /\ TypeOK'
    BY TypeStep DEF LockInv
  <2>1. ASSUME NEW r \in Request, Submit(r) \/ Reappear(r) \/ HourPasses(r)
        PROVE  LockInv'
    <3>1. UNCHANGED <<pc, job, unseen>> /\ disturbed \subseteq disturbed'
      BY <2>1 DEF Submit, Reappear, HourPasses, Fault, NoFault
    <3>2. ASSUME NEW q \in Request \ disturbed', Busy(q)
          PROVE  /\ message[q] = "hidden" => message'[q] = "hidden"
                 /\ q \in active => q \in active'
      <4>1. CASE Submit(r)
        BY <2>0, <4>1 DEF Submit, SetRow, TypeOK
      <4>2. CASE Reappear(r)
        BY <2>0, <3>2, <4>2 DEF Reappear, Fault, NoFault, tableVars, TypeOK
      <4>3. CASE HourPasses(r)
        BY <2>0, <3>2, <4>3 DEF HourPasses, Fault, NoFault, queueVars, TypeOK
      <4> QED
        BY <2>1, <4>1, <4>2, <4>3
    <3> QED
      BY <2>0, <3>1, <3>2, OutsideKeeps
  <2>2. ASSUME NEW w \in Worker, Crash(w) \/ WorkerStep(w)
        PROVE  LockInv'
    BY <2>0, <2>2, StepMoves, MovesKeep
  <2>3. ASSUME NEW w \in Worker, NEW r \in Request, Receive(w, r)
        PROVE  LockInv'
    BY <2>0, <2>3, ReceiveKeeps
  <2>4. CASE UNCHANGED vars
    BY <2>0, <2>4, OutsideKeeps DEF vars
  <2> QED
    BY <2>1, <2>2, <2>3, <2>4 DEF Next, EmptyPoll
<1> QED
  BY <1>1, <1>2, PTL DEF Spec

\* Requests of a team that met no fault never run at the same time.
THEOREM RunsExclude == Spec => []OneRunPerTeam
<1>1. LockInv => OneRunPerTeam
  <2> SUFFICES ASSUME LockInv, NEW v \in Worker, NEW w \in Worker,
                      pc[v] = "run", pc[w] = "run", job[v] # job[w],
                      TeamOf[job[v]] = TeamOf[job[w]],
                      job[v] \notin disturbed, job[w] \notin disturbed
               PROVE  FALSE
    BY DEF OneRunPerTeam
  <2>1. job[v] \in Request /\ job[w] \in Request /\ unseen[v] = {} /\ unseen[w] = {}
    BY BenchInputs DEF LockInv, TypeOK
  <2>2. Passed(v, w) /\ Passed(w, v)
    BY <2>1 DEF Passed, Mates
  <2> QED
    BY <2>2 DEF LockInv, OnePasses, Marks
<1> QED
  BY <1>1, LockInvariance, PTL

-----------------------------------------------------------------------------
\* A worker that is about to write "finished" has posted.
ReleaseAfterPost ==
    \A w \in Worker : pc[w] = "release" => posted[job[w]] > 0

\* A finished row has a score, through every redelivery, crash and failure.
THEOREM FinishedHasScore == Spec => []FinishedMeansPosted
<1> DEFINE PInv == TypeOK /\ ReleaseAfterPost /\ FinishedMeansPosted
<1>1. Init => PInv
  BY TypeInit DEF Init, ReleaseAfterPost, FinishedMeansPosted
<1>2. PInv /\ [Next]_vars => PInv'
  <2> SUFFICES ASSUME PInv, [Next]_vars
               PROVE  PInv'
    OBVIOUS
  <2>0. TypeOK'
    BY TypeStep
  <2> USE BenchInputs DEF TypeOK, tableVars, queueVars, ReleaseAfterPost, FinishedMeansPosted
  <2>1. ASSUME NEW r \in Request, Submit(r) \/ Reappear(r) \/ HourPasses(r)
        PROVE  PInv'
    BY <2>0, <2>1 DEF Submit, Reappear, HourPasses, SetRow
  <2>2. ASSUME NEW w \in Worker, NEW r \in Request, Receive(w, r)
        PROVE  PInv'
    BY <2>0, <2>2 DEF Receive
  <2>3. ASSUME NEW w \in Worker, Crash(w) \/ WorkerStep(w)
        PROVE  PInv'
    <3>1. CASE Crash(w) \/ Skip(w) \/ Proceed(w) \/ GiveUp(w) \/ RunLoadTest(w)
      BY <2>0, <3>1 DEF Crash, Skip, Proceed, GiveUp, RunLoadTest, Goes
    <3>2. CASE Mark(w) \/ Lock(w)
      BY <2>0, <3>2 DEF Mark, Marked, Lock, Goes, SetRow
    <3>3. CASE LookOn(w)
      BY <2>0, <3>3 DEF LookOn
    <3>4. CASE PostScore(w)
      BY <2>0, <3>4 DEF PostScore, Goes, Registered
    <3>5. CASE Drop(w) \/ Delete(w)
      BY <2>0, <3>5 DEF Drop, Delete, Goes
    <3>6. CASE MarkFailed(w)
      BY <2>0, <3>6 DEF MarkFailed, Goes, SetRow
    <3>7. CASE Release(w)
      BY <2>0, <3>7 DEF Release, Released, Goes, SetRow
    <3> QED
      BY <2>3, <3>1, <3>2, <3>3, <3>4, <3>5, <3>6, <3>7 DEF WorkerStep
  <2>4. CASE UNCHANGED vars
    BY <2>0, <2>4 DEF vars
  <2> QED
    BY <2>1, <2>2, <2>3, <2>4 DEF Next, EmptyPoll
<1>3. PInv => FinishedMeansPosted
  OBVIOUS
<1> QED
  BY <1>1, <1>2, <1>3, PTL DEF Spec

-----------------------------------------------------------------------------
\* What the end of r should look like.
Ended(r) ==
    \/ row[r] = "finished" /\ posted[r] = 1
    \/ row[r] = "failed" /\ r \in dlq

\* What worker w has done for r so far.
DoneSoFar(w, r) ==
    /\ pc[w] \in {"mark", "check", "lock", "run", "post"} => posted[r] = 0
    /\ pc[w] = "markFailed" => r \in dlq
    /\ pc[w] = "release" => posted[r] = 1
    /\ pc[w] = "delete" => Ended(r)

\* Without a fault the score of r is posted by the one worker that has r and
\* will delete its message.
OneDelivery(r) ==
    /\ message[r] = "deleted" => Ended(r)
    /\ message[r] # "deleted" /\ ~Busy(r) => posted[r] = 0
    /\ \A w \in Worker : job[w] = r => DoneSoFar(w, r)

ReceiptsHeld ==
    \A w \in Worker : job[w] \in Request \ disturbed => holder[job[w]] = w

EndInv ==
    /\ LockInv
    /\ ReceiptsHeld
    /\ \A r \in Request \ (garbled \cup disturbed) : OneDelivery(r)

\* A step of a worker leaves all other requests alone.
LEMMA OthersStay ==
    ASSUME LockInv, NEW w \in Worker, WorkerStep(w) \/ Crash(w)
    PROVE  /\ job[w] \in Request /\ pc[w] # "poll"
           /\ job'[w] \in {None, job[w]}
           /\ \A v \in Worker \ {w} : pc'[v] = pc[v] /\ job'[v] = job[v]
           /\ disturbed \subseteq disturbed' /\ garbled' = garbled
           /\ \A r \in Request \ {job[w]} :
                 /\ row'[r] = row[r] /\ posted'[r] = posted[r]
                 /\ message'[r] = message[r] /\ holder'[r] = holder[r]
                 /\ r \in dlq' <=> r \in dlq
<1> USE BenchInputs DEF LockInv, TypeOK, NoFault, tableVars, queueVars
<1>1. CASE Mark(w) \/ Lock(w)
  BY <1>1 DEF Mark, Marked, Lock, Goes, SetRow, Fault
<1>2. CASE LookOn(w)
  BY <1>2 DEF LookOn
<1>3. CASE Skip(w) \/ Proceed(w) \/ RunLoadTest(w) \/ GiveUp(w) \/ Crash(w)
  BY <1>3 DEF Skip, Proceed, RunLoadTest, GiveUp, Crash, Goes, Fault
<1>4. CASE PostScore(w)
  BY <1>4 DEF PostScore, Registered, Goes
<1>5. CASE Drop(w)
  BY <1>5 DEF Drop, Goes, Fault
<1>6. CASE MarkFailed(w) \/ Release(w)
  BY <1>6 DEF MarkFailed, Release, Released, Goes, SetRow, Fault
<1>7. CASE Delete(w)
  BY <1>7 DEF Delete, Deleted, Goes, Fault
<1> QED
  BY <1>1, <1>2, <1>3, <1>4, <1>5, <1>6, <1>7 DEF WorkerStep

\* What a step does to the request of its worker, if it is no fault.
LEMMA OwnRequest ==
    ASSUME LockInv, NEW w \in Worker, WorkerStep(w) \/ Crash(w),
           NEW r \in Request, job[w] = r, r \notin disturbed', r \notin garbled,
           holder[r] = w, DoneSoFar(w, r)
    PROVE  \/ /\ job'[w] = r /\ message'[r] = message[r] /\ holder'[r] = w
              /\ DoneSoFar(w, r)'
           \/ job'[w] = None /\ message'[r] = "deleted" /\ Ended(r)'
           \/ job'[w] = None /\ message'[r] = message[r] /\ posted'[r] = 0
<1> USE BenchInputs DEF LockInv, TypeOK, NoFault, tableVars, queueVars, DoneSoFar, Ended
<1>0. pc[w] # "poll"
  BY OthersStay
<1>1. CASE Mark(w) \/ Lock(w)
  BY <1>0, <1>1 DEF Mark, Marked, Lock, Goes, SetRow, Fault
<1>2. CASE LookOn(w)
  BY <1>0, <1>2 DEF LookOn
<1>3. CASE Skip(w) \/ Proceed(w) \/ RunLoadTest(w) \/ GiveUp(w) \/ Crash(w)
  BY <1>0, <1>3 DEF Skip, Proceed, RunLoadTest, GiveUp, Crash, Goes, Fault
<1>4. CASE PostScore(w)
  BY <1>0, <1>4 DEF PostScore, Registered, Goes
<1>5. CASE Drop(w)
  BY <1>0, <1>5 DEF Drop, Goes, Fault
<1>6. CASE MarkFailed(w) \/ Release(w)
  BY <1>0, <1>6 DEF MarkFailed, Release, Released, Goes, SetRow, Fault
<1>7. CASE Delete(w)
  BY <1>0, <1>7 DEF Delete, Deleted, Goes, Fault
<1> QED
  BY <1>1, <1>2, <1>3, <1>4, <1>5, <1>6, <1>7 DEF WorkerStep

LEMMA WorkerKeepsEnd ==
    ASSUME EndInv, LockInv', NEW w \in Worker, WorkerStep(w) \/ Crash(w)
    PROVE  EndInv'
<1>0. PICK mine \in Request : mine = job[w]
  BY OthersStay DEF EndInv
<1>1. /\ mine \in Request /\ job'[w] \in {None, mine}
      /\ \A v \in Worker \ {w} : pc'[v] = pc[v] /\ job'[v] = job[v]
      /\ disturbed \subseteq disturbed' /\ garbled' = garbled
      /\ \A r \in Request \ {mine} :
            /\ row'[r] = row[r] /\ posted'[r] = posted[r]
            /\ message'[r] = message[r] /\ holder'[r] = holder[r]
            /\ r \in dlq' <=> r \in dlq
  BY <1>0, OthersStay DEF EndInv
\* Nobody else has an undisturbed request of w.
<1>2. ASSUME mine \notin disturbed', NEW v \in Worker \ {w}
      PROVE  job[v] # mine
  BY <1>0, <1>1, <1>2 DEF EndInv, LockInv, HeldOnce
<1>3. ASSUME mine \notin disturbed', mine \notin garbled
      PROVE  OneDelivery(mine)' /\ (job'[w] = mine => holder'[mine] = w)
  <2>1. holder[mine] = w /\ DoneSoFar(w, mine) /\ message[mine] = "hidden"
    BY <1>0, <1>1, <1>3 DEF EndInv, ReceiptsHeld, OneDelivery, LockInv, HeldHidden
  <2>2. \A v \in Worker \ {w} : job'[v] # mine
    BY <1>1, <1>2, <1>3
  <2>3. \/ /\ job'[w] = mine /\ message'[mine] = "hidden" /\ holder'[mine] = w
           /\ DoneSoFar(w, mine)'
        \/ job'[w] = None /\ message'[mine] = "deleted" /\ Ended(mine)'
        \/ job'[w] = None /\ message'[mine] = "hidden" /\ posted'[mine] = 0
    BY <1>0, <1>3, <2>1, OwnRequest DEF EndInv
  <2>4. None # mine
    BY <1>1, BenchInputs
  <2> QED
    BY <2>2, <2>3, <2>4 DEF OneDelivery, Busy
<1>4. ASSUME NEW r \in Request \ (garbled' \cup disturbed'), r # mine
      PROVE  OneDelivery(r)'
  <2>1. OneDelivery(r)
    BY <1>1, <1>4 DEF EndInv
  <2>2. \A v \in Worker : job'[v] = r => v # w /\ job[v] = r
    BY <1>1, <1>4, BenchInputs
  <2>3. \A v \in Worker : job[v] = r => v # w /\ job'[v] = r
    BY <1>0, <1>1, <1>4
  <2> QED
    BY <1>1, <1>4, <2>1, <2>2, <2>3 DEF OneDelivery, DoneSoFar, Ended, Busy
<1>5. ReceiptsHeld'
  <2> SUFFICES ASSUME NEW v \in Worker, job'[v] \in Request \ disturbed'
               PROVE  holder'[job'[v]] = v
    BY DEF ReceiptsHeld
  <2>1. CASE v # w
    BY <1>1, <1>2, <2>1 DEF EndInv, ReceiptsHeld
  <2>2. CASE v = w
    <3>1. job'[w] = mine /\ mine \notin disturbed'
      BY <1>1, <2>2, BenchInputs
    <3>2. holder[mine] = w
      BY <1>0, <1>1, <3>1 DEF EndInv, ReceiptsHeld
    <3>3. holder'[mine] = holder[mine]
      BY <3>1, <1>0, <1>1, BenchInputs DEF WorkerStep, Mark, Marked, LookOn, Skip, Proceed,
         Lock, GiveUp, RunLoadTest, PostScore, Drop, MarkFailed, Release, Released,
         Delete, Crash, Goes, queueVars, EndInv, LockInv, TypeOK
    <3> QED
      BY <2>2, <3>1, <3>2, <3>3
  <2> QED
    BY <2>1, <2>2
<1> QED
  BY <1>1, <1>3, <1>4, <1>5 DEF EndInv

LEMMA OutsideKeepsEnd ==
    ASSUME EndInv, LockInv', NEW r \in Request, Submit(r) \/ Reappear(r) \/ HourPasses(r)
    PROVE  EndInv'
<1> USE BenchInputs DEF EndInv, LockInv, TypeOK, NoFault
<1>1. /\ UNCHANGED <<holder, dlq, posted, pc, job>> /\ disturbed \subseteq disturbed'
      /\ garbled \subseteq garbled'
  BY DEF Submit, Reappear, HourPasses, Fault, queueVars
<1>2. ReceiptsHeld'
  BY <1>1 DEF ReceiptsHeld
<1>3. ASSUME NEW q \in Request \ (garbled' \cup disturbed') PROVE OneDelivery(q)'
  <2>1. OneDelivery(q)
    BY <1>1, <1>3
  \* A request that is only now submitted is with nobody.
  <2>2. CASE q = r /\ Submit(r)
    <3>1. message[q] = "none" /\ message'[q] = "visible"
      BY <2>2 DEF Submit
    <3>2. ~Busy(q)
      BY <1>1, <1>3, <3>1 DEF Busy, HeldHidden
    <3> QED
      BY <1>1, <2>1, <3>1, <3>2 DEF OneDelivery, Busy
  <2>3. CASE ~(q = r /\ Submit(r))
    <3>1. row'[q] = row[q] /\ (message'[q] = "deleted" <=> message[q] = "deleted")
      BY <2>3 DEF Submit, Reappear, HourPasses, SetRow, tableVars, queueVars
    <3> QED
      BY <1>1, <2>1, <3>1 DEF OneDelivery, DoneSoFar, Ended, Busy
  <2> QED
    BY <2>2, <2>3
<1> QED
  BY <1>2, <1>3

LEMMA ReceiveKeepsEnd ==
    ASSUME EndInv, LockInv', NEW w \in Worker, NEW r \in Request, Receive(w, r)
    PROVE  EndInv'
<1> USE BenchInputs DEF EndInv, LockInv, TypeOK, NoFault
<1>1. /\ job'[w] = r /\ job[w] = None /\ holder'[r] = w
      /\ \A v \in Worker \ {w} : pc'[v] = pc[v] /\ job'[v] = job[v]
      /\ \A q \in Request \ {r} : message'[q] = message[q] /\ holder'[q] = holder[q]
      /\ message[r] = "visible" /\ message'[r] = "hidden"
      /\ UNCHANGED <<row, posted, dlq, garbled, disturbed>>
      /\ r \notin garbled => pc'[w] = "mark"
  BY DEF Receive, tableVars
<1>2. ASSUME r \notin disturbed PROVE ~Busy(r)
  BY <1>1, <1>2 DEF Busy, HeldHidden
<1>3. ReceiptsHeld'
  <2> SUFFICES ASSUME NEW v \in Worker, job'[v] \in Request \ disturbed'
               PROVE  holder'[job'[v]] = v
    BY DEF ReceiptsHeld
  <2>1. CASE v = w
    BY <1>1, <2>1
  <2>2. CASE v # w
    <3>1. job'[v] = job[v] /\ job[v] # r
      BY <1>1, <1>2, <2>2 DEF Busy
    <3> QED
      BY <1>1, <2>2, <3>1 DEF ReceiptsHeld
  <2> QED
    BY <2>1, <2>2
<1>4. ASSUME NEW q \in Request \ (garbled' \cup disturbed') PROVE OneDelivery(q)'
  <2>1. OneDelivery(q)
    BY <1>1, <1>4
  <2>2. CASE q = r
    <3>1. posted[q] = 0 /\ \A v \in Worker \ {w} : job'[v] # q
      BY <1>1, <1>2, <1>4, <2>1, <2>2 DEF OneDelivery, Busy
    <3> QED
      BY <1>1, <1>4, <2>2, <3>1 DEF OneDelivery, DoneSoFar, Busy
  <2>3. CASE q # r
    <3>1. \A v \in Worker : job'[v] = q <=> job[v] = q
      BY <1>1, <2>3
    <3>2. \A v \in Worker : job[v] = q => v # w
      BY <1>1
    <3> QED
      BY <1>1, <2>1, <2>3, <3>1, <3>2 DEF OneDelivery, DoneSoFar, Ended, Busy
  <2> QED
    BY <2>2, <2>3
<1> QED
  BY <1>3, <1>4

\* Without a fault a message goes only with its work done, once: one score and
\* a finished row, or a failed row and a dead letter.
THEOREM EndsAreClean == Spec => []CleanEnd
<1>1. Init /\ LockInv => EndInv
  BY BenchInputs DEF Init, EndInv, ReceiptsHeld, OneDelivery, DoneSoFar
<1>2. EndInv /\ LockInv /\ LockInv' /\ [Next]_vars => EndInv'
  <2> SUFFICES ASSUME EndInv, LockInv', [Next]_vars PROVE EndInv'
    OBVIOUS
  <2>1. CASE UNCHANGED vars
    BY <2>1 DEF vars, EndInv, ReceiptsHeld, OneDelivery, DoneSoFar, Ended, Busy
  <2> QED
    BY <2>1, WorkerKeepsEnd, OutsideKeepsEnd, ReceiveKeepsEnd DEF Next, EmptyPoll
<1>3. EndInv => CleanEnd
  BY DEF EndInv, OneDelivery, Ended, CleanEnd
<1> QED
  BY <1>1, <1>2, <1>3, LockInvariance, PTL DEF Spec
=============================================================================
