------------------------- MODULE MemoryCacheProofs --------------------------
(***************************************************************************)
(* The cache under its RWMutex is an expiring map, for any callers, keys   *)
(* and values and whatever the callers ask.                                *)
(***************************************************************************)
EXTENDS MemoryCache, TLAPS

LEMMA CacheInvInit == CacheInit => CacheInv
<1>. SUFFICES ASSUME CacheInit PROVE CacheInv
  OBVIOUS
<1>1. CacheTypeOK
  BY DEF CacheInit, CacheTypeOK, Call, GetCall, Thread
<1>2. CallsFit /\ MapIsGuarded /\ DropsAreOver
  BY DEF CacheInit, CallsFit, MapIsGuarded, DropsAreOver, Thread, ReadPc,
         WritePc, Announced, Reading
<1> QED
  BY <1>1, <1>2 DEF CacheInv

LEMMA CacheTypeStep ==
    ASSUME CacheInv, CacheStep \/ Asks
    PROVE  CacheTypeOK'
<1>. USE CacheNames DEF CacheInv, CacheTypeOK, Goes, ReadPc, WritePc, Thread
<1>1. ASSUME NEW t \in Caller, NEW k \in Key, AskGet(t, k) PROVE CacheTypeOK'
  BY <1>1 DEF AskGet, GetCall, Call
<1>2. ASSUME NEW t \in Caller, NEW k \in Key, NEW v \in Value, AskSet(t, k, v)
      PROVE  CacheTypeOK'
  BY <1>2 DEF AskSet, SetCall, Call
<1>3. ASSUME NEW t \in Caller, RLock(t) \/ RUnlock(t) PROVE CacheTypeOK'
  BY <1>3 DEF RLock, RUnlock
<1>4. ASSUME NEW t \in Caller, Look(t) PROVE CacheTypeOK'
  <2>1. call[t] \in Call /\ items[call[t].key] \in Value \cup {NoValue}
    BY DEF Call
  <2>2. [call EXCEPT ![t].value = IF call[t].key \in over
                                  THEN NoValue
                                  ELSE items[call[t].key]] \in [Caller -> Call]
    BY <2>1 DEF Call
  <2> QED
    BY <1>4, <2>2 DEF Look
<1>5. ASSUME NEW t \in Caller, Drop(t) PROVE CacheTypeOK'
  BY <1>5 DEF Drop
<1>6. ASSUME NEW t \in Thread, Lock(t) \/ Drained(t) \/ Unlock(t)
      PROVE  CacheTypeOK'
  BY <1>6 DEF Lock, Drained, Unlock
<1>7. ASSUME NEW t \in Caller, Store(t) PROVE CacheTypeOK'
  BY <1>7 DEF Store, CallsFit, Call
<1>8. CASE Sweep
  BY <1>8 DEF Sweep
<1>9. CASE Tick
  BY <1>9 DEF Tick
<1>10. ASSUME NEW k \in Key, RunOut(k) PROVE CacheTypeOK'
  BY <1>10 DEF RunOut
<1>11. CASE Fatal
  BY <1>11 DEF Fatal
<1> QED
  BY <1>1, <1>2, <1>3, <1>4, <1>5, <1>6, <1>7, <1>8, <1>9, <1>10, <1>11
     DEF CacheStep, Asks, GetStep, WriteStep

LEMMA CallsFitStep ==
    ASSUME CacheInv, CacheStep \/ Asks
    PROVE  CallsFit'
<1>. USE CacheNames DEF CacheInv, CacheTypeOK, CallsFit, Goes, ReadPc, WritePc, Thread
<1>1. ASSUME NEW t \in Caller, NEW k \in Key, AskGet(t, k) PROVE CallsFit'
  BY <1>1 DEF AskGet, GetCall
<1>2. ASSUME NEW t \in Caller, NEW k \in Key, NEW v \in Value, AskSet(t, k, v)
      PROVE  CallsFit'
  BY <1>2 DEF AskSet, SetCall
<1>3. ASSUME NEW t \in Caller, GetStep(t) PROVE CallsFit'
  <2>1. \A s \in Caller : call'[s].op = call[s].op
    BY <1>3 DEF GetStep, RLock, Look, Drop, RUnlock, Call
  <2>2. pc[t] \in ReadPc /\ pc'[t] \in ReadPc \cup {"out"}
    BY <1>3 DEF GetStep, RLock, Look, Drop, RUnlock
  <2>3. \A s \in Thread \ {t} : pc'[s] = pc[s]
    BY <1>3 DEF GetStep, RLock, Look, Drop, RUnlock
  <2>4. \A s \in Caller \ {t} : call'[s] = call[s]
    BY <1>3 DEF GetStep, RLock, Look, Drop, RUnlock
  <2> QED
    BY <2>1, <2>2, <2>3, <2>4
<1>4. ASSUME NEW t \in Thread, Lock(t) \/ Drained(t) \/ Unlock(t) \/ Store(t)
      PROVE  CallsFit'
  BY <1>4 DEF Lock, Drained, Unlock, Store
<1>5. CASE Sweep \/ Tick
  BY <1>5 DEF Sweep, Tick
<1>6. ASSUME NEW k \in Key, RunOut(k) PROVE CallsFit'
  BY <1>6 DEF RunOut
<1>7. CASE Fatal
  BY <1>7 DEF Fatal
<1> QED
  BY <1>1, <1>2, <1>3, <1>4, <1>5, <1>6, <1>7 DEF CacheStep, Asks, WriteStep

\* A step that brings no thread past the lock keeps the lock as it is.
LEMMA GuardedStep ==
    ASSUME CacheInv, CacheStep \/ Asks
    PROVE  MapIsGuarded'
<1>. USE CacheNames DEF CacheInv, CacheTypeOK, Goes, MapIsGuarded, Announced,
                        Reading, Thread, ReadPc, WritePc
<1>1. ASSUME NEW t \in Caller, NEW k \in Key, AskGet(t, k) PROVE MapIsGuarded'
  BY <1>1 DEF AskGet
<1>2. ASSUME NEW t \in Caller, NEW k \in Key, NEW v \in Value, AskSet(t, k, v)
      PROVE  MapIsGuarded'
  BY <1>2 DEF AskSet
<1>3. ASSUME NEW t \in Caller, RLock(t) PROVE MapIsGuarded'
  BY <1>3 DEF RLock
<1>4. ASSUME NEW t \in Caller, Look(t) \/ Drop(t) \/ RUnlock(t)
      PROVE  MapIsGuarded'
  BY <1>4 DEF Look, Drop, RUnlock
<1>5. ASSUME NEW t \in Thread, Lock(t) PROVE MapIsGuarded'
  BY <1>5 DEF Lock
<1>6. ASSUME NEW t \in Thread, Drained(t) PROVE MapIsGuarded'
  BY <1>6 DEF Drained
<1>7. ASSUME NEW t \in Thread, Store(t) \/ (t = Janitor /\ Sweep)
      PROVE  MapIsGuarded'
  BY <1>7 DEF Store, Sweep
<1>8. ASSUME NEW t \in Thread, Unlock(t) PROVE MapIsGuarded'
  BY <1>8 DEF Unlock
<1>9. CASE Tick
  BY <1>9 DEF Tick
<1>10. ASSUME NEW k \in Key, RunOut(k) PROVE MapIsGuarded'
  BY <1>10 DEF RunOut
<1>11. CASE Fatal
  BY <1>11 DEF Fatal
<1> QED
  BY <1>1, <1>2, <1>3, <1>4, <1>5, <1>6, <1>7, <1>8, <1>9, <1>10, <1>11
     DEF CacheStep, Asks, GetStep, WriteStep

\* A write has the map for itself, so what a Get is about to delete stays over.
LEMMA DropsStep ==
    ASSUME CacheInv, CacheStep \/ Asks
    PROVE  DropsAreOver'
<1>. USE CacheNames DEF CacheInv, CacheTypeOK, Goes, DropsAreOver, Thread
<1>1. ASSUME NEW t \in Caller, NEW k \in Key, AskGet(t, k) PROVE DropsAreOver'
  BY <1>1 DEF AskGet
<1>2. ASSUME NEW t \in Caller, NEW k \in Key, NEW v \in Value, AskSet(t, k, v)
      PROVE  DropsAreOver'
  BY <1>2 DEF AskSet
<1>3. ASSUME NEW t \in Caller, RLock(t) \/ RUnlock(t) PROVE DropsAreOver'
  BY <1>3 DEF RLock, RUnlock
<1>4. ASSUME NEW t \in Caller, Look(t) PROVE DropsAreOver'
  <2>1. \A s \in Caller : call'[s].key = call[s].key
    BY <1>4 DEF Look, Call
  <2>2. pc'[t] = "drop" => call[t].key \in over
    BY <1>4 DEF Look
  <2>3. UNCHANGED over /\ \A s \in Caller \ {t} : pc'[s] = pc[s]
    BY <1>4 DEF Look
  <2> QED
    BY <2>1, <2>2, <2>3
<1>5. ASSUME NEW t \in Caller, Drop(t) PROVE DropsAreOver'
  BY <1>5 DEF Drop
<1>6. ASSUME NEW t \in Thread, Lock(t) \/ Drained(t) \/ Unlock(t)
      PROVE  DropsAreOver'
  BY <1>6 DEF Lock, Drained, Unlock
<1>7. ASSUME NEW t \in Thread, Store(t) \/ (t = Janitor /\ Sweep)
      PROVE  DropsAreOver'
  <2>1. \A s \in Caller : pc[s] # "drop"
    BY <1>7 DEF Store, Sweep, MapIsGuarded, Reading
  <2> QED
    BY <1>7, <2>1 DEF Store, Sweep
<1>8. CASE Tick
  BY <1>8 DEF Tick
<1>9. ASSUME NEW k \in Key, RunOut(k) PROVE DropsAreOver'
  BY <1>9 DEF RunOut
<1>10. CASE Fatal
  BY <1>10 DEF Fatal
<1> QED
  BY <1>1, <1>2, <1>3, <1>4, <1>5, <1>6, <1>7, <1>8, <1>9, <1>10
     DEF CacheStep, Asks, GetStep, WriteStep

LEMMA CacheInvStep == CacheInv /\ [CacheStep \/ Asks]_cacheVars => CacheInv'
<1>. SUFFICES ASSUME CacheInv, [CacheStep \/ Asks]_cacheVars PROVE CacheInv'
  OBVIOUS
<1>1. CASE CacheStep \/ Asks
  BY <1>1, CacheTypeStep, CallsFitStep, GuardedStep, DropsStep DEF CacheInv
<1>2. CASE UNCHANGED cacheVars
  BY <1>2 DEF cacheVars, CacheInv, CacheTypeOK, CallsFit, MapIsGuarded,
              DropsAreOver, Announced, Reading
<1> QED
  BY <1>1, <1>2

\* The inductive invariant of the cache.
THEOREM CacheInvariance == CacheSpec => []CacheInv
<1> QED
  BY CacheInvInit, CacheInvStep, PTL DEF CacheSpec

\* Set and the cleanup have the map for themselves, and sleeping readers have a
\* writer that will wake them (RLock, Lock, and the deferred unlocks).
THEOREM CacheGuarded == CacheSpec => []MapIsGuarded
<1> QED
  BY CacheInvariance, PTL DEF CacheInv

LEMMA GuardMeansGets == CacheInv => OnlyGetsCollide
  BY CacheNames DEF CacheInv, CacheTypeOK, CallsFit, MapIsGuarded, OnlyGetsCollide,
                    Collide, Announced, Reading, Thread, ReadPc

\* Overlapping accesses that can end the process are those of two Gets.
THEOREM CacheCollisions == CacheSpec => []OnlyGetsCollide
<1> QED
  BY GuardMeansGets, CacheInvariance, PTL

-----------------------------------------------------------------------------
(* The refinement of ExpiringMap. *)

LEMMA MapInit == CacheInit => Map!Init
<1>. SUFFICES ASSUME CacheInit PROVE Map!Init
  OBVIOUS
<1>1. State = [t \in Caller |-> "out"]
  BY DEF CacheInit, State, Phase, Thread
<1>2. call \in [Caller -> {c \in Map!Call : c.op = "get"}]
  BY DEF CacheInit, Map!Call, GetCall
<1> QED
  BY <1>1, <1>2 DEF CacheInit, Map!Init

LEMMA AskIsAsk ==
    ASSUME CacheInv, NEW t \in Caller, NEW c \in Map!Call,
           call' = [call EXCEPT ![t] = c], UNCHANGED <<items, over>>,
           NEW p \in {"rlock", "lock"}, Goes(t, "out", p)
    PROVE  Map!Ask(t)
<1>. USE DEF CacheInv, CacheTypeOK, Thread
<1>1. State[t] = "out" /\ State' = [State EXCEPT ![t] = "called"]
  BY DEF Goes, State, Phase
<1> QED
  BY <1>1 DEF Map!Ask

LEMMA LookIsGet ==
    ASSUME CacheInv, NEW t \in Caller, Look(t)
    PROVE  Map!Get(t)
<1>. USE DEF CacheInv, CacheTypeOK, Thread
<1>1. call[t].op = "get" /\ call[t].key \in Key
  BY DEF Look, Goes, CallsFit, ReadPc, Call
<1>2. State[t] = "called" /\ State' = [State EXCEPT ![t] = "done"]
  BY DEF Look, Goes, State, Phase
<1> QED
  BY <1>1, <1>2 DEF Look, Map!Get

LEMMA StoreIsSet ==
    ASSUME CacheInv, NEW t \in Caller, Store(t)
    PROVE  Map!Set(t)
<1>. USE DEF CacheInv, CacheTypeOK, Thread
<1>1. call[t].op = "set" /\ call[t].key \in Key
  BY DEF Store, Goes, CallsFit, WritePc, Call
<1>2. State[t] = "called" /\ State' = [State EXCEPT ![t] = "done"]
  BY DEF Store, Goes, State, Phase
<1> QED
  BY <1>1, <1>2 DEF Store, Map!Set

LEMMA UnlockIsReturn ==
    ASSUME CacheInv, NEW t \in Caller, RUnlock(t) \/ Unlock(t)
    PROVE  Map!Return(t)
<1>. USE DEF CacheInv, CacheTypeOK, Thread
<1>1. State[t] = "done" /\ State' = [State EXCEPT ![t] = "out"]
  BY DEF RUnlock, Unlock, Goes, State, Phase
<1>2. UNCHANGED <<items, over, call>>
  BY DEF RUnlock, Unlock
<1> QED
  BY <1>1, <1>2 DEF Map!Return

\* What no caller can see.
LEMMA HiddenInMap ==
    ASSUME CacheInv,
           \/ \E t \in Caller : RLock(t)
           \/ \E t \in Thread : Lock(t) \/ Drained(t)
           \/ Tick \/ Unlock(Janitor) \/ Fatal
    PROVE  UNCHANGED Map!mapVars
<1>. USE CacheNames DEF CacheInv, CacheTypeOK, Thread
<1>1. UNCHANGED <<items, over, call>>
  BY DEF RLock, Lock, Drained, Tick, Unlock, Fatal
<1>2. State' = State
  <2>1. \A s \in Caller : Phase(pc'[s]) = Phase(pc[s])
    BY DEF RLock, Lock, Drained, Tick, Unlock, Fatal, Goes, Phase
  <2> QED
    BY <2>1 DEF State
<1> QED
  BY <1>1, <1>2 DEF Map!mapVars

\* Get's delete and the cleanup forget entries whose time is up, no others.
LEMMA DeletesForget ==
    ASSUME CacheInv, Sweep \/ \E t \in Caller : Drop(t)
    PROVE  Map!Forget
<1>. USE CacheNames DEF CacheInv, CacheTypeOK, Thread
<1>1. UNCHANGED <<over, call>>
  BY DEF Drop, Sweep
<1>2. State' = State
  <2>1. \A s \in Caller : Phase(pc'[s]) = Phase(pc[s])
    BY DEF Drop, Sweep, Goes, Phase
  <2> QED
    BY <2>1 DEF State
<1>3. \E S \in SUBSET over :
         items' = [k \in Key |-> IF k \in S THEN NoValue ELSE items[k]]
  <2>1. CASE Sweep
    BY <2>1 DEF Sweep
  <2>2. ASSUME NEW t \in Caller, Drop(t)
        PROVE  \E S \in SUBSET over :
                 items' = [k \in Key |-> IF k \in S THEN NoValue ELSE items[k]]
    <3>1. {call[t].key} \in SUBSET over /\ call[t].key \in Key
      BY <2>2 DEF Drop, Goes, DropsAreOver, Call
    <3>2. items' = [k \in Key |-> IF k \in {call[t].key} THEN NoValue
                                                         ELSE items[k]]
      BY <2>2 DEF Drop
    <3> QED
      BY <3>1, <3>2
  <2> QED
    BY <2>1, <2>2
<1> QED
  BY <1>1, <1>2, <1>3 DEF Map!Forget

LEMMA RunOutIsRunOut ==
    ASSUME CacheInv, NEW k \in Key, RunOut(k)
    PROVE  Map!RunOut(k)
BY DEF RunOut, State, Map!RunOut

LEMMA CacheStepIsMapStep ==
    ASSUME CacheInv, [CacheStep \/ Asks]_cacheVars
    PROVE  [Map!Next]_(Map!mapVars)
<1>1. ASSUME NEW t \in Caller, NEW k \in Key, AskGet(t, k)
      PROVE  Map!Next
  <2>1. GetCall(k) \in Map!Call
    BY DEF GetCall, Map!Call
  <2> QED
    BY <1>1, <2>1, AskIsAsk DEF AskGet, Map!Next
<1>2. ASSUME NEW t \in Caller, NEW k \in Key, NEW v \in Value, AskSet(t, k, v)
      PROVE  Map!Next
  <2>1. SetCall(k, v) \in Map!Call
    BY DEF SetCall, Map!Call
  <2> QED
    BY <1>2, <2>1, AskIsAsk DEF AskSet, Map!Next
<1>3. ASSUME NEW t \in Caller, GetStep(t) PROVE [Map!Next]_(Map!mapVars)
  BY <1>3, LookIsGet, UnlockIsReturn, HiddenInMap, DeletesForget
     DEF GetStep, Map!Next
<1>4. ASSUME NEW t \in Thread, Lock(t) \/ WriteStep(t)
      PROVE  [Map!Next]_(Map!mapVars)
  BY <1>4, StoreIsSet, UnlockIsReturn, HiddenInMap, DeletesForget
     DEF WriteStep, Map!Next, Thread
<1>5. CASE Tick \/ Fatal
  BY <1>5, HiddenInMap
<1>6. ASSUME NEW k \in Key, RunOut(k) PROVE Map!Next
  BY <1>6, RunOutIsRunOut DEF Map!Next
<1>7. CASE UNCHANGED cacheVars
  BY <1>7 DEF cacheVars, Map!mapVars, State
<1> QED
  BY <1>1, <1>2, <1>3, <1>4, <1>5, <1>6, <1>7 DEF CacheStep, Asks

\* The cache is an expiring map: Get's delete and the cleanup take nothing whose
\* time is not up, and every Get and Set takes effect at one moment.
THEOREM CacheIsAMap == CacheSpec => KeepsAMap
<1> QED
  BY MapInit, CacheStepIsMapStep, CacheInvariance, PTL
     DEF CacheSpec, KeepsAMap, Map!Spec
=============================================================================
