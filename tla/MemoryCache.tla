---------------------------- MODULE MemoryCache -----------------------------
(***************************************************************************)
(* The in-process cache of the backend (cache/memory_cache.go): a Go map   *)
(* under a sync.RWMutex, with expiring entries.                            *)
(*                                                                         *)
(* Get, under the read lock, deletes an entry whose time is up.  Set needs *)
(* the lock for itself, and so does the cleanup that NewMemoryCache starts *)
(* and that runs every 30 s for ever.  (Delete has no caller.)             *)
(*                                                                         *)
(* sync.RWMutex is external.  Lock first keeps other writers out and       *)
(* announces itself, which stops new readers, then waits for the readers   *)
(* that are in.  Unlock lets in all readers that were stopped.             *)
(*                                                                         *)
(* Two accesses of a Go map that overlap, one of them a write, are a fatal *)
(* error that ends the process, if the runtime notices it.  The time is    *)
(* not measured: the ExpiresAt of an entry may pass at any moment.         *)
(*                                                                         *)
(* Definitions named Bad... repeat the one that follows with a plausible   *)
(* bug.                                                                    *)
(***************************************************************************)
EXTENDS FiniteSets

CONSTANTS
    Caller,     \* goroutines that call Get and Set
    Janitor,    \* the goroutine of cleanupExpiredItems
    Key, Value,
    NoValue     \* what Get returns with "false"

ASSUME CacheNames == Janitor \notin Caller /\ NoValue \notin Value

Thread == Caller \cup {Janitor}
GetCall(k)    == [op |-> "get", key |-> k, value |-> NoValue]
SetCall(k, v) == [op |-> "set", key |-> k, value |-> v]
Call == [op : {"get", "set"}, key : Key, value : Value \cup {NoValue}]

VARIABLES
    items,      \* the map
    over,       \* keys whose ExpiresAt, as last stored, has passed: the clock
    call,       \* the call a goroutine is in; value: argument or result
    pc,         \* where each goroutine is
    alive       \* the process has not died

cacheVars == <<items, over, call, pc, alive>>

ReadPc  == {"rlock", "asleep", "look", "drop", "runlock"}
WritePc == {"lock", "drain", "write", "unlock"}

CacheTypeOK ==
    /\ items \in [Key -> Value \cup {NoValue}]
    /\ over \subseteq Key
    /\ call \in [Caller -> Call]
    /\ pc \in [Thread -> {"out"} \cup ReadPc \cup WritePc]
    /\ alive \in BOOLEAN

CacheInit ==
    /\ items = [k \in Key |-> NoValue]
    /\ over = Key
    /\ call \in [Caller -> {GetCall(k) : k \in Key}]
    /\ pc = [t \in Thread |-> "out"]
    /\ alive = TRUE

BadReading == {t \in Thread : pc[t] = "look"}       \* unlocked before delete

\* Who holds the read lock.
Reading == {t \in Thread : pc[t] \in {"look", "drop", "runlock"}}

\* Who keeps the other writers and new readers out.
Announced == {t \in Thread : pc[t] \in {"drain", "write", "unlock"}}

\* Overlapping accesses of the map that the Go runtime does not allow.
Collide(s, t) ==
    /\ s # t
    /\ pc[s] \in {"drop", "write"}
    /\ pc[t] \in {"look", "drop", "write"}

Goes(t, from, next) ==
    /\ alive
    /\ pc[t] = from
    /\ pc' = [pc EXCEPT ![t] = next]
    /\ UNCHANGED alive

-----------------------------------------------------------------------------
(* Get. *)

AskGet(t, k) == /\ Goes(t, "out", "rlock")
                /\ call' = [call EXCEPT ![t] = GetCall(k)]
                /\ UNCHANGED <<items, over>>

RLock(t) == /\ Goes(t, "rlock", IF Announced = {} THEN "look" ELSE "asleep")
            /\ UNCHANGED <<items, over, call>>

\* The entry is looked up; one whose time is up is deleted next.
Look(t) ==
    LET k == call[t].key
    IN  /\ Goes(t, "look", IF items[k] # NoValue /\ k \in over THEN "drop"
                                                              ELSE "runlock")
        /\ call' = [call EXCEPT ![t].value = IF k \in over THEN NoValue
                                                           ELSE items[k]]
        /\ UNCHANGED <<items, over>>

Drop(t) == /\ Goes(t, "drop", "runlock")
           /\ items' = [items EXCEPT ![call[t].key] = NoValue]
           /\ UNCHANGED <<over, call>>

\* Bug: no unlock on the way out of a miss.
BadRUnlock(t) == /\ Goes(t, "runlock", "out")
                 /\ call[t].value # NoValue
                 /\ UNCHANGED <<items, over, call>>

RUnlock(t) == /\ Goes(t, "runlock", "out")
              /\ UNCHANGED <<items, over, call>>

-----------------------------------------------------------------------------
(* Set, and the cleanup. *)

AskSet(t, k, v) == /\ Goes(t, "out", "lock")
                   /\ call' = [call EXCEPT ![t] = SetCall(k, v)]
                   /\ UNCHANGED <<items, over>>

\* Bug: cleans up without the lock.
BadTick == /\ Goes(Janitor, "out", "write")
           /\ UNCHANGED <<items, over, call>>

Tick == /\ Goes(Janitor, "out", "lock")
        /\ UNCHANGED <<items, over, call>>

Lock(t) == /\ Announced = {}
           /\ Goes(t, "lock", "drain")
           /\ UNCHANGED <<items, over, call>>

Drained(t) == /\ Reading = {}
              /\ Goes(t, "drain", "write")
              /\ UNCHANGED <<items, over, call>>

\* The write of Set: the new entry replaces the old one, whatever it was.
Store(t) ==
    /\ Goes(t, "write", "unlock")
    /\ items' = [items EXCEPT ![call[t].key] = call[t].value]
    /\ over' = over \ {call[t].key}
    /\ UNCHANGED call

Sweep == /\ Goes(Janitor, "write", "unlock")
         /\ items' = [k \in Key |-> IF k \in over THEN NoValue ELSE items[k]]
         /\ UNCHANGED <<over, call>>

\* Readers that came too late are let in before the next writer.
Unlock(t) ==
    /\ alive
    /\ pc[t] = "unlock"
    /\ pc' = [s \in Thread |-> IF s = t THEN "out"
                               ELSE IF pc[s] = "asleep" THEN "look" ELSE pc[s]]
    /\ UNCHANGED <<items, over, call, alive>>

-----------------------------------------------------------------------------

\* The clock passes the ExpiresAt of what was last stored under k.
RunOut(k) ==
    /\ alive
    /\ k \notin over
    /\ over' = over \cup {k}
    /\ UNCHANGED <<items, call, pc, alive>>

\* "fatal error: concurrent map ...": the runtime noticed.
Fatal ==
    /\ alive
    /\ \E s, t \in Thread : Collide(s, t)
    /\ alive' = FALSE
    /\ UNCHANGED <<items, over, call, pc>>

GetStep(t)   == RLock(t) \/ Look(t) \/ Drop(t) \/ RUnlock(t)
WriteStep(t) == Drained(t) \/ (t # Janitor /\ Store(t)) \/ (t = Janitor /\ Sweep)
                           \/ Unlock(t)

\* What happens inside the cache, without its callers.
CacheStep ==
    \/ \E t \in Caller : GetStep(t)
    \/ \E t \in Thread : Lock(t) \/ WriteStep(t)
    \/ Tick
    \/ \E k \in Key : RunOut(k)
    \/ Fatal

Asks == \E t \in Caller, k \in Key : AskGet(t, k) \/ \E v \in Value : AskSet(t, k, v)

CacheSpec == CacheInit /\ [][CacheStep \/ Asks]_cacheVars

\* Goroutines run; of the writers that wait, each gets in some day (a
\* sync.Mutex hands itself over to who has waited for more than 1 ms).
CacheFairness ==
    /\ \A t \in Caller : WF_cacheVars(GetStep(t) \/ WriteStep(t)) /\ SF_cacheVars(Lock(t))
    /\ WF_cacheVars(WriteStep(Janitor))

-----------------------------------------------------------------------------
(* Properties. *)

\* Set and the cleanup have the map for themselves, and a reader that sleeps
\* has a writer that will wake it: no wake-up is lost.
MapIsGuarded ==
    /\ \A s, t \in Announced : s = t
    /\ \A t \in Thread : pc[t] \in {"write", "unlock"} => Reading = {}
    /\ \A t \in Thread : pc[t] = "asleep" => Announced # {}

\* Only Get's own delete can end the process: it needs two Gets at once, one of
\* which found an entry whose time was up.
OnlyGetsCollide ==
    \A s, t \in Thread : Collide(s, t) => {s, t} \subseteq Caller /\ pc[s] = "drop"

\* Why: calls are where their kind may be, and what Get deletes is over and
\* stays so until it is deleted.
CallsFit ==
    /\ pc[Janitor] \notin ReadPc
    /\ \A t \in Caller : /\ pc[t] \in ReadPc => call[t].op = "get"
                         /\ pc[t] \in WritePc => /\ call[t].op = "set"
                                                  /\ call[t].value \in Value
DropsAreOver == \A t \in Caller : pc[t] = "drop" => call[t].key \in over

CacheInv == CacheTypeOK /\ CallsFit /\ MapIsGuarded /\ DropsAreOver

\* The cache is a map whose entries last until their time is up.  Get's delete
\* under the read lock takes away nothing but an entry whose time is up, never
\* one that a Set has put in its place meanwhile, and the cleanup neither.
Phase(p) == IF p = "out" THEN "out"
            ELSE IF p \in {"drop", "runlock", "unlock"} THEN "done" ELSE "called"

State == [t \in Caller |-> Phase(pc[t])]

Map == INSTANCE ExpiringMap WITH live <- items, asked <- call, state <- State

KeepsAMap == Map!Spec
=============================================================================
