---------------------------- MODULE ExpiringMap -----------------------------
(***************************************************************************)
(* What a cache promises whoever calls it: a map from keys to values whose *)
(* entries are found until their time is up, and may be forgotten only     *)
(* then.  A call takes effect at one moment between being made and         *)
(* returning.                                                              *)
(***************************************************************************)
CONSTANTS Caller, Key, Value, NoValue

VARIABLES
    live,       \* the value of each key, NoValue: none
    over,       \* keys whose time is up: the clock
    asked,      \* the call each caller is in, or the last one with its result
    state       \* "out", "called" or "done"

mapVars == <<live, over, asked, state>>

Call == [op : {"get"}, key : Key, value : {NoValue}]
            \cup [op : {"set"}, key : Key, value : Value]

Init ==
    /\ live = [k \in Key |-> NoValue]
    /\ over = Key
    /\ asked \in [Caller -> {c \in Call : c.op = "get"}]
    /\ state = [t \in Caller |-> "out"]

Ask(t) ==
    /\ state[t] = "out"
    /\ \E c \in Call : asked' = [asked EXCEPT ![t] = c]
    /\ state' = [state EXCEPT ![t] = "called"]
    /\ UNCHANGED <<live, over>>

\* A get finds what the map holds now, unless its time is up.
Get(t) ==
    /\ state[t] = "called" /\ asked[t].op = "get"
    /\ asked' = [asked EXCEPT ![t].value = IF asked[t].key \in over THEN NoValue
                                           ELSE live[asked[t].key]]
    /\ state' = [state EXCEPT ![t] = "done"]
    /\ UNCHANGED <<live, over>>

Set(t) ==
    /\ state[t] = "called" /\ asked[t].op = "set"
    /\ live' = [live EXCEPT ![asked[t].key] = asked[t].value]
    /\ over' = over \ {asked[t].key}
    /\ state' = [state EXCEPT ![t] = "done"]
    /\ UNCHANGED asked

Return(t) ==
    /\ state[t] = "done"
    /\ state' = [state EXCEPT ![t] = "out"]
    /\ UNCHANGED <<live, over, asked>>

\* The clock: the time of the entry under k is up.
RunOut(k) ==
    /\ k \notin over
    /\ over' = over \cup {k}
    /\ UNCHANGED <<live, asked, state>>

\* Some entries are forgotten, none of them before its time.
Forget ==
    /\ \E S \in SUBSET over :
         live' = [k \in Key |-> IF k \in S THEN NoValue ELSE live[k]]
    /\ UNCHANGED <<over, asked, state>>

Next ==
    \/ \E t \in Caller : Ask(t) \/ Get(t) \/ Set(t) \/ Return(t)
    \/ \E k \in Key : RunOut(k)
    \/ Forget

Spec == Init /\ [][Next]_mapVars
=============================================================================
