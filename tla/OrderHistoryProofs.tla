------------------------- MODULE OrderHistoryProofs -------------------------
(***************************************************************************)
(* Proofs about OrderHistory, for any users, clients and requests.  What   *)
(* makes the totals safe is that the table only grows: whatever was once   *)
(* counted stays a lower bound, so the proof is about what each step adds  *)
(* to stored, to Told and to the three places a total can be.              *)
(***************************************************************************)
EXTENDS OrderHistory, TLAPS

\* A page is part of the rows found, and leaves none out unless it is full.
LEMMA PageFacts ==
    ASSUME NEW S, NEW n, NEW P \in Pages(S, n)
    PROVE  P \subseteq S /\ (Cardinality(P) = n \/ P = S)
BY DEF Pages

LEMMA InitHolds ==
    ASSUME Init
    PROVE  HistoryInv
BY HistoryInputs DEF Init, HistoryInv, TypeOK, TotalsAreBacked, PageShowsOwnOrders,
   MissesAreFresh, Counted, ListState, CreateState, PatchState

\* A step of a list: the table and the writers stay as they are.
LEMMA ListKeeps ==
    ASSUME HistoryInv, NEW l \in Lister,
           StartList(l) \/ ListStep(l) \/ ListFails(l)
    PROVE  HistoryInv'
<1> USE HistoryInputs DEF HistoryInv, TypeOK, ListGoes, ListState
<1>1. stored' = stored /\ create' = create /\ patch' = patch
  BY DEF StartList, ListStep, ListFails, Hit, Miss, Count, Store, SelectPage
<1>2. /\ \A u \in User : Counted(u)' = Counted(u) /\ Told(u)' = Told(u)
      /\ \A u \in User : Counted(u) \subseteq Order /\ Told(u) \subseteq Counted(u)
      /\ Of[l] \in User
  BY <1>1 DEF Counted, Told
<1>3. CASE StartList(l)
  BY <1>1, <1>2, <1>3 DEF StartList, TotalsAreBacked, PageShowsOwnOrders, MissesAreFresh, Full
<1>4. CASE Hit(l)
  BY <1>1, <1>2, <1>4 DEF Hit, TotalsAreBacked, PageShowsOwnOrders, MissesAreFresh, Full
<1>5. CASE Miss(l)
  BY <1>1, <1>2, <1>5 DEF Miss, TotalsAreBacked, PageShowsOwnOrders, MissesAreFresh, Full
<1>6. CASE Count(l)
  BY <1>1, <1>2, <1>6 DEF Count, TotalsAreBacked, PageShowsOwnOrders, MissesAreFresh, Full
<1>7. CASE Store(l)
  BY <1>1, <1>2, <1>7 DEF Store, TotalsAreBacked, PageShowsOwnOrders, MissesAreFresh, Full
<1>8. CASE SelectPage(l)
  <2>1. PICK P \in Pages(Counted(Of[l]), Size[l]) : found' = [found EXCEPT ![l] = P]
    BY <1>8 DEF SelectPage
  <2>2. P \subseteq Counted(Of[l]) /\ (Cardinality(P) = Size[l] \/ P = Counted(Of[l]))
    BY PageFacts
  <2>3. /\ \A k \in Lister : k # l => found'[k] = found[k] /\ list'[k] = list[k]
        /\ found'[l] = P
        /\ UNCHANGED <<cache, total, floor>>
    BY <1>8, <2>1 DEF SelectPage
  <2>4. TypeOK'
    BY <1>1, <1>2, <1>8, <2>1, <2>2 DEF SelectPage
  <2>5. Full(l)' \/ found'[l] = Counted(Of[l])
    BY <2>2, <2>3 DEF Full
  <2>6. \A k \in Lister : k # l => (Full(k)' <=> Full(k))
    BY <2>3 DEF Full
  <2>7. TotalsAreBacked'
    BY <1>1, <1>2, <2>2, <2>3, <2>5, <2>6 DEF TotalsAreBacked
  <2>8. PageShowsOwnOrders'
    BY <1>2, <2>3, <2>5, <2>6 DEF PageShowsOwnOrders
  <2>9. MissesAreFresh'
    BY <1>8, <2>3 DEF SelectPage, MissesAreFresh
  <2> QED
    BY <1>1, <1>2, <2>3, <2>4, <2>7, <2>8, <2>9
<1>9. CASE ListFails(l)
  BY <1>1, <1>2, <1>9 DEF ListFails, TotalsAreBacked, PageShowsOwnOrders, MissesAreFresh, Full
<1> QED
  BY <1>3, <1>4, <1>5, <1>6, <1>7, <1>8, <1>9 DEF ListStep

\* A step of a create request: the table and what users were told only grow,
\* and the lists and the cache stay as they are.
LEMMA CreateKeeps ==
    ASSUME HistoryInv, NEW c \in Creator,
           StartCreate(c) \/ CreateStep(c) \/ CreateFails(c)
    PROVE  HistoryInv'
<1> USE HistoryInputs DEF HistoryInv, TypeOK, CreateGoes
<1>1. /\ UNCHANGED <<cache, list, total, found, patch, floor>>
      /\ create' \in [Creator -> CreateState]
      /\ \A d \in Creator : d # c => create'[d] = create[d]
      /\ stored \subseteq stored' /\ stored' \subseteq stored \cup {c}
  BY DEF StartCreate, CreateStep, CreateFails, Insert, CommitCreate, AnswerCreate, CreateState
<1>2. /\ create'[c] \in {"idle", "insert", "commit"} => c \notin stored'
      /\ create'[c] \in {"committed", "answered"} => c \in stored'
      /\ create[c] # "answered"
  BY DEF StartCreate, CreateStep, CreateFails, Insert, CommitCreate, AnswerCreate, CreateState
<1>3. \A u \in User : Counted(u) \subseteq Counted(u)' /\ Told(u) \subseteq Told(u)'
  BY <1>1, <1>2 DEF Counted, Told
<1>4. TypeOK'
  BY <1>1
<1>5. TotalsAreBacked'
  BY <1>1, <1>3 DEF TotalsAreBacked, Full
<1>6. PageShowsOwnOrders' /\ MissesAreFresh'
  BY <1>1 DEF PageShowsOwnOrders, MissesAreFresh, Full
<1>7. /\ \A d \in Creator : create'[d] \in {"idle", "insert", "commit"} => d \notin stored'
      /\ \A d \in Creator : create'[d] \in {"committed", "answered"} => d \in stored'
  BY <1>1, <1>2
<1>8. \A l \in Lister : floor'[l] \subseteq Told(Of[l])'
  BY <1>1, <1>3
<1> QED
  BY <1>4, <1>5, <1>6, <1>7, <1>8

\* Losing cache entries harms nothing.
LEMMA OnlyEmptied ==
    ASSUME HistoryInv,
           UNCHANGED <<stored, list, total, found, create, floor>>,
           cache' \in [User -> {None} \cup SUBSET Order],
           \A u \in User : cache'[u] \in {cache[u], None},
           patch' \in [Patcher -> PatchState]
    PROVE  HistoryInv'
<1> USE HistoryInputs DEF HistoryInv, TypeOK
<1>1. /\ \A u \in User : Counted(u)' = Counted(u)
      /\ \A u \in User : Told(u)' = Told(u)
      /\ \A l \in Lister : Of[l] \in User
  BY DEF Counted, Told
<1>2. TotalsAreBacked'
  BY <1>1 DEF TotalsAreBacked, Full
<1> QED
  BY <1>1, <1>2 DEF PageShowsOwnOrders, MissesAreFresh, Full

\* Expiry and status updates only empty the cache.
LEMMA EmptyingKeeps ==
    ASSUME HistoryInv,
           \/ \E u \in User : Expire(u)
           \/ \E p \in Patcher : StartPatch(p) \/ PatchStep(p)
    PROVE  HistoryInv'
<1> USE HistoryInputs DEF HistoryInv, TypeOK
<1> DEFINE Emptied ==
      /\ UNCHANGED <<stored, list, total, found, create, floor>>
      /\ cache' \in [User -> {None} \cup SUBSET Order]
      /\ \A u \in User : cache'[u] \in {cache[u], None}
      /\ patch' \in [Patcher -> PatchState]
<1>1. CASE \E u \in User : Expire(u)
  <2>1. Emptied
    BY <1>1 DEF Expire
  <2> QED
    BY <2>1, OnlyEmptied
<1>2. ASSUME NEW p \in Patcher, StartPatch(p) \/ PatchStep(p)
      PROVE  HistoryInv'
  <2>1. Emptied
    BY <1>2 DEF StartPatch, PatchStep, Update, Invalidate, PatchGoes, PatchState
  <2> QED
    BY <2>1, OnlyEmptied
<1> QED
  BY <1>1, <1>2

\* The inductive invariant holds in every behaviour.
THEOREM HistoryInvariance == Spec => []HistoryInv
<1>1. HistoryInv /\ UNCHANGED vars => HistoryInv'
  BY DEF vars, HistoryInv, TypeOK, TotalsAreBacked, PageShowsOwnOrders, MissesAreFresh,
     Counted, Told, Full
<1>2. HistoryInv /\ [Next]_vars => HistoryInv'
  BY <1>1, ListKeeps, CreateKeeps, EmptyingKeeps DEF Next
<1> QED
  BY InitHolds, <1>2, PTL DEF Spec

\* Every variable keeps its type: a total is a number, never a missing entry.
THEOREM HistoryTypes == Spec => []TypeOK
BY HistoryInvariance, PTL DEF HistoryInv

\* No total, cached or answered, counts an order that is not in the table.
THEOREM TotalsBacked == Spec => []TotalsAreBacked
BY HistoryInvariance, PTL DEF HistoryInv

\* A page with room left shows every order its user was told of before he asked.
THEOREM RoomyPagesComplete == Spec => []PageShowsOwnOrders
BY HistoryInvariance, PTL DEF HistoryInv

\* A total from the database counts every order its user was told of.
THEOREM FreshMisses == Spec => []MissesAreFresh
BY HistoryInvariance, PTL DEF HistoryInv
=============================================================================
