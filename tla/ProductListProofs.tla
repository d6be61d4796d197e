------------------------- MODULE ProductListProofs --------------------------
(***************************************************************************)
(* The product list on top of the cache: whatever the table, the searches, *)
(* the page sizes and the interleaving of requests.                        *)
(***************************************************************************)
EXTENDS ProductList, MemoryCacheProofs, FiniteSetTheorems

\* The requests are callers of the cache and touch it in no other way.
LEMMA ListStepIsCacheStep ==
    ASSUME ListInv, [Next]_vars
    PROVE  [CacheStep \/ Asks]_cacheVars
<1>1. ASSUME NEW t \in Caller, Ask(t) PROVE Asks
  BY <1>1, ListInputs DEF Ask, CacheKey, Asks
<1>2. ASSUME NEW t \in Caller, Count(t) PROVE Asks
  <2>1. query[t] \in Query
    BY <1>2 DEF Count, At, ListInv, AnswersAreWhole
  <2>2. CacheKey(query[t]) \in Key /\ RowCount(query[t]) \in Value
    BY <2>1, ListInputs DEF CacheKey, RowCount
  <2> QED
    BY <1>2, <2>2 DEF Count, Asks
<1>3. ASSUME NEW t \in Caller, Got(t) \/ SelectPage(t) \/ Answer(t) \/ Fails(t)
      PROVE  UNCHANGED cacheVars
  BY <1>3 DEF Got, SelectPage, Answer, Fails
<1>4. CASE Dead \/ UNCHANGED vars
  BY <1>4 DEF Dead, vars
<1> QED
  BY <1>1, <1>2, <1>3, <1>4 DEF Next, ListStep

LEMMA CountsStep ==
    ASSUME ListInv, [Next]_vars
    PROVE  CountsAreRight'
<1>. USE DEF ListInv, CacheInv, CacheTypeOK, CountsAreRight, Goes, Thread
<1>1. ASSUME NEW t \in Caller, NEW k \in Key, AskGet(t, k)
      PROVE  CountsAreRight'
  BY <1>1 DEF AskGet, GetCall
<1>2. ASSUME NEW t \in Caller, NEW k \in Key, AskSet(t, k, Cardinality(Matches[k]))
      PROVE  CountsAreRight'
  BY <1>2 DEF AskSet, SetCall
<1>3. ASSUME NEW t \in Caller, Ask(t) PROVE CountsAreRight'
  BY <1>1, <1>3, ListInputs DEF Ask, CacheKey
<1>4. ASSUME NEW t \in Caller, Count(t) PROVE CountsAreRight'
  <2>1. query[t].search \in Key
    BY <1>4, ListInputs DEF Count, At, AnswersAreWhole
  <2> QED
    BY <1>2, <1>4, <2>1 DEF Count, CacheKey, RowCount
<1>5. ASSUME NEW t \in Caller, Look(t) PROVE CountsAreRight'
  <2>1. call[t].key \in Key /\ \A s \in Caller : call'[s].key = call[s].key
    BY <1>5 DEF Look, Call
  <2>2. call'[t].value \in {NoValue, Cardinality(Matches[call[t].key])}
    BY <1>5, <2>1 DEF Look, Call
  <2>3. UNCHANGED items /\ \A s \in Caller \ {t} : call'[s] = call[s]
    BY <1>5 DEF Look
  <2> QED
    BY <2>1, <2>2, <2>3
<1>6. ASSUME NEW t \in Caller, Store(t) PROVE CountsAreRight'
  <2>1. call[t].key \in Key /\ call[t].value \in Value
    BY <1>6 DEF Store, Call, CallsFit, WritePc
  <2>2. call[t].value = Cardinality(Matches[call[t].key])
    BY <2>1, CacheNames
  <2> QED
    BY <1>6, <2>1, <2>2 DEF Store
<1>7. ASSUME UNCHANGED call, \A k \in Key : items'[k] \in {NoValue, items[k]}
      PROVE  CountsAreRight'
  BY <1>7
<1>8. ASSUME NEW t \in Caller, Drop(t) PROVE CountsAreRight'
  BY <1>7, <1>8 DEF Drop
<1>9. CASE Sweep
  BY <1>7, <1>9 DEF Sweep
<1>10. ASSUME NEW k \in Key, RunOut(k) PROVE UNCHANGED <<items, call>>
  BY <1>10 DEF RunOut
<1>11. CASE UNCHANGED <<items, call>>
  BY <1>7, <1>11
<1>12. CASE CacheStep
  BY <1>5, <1>6, <1>8, <1>9, <1>10, <1>11, <1>12
     DEF CacheStep, GetStep, WriteStep, RLock, RUnlock, Lock, Drained, Unlock,
         Tick, Fatal
<1>13. ASSUME NEW t \in Caller, Got(t) \/ SelectPage(t) \/ Answer(t) \/ Fails(t)
       PROVE  UNCHANGED <<items, call>>
  BY <1>13 DEF Got, SelectPage, Answer, Fails, cacheVars
<1>14. CASE Dead \/ UNCHANGED vars
  BY <1>11, <1>14 DEF Dead, vars, cacheVars
<1> QED
  BY <1>3, <1>4, <1>11, <1>12, <1>13, <1>14 DEF Next, ListStep

-----------------------------------------------------------------------------
(* Requests. *)

LEMMA RowsAreSequences ==
    ASSUME NEW q \in Query, NEW r \in Rows[q]
    PROVE  /\ r \in Seq(Nat)
           /\ Len(r) = LET left == RowCount(q) - (Page(q) - 1) * Size(q)
                       IN  IF left <= 0 THEN 0
                           ELSE IF left > Size(q) THEN Size(q) ELSE left
<1>. DEFINE M == Matches[q.search]
            n == RowCount(q)
            z == Size(q)
            f == Offset(q)
<1>1. /\ q.search \in Key /\ q.page \in Int /\ q.size \in Int
      /\ M \subseteq Nat /\ n \in Nat
  BY ListInputs, FS_CardinalityType DEF RowCount
<1>2. z \in Nat \ {0} /\ Page(q) - 1 \in Nat
  BY <1>1 DEF Size, Page
<1>3. f \in Nat /\ f = (Page(q) - 1) * Size(q)
  <2>1. \A a, b \in Nat : a * b \in Nat
    OBVIOUS
  <2> QED
    BY <1>2, <2>1 DEF Offset
<1>4. PICK s \in SetToSeqs(M) :
         r = SubSeq(s, f + 1, IF Len(s) < f + z THEN Len(s) ELSE f + z)
  BY DEF Rows
<1>5. s \in Seq(Nat) /\ Len(s) = n
  <2>1. s \in [1 .. n -> M]
    BY DEF SetToSeqs, RowCount
  <2>2. s \in [1 .. n -> Nat]
    BY <1>1, <2>1
  <2> QED
    BY <1>1, <2>2
<1>. HIDE DEF M, n, z, f
<1>. DEFINE e == IF n < f + z THEN n ELSE f + z
<1>6. e \in Nat /\ e <= Len(s) /\ r = SubSeq(s, f + 1, e)
  <2>1. e = IF Len(s) < f + z THEN Len(s) ELSE f + z
    BY <1>5
  <2>2. r = SubSeq(s, f + 1, e)
    BY <1>4, <2>1
  <2>3. e \in Nat /\ e <= n
    BY <1>1, <1>2, <1>3
  <2> QED
    BY <1>5, <2>2, <2>3
<1>. HIDE DEF e
<1>7. r \in Seq(Nat) /\ Len(r) = IF f + 1 <= e THEN e - f ELSE 0
  BY <1>3, <1>5, <1>6
<1>8. Len(r) = IF n - f <= 0 THEN 0 ELSE IF n - f > z THEN z ELSE n - f
  BY <1>1, <1>2, <1>3, <1>7 DEF e
<1> QED
  BY <1>3, <1>7, <1>8 DEF n, z

\* The rows of a listing up to p.
UpTo(q, p) == {o \in Matches[q.search] : Before(q, o, p)}

\* ORDER BY with the product id last leaves no choice: the place of a row is the
\* number of rows that come before it or are it.
LEMMA PlaceInListing ==
    ASSUME NEW q \in Query, NEW r \in Rows[q], NEW i \in DOMAIN r,
           NEW p, r[i] = p
    PROVE  /\ i \in 1 .. Size(q)
           /\ Offset(q) + i = Cardinality(UpTo(q, p))
<1>. DEFINE M == Matches[q.search]
            n == Cardinality(M)
            z == Size(q)
            f == Offset(q)
<1>1. /\ q.search \in Key /\ q.page \in Int /\ q.size \in Int
      /\ M \in SUBSET Nat /\ IsFiniteSet(M) /\ n \in Nat
      /\ \A c \in DOMAIN Column : \A x \in M : Column[c][x] \in Int
  BY ListInputs, FS_CardinalityType
<1>2. z \in Nat \ {0} /\ Page(q) - 1 \in Nat
  BY <1>1 DEF Size, Page
<1>3. f \in Nat
  <2>1. \A a, b \in Nat : a * b \in Nat
    OBVIOUS
  <2> QED
    BY <1>2, <2>1 DEF Offset
<1>4. PICK s \in SetToSeqs(M) :
         /\ r = SubSeq(s, f + 1, IF Len(s) < f + z THEN Len(s) ELSE f + z)
         /\ \A j, k \in DOMAIN s : j < k => Before(q, s[j], s[k])
  BY DEF Rows
<1>5. /\ s \in [1 .. n -> M] /\ s \in Seq(M) /\ Len(s) = n /\ DOMAIN s = 1 .. n
      /\ \A j, k \in 1 .. n : j # k => s[j] # s[k]
  BY <1>1 DEF SetToSeqs
<1>. HIDE DEF n, z, f, M
<1>6. PICK k \in 1 .. n : k = f + i /\ p = s[k] /\ i \in 1 .. z
  <2>. DEFINE e == IF n < f + z THEN n ELSE f + z
  <2>1. e \in Nat /\ e <= n /\ e <= f + z /\ r = SubSeq(s, f + 1, e)
    <3>1. r = SubSeq(s, f + 1, e)
      BY <1>4, <1>5
    <3> QED
      BY <1>1, <1>2, <1>3, <3>1
  <2>. HIDE DEF e
  <2>2. DOMAIN r = 1 .. IF f + 1 <= e THEN e - f ELSE 0
    BY <1>3, <1>5, <2>1
  <2>3. i \in Nat /\ i >= 1 /\ f + i <= e
    BY <1>3, <2>1, <2>2
  <2>4. r[i] = s[f + i]
    BY <1>3, <1>5, <2>1, <2>3
  <2> QED
    BY <1>1, <1>2, <1>3, <2>1, <2>3, <2>4
<1>. DEFINE B == {o \in M : Before(q, o, p)}
<1>7. \A o \in M : \E j \in 1 .. n : s[j] = o
  <2>1. s \in Injection(1 .. n, M)
    BY <1>5 DEF Injection, IsInjective
  <2>2. Cardinality(1 .. n) = n
    BY <1>1, FS_Interval
  <2>3. s \in Surjection(1 .. n, M)
    BY <1>1, <2>1, <2>2, FS_Injection DEF n
  <2> QED
    BY <2>3 DEF Surjection
<1>8. SortField(q) \in DOMAIN Column
  BY ListInputs DEF SortField
<1>9. \A o, u \in M : Before(q, o, u) /\ Before(q, u, o) => o = u
  <2>. SUFFICES ASSUME NEW o \in M, NEW u \in M, Before(q, o, u), Before(q, u, o)
                PROVE  o = u
    OBVIOUS
  <2>1. o \in Nat /\ u \in Nat
    BY <1>1
  <2>2. PICK v : v = Column[SortField(q)]
    OBVIOUS
  <2>3. v[o] \in Int /\ v[u] \in Int
    BY <1>1, <1>8, <2>2
  <2> QED
    BY <2>1, <2>2, <2>3 DEF Before
<1>10. \A j \in 1 .. n : s[j] \in B <=> j <= k
  <2>. SUFFICES ASSUME NEW j \in 1 .. n PROVE Before(q, s[j], s[k]) <=> j <= k
    BY <1>5, <1>6
  <2>1. j \in Nat /\ k \in Nat /\ s[j] \in M /\ s[k] \in M
    BY <1>5
  <2>2. CASE j < k
    BY <1>4, <1>5, <2>1, <2>2
  <2>3. CASE j = k
    <3>1. PICK u \in M : u = s[j] /\ u = s[k]
      BY <2>1, <2>3
    <3>2. u <= u
      BY <1>1
    <3>3. Before(q, u, u)
      BY <3>2 DEF Before
    <3> QED
      BY <2>1, <2>3, <3>1, <3>3
  <2>4. CASE j > k
    <3>1. Before(q, s[k], s[j]) /\ s[j] # s[k]
      BY <1>4, <1>5, <2>1, <2>4
    <3> QED
      BY <1>9, <2>1, <2>4, <3>1
  <2> QED
    BY <2>1, <2>2, <2>3, <2>4
<1>11. Cardinality(B) = k
  <2>. DEFINE h == [j \in 1 .. k |-> s[j]]
  <2>0. \A j \in 1 .. k : j \in 1 .. n /\ j <= k
    BY <1>1
  <2>1. h \in [1 .. k -> B]
    BY <1>10, <2>0
  <2>2. \A j, l \in 1 .. k : h[j] = h[l] => j = l
    BY <1>5, <2>0
  <2>3. \A o \in B : \E j \in 1 .. k : h[j] = o
    <3>. SUFFICES ASSUME NEW o \in B PROVE \E j \in 1 .. k : s[j] = o
      OBVIOUS
    <3>1. PICK j \in 1 .. n : s[j] = o
      BY <1>7
    <3>2. j \in 1 .. k
      BY <1>1, <1>10, <3>1
    <3> QED
      BY <3>1, <3>2
  <2>. HIDE DEF h, B
  <2>4. ExistsBijection(1 .. k, B)
    BY <2>1, <2>2, <2>3 DEF ExistsBijection, Bijection, Injection, Surjection, IsInjective
  <2>5. k \in Nat
    BY <1>1
  <2> QED
    BY <2>4, <2>5, FS_CountingElements
<1>12. B = UpTo(q, p)
  BY Zenon DEF M, UpTo
<1> QED
  BY <1>6, <1>11, <1>12, Zenon DEF f, z

LEMMA ListTypes ==
    ASSUME ListInv, [Next]_vars, CacheTypeOK'
    PROVE  TypeOK'
<1>. USE DEF ListInv, TypeOK, At, To
<1>1. ASSUME NEW t \in Caller, Ask(t) PROVE TypeOK'
  BY <1>1 DEF Ask
<1>2. ASSUME NEW t \in Caller, Got(t) PROVE TypeOK'
  <2>1. call[t].value # NoValue => call[t].value \in Value
    BY DEF CacheTypeOK, Call
  <2> QED
    BY <1>2, <2>1 DEF Got
<1>3. ASSUME NEW t \in Caller, Count(t) PROVE TypeOK'
  <2>1. RowCount(query[t]) \in Value
    BY <1>3, ListInputs DEF Count, AnswersAreWhole, RowCount
  <2> QED
    BY <1>3, <2>1 DEF Count
<1>4. ASSUME NEW t \in Caller, SelectPage(t) PROVE TypeOK'
  <2>1. query[t] \in Query
    BY <1>4 DEF SelectPage, AnswersAreWhole
  <2>2. PICK r \in Rows[query[t]] : found' = [found EXCEPT ![t] = r]
    BY <1>4 DEF SelectPage
  <2>3. r \in Seq(Nat)
    BY <2>1, RowsAreSequences
  <2> QED
    BY <1>4, <2>2, <2>3 DEF SelectPage
<1>5. ASSUME NEW t \in Caller, Fails(t) PROVE TypeOK'
  BY <1>5 DEF Fails
<1>6. ASSUME NEW t \in Caller, Answer(t) PROVE TypeOK'
  <2>1. <<>> \in Seq(Nat)
    OBVIOUS
  <2> QED
    BY <1>6, <2>1, ListInputs DEF Answer
<1>7. CASE UNCHANGED listVars
  BY <1>7 DEF listVars
<1> QED
  BY <1>1, <1>2, <1>3, <1>4, <1>5, <1>6, <1>7 DEF Next, ListStep, Dead, vars

LEMMA AnswersStep ==
    ASSUME ListInv, [Next]_vars
    PROVE  AnswersAreWhole'
<1>. USE DEF ListInv, TypeOK, CacheTypeOK, AnswersAreWhole, At, To, Goes, Thread
<1>1. ASSUME NEW t \in Caller, Ask(t) PROVE AnswersAreWhole'
  BY <1>1 DEF Ask, AskGet, GetCall
<1>2. ASSUME NEW t \in Caller, Got(t) PROVE AnswersAreWhole'
  <2>1. call[t].value # NoValue => call[t].value = RowCount(query[t])
    BY <1>2 DEF Got, CountsAreRight, RowCount, CacheKey
  <2> QED
    BY <1>2, <2>1 DEF Got, cacheVars
<1>3. ASSUME NEW t \in Caller, Count(t) PROVE AnswersAreWhole'
  BY <1>3 DEF Count, AskSet, SetCall
<1>4. ASSUME NEW t \in Caller, SelectPage(t) PROVE AnswersAreWhole'
  BY <1>4 DEF SelectPage, cacheVars
<1>5. ASSUME NEW t \in Caller, Fails(t) \/ Answer(t) PROVE AnswersAreWhole'
  BY <1>5 DEF Fails, Answer, cacheVars
<1>6. CASE CacheStep /\ UNCHANGED listVars
  <2>1. \A s \in Caller : call'[s].key = call[s].key
    <3>1. ASSUME NEW t \in Caller, Look(t)
          PROVE  \A s \in Caller : call'[s].key = call[s].key
      BY <3>1 DEF Look, Call
    <3>2. CASE UNCHANGED call
      BY <3>2
    <3> QED
      BY <1>6, <3>1, <3>2 DEF CacheStep, GetStep, WriteStep, RLock, Drop, RUnlock,
         Lock, Drained, Store, Sweep, Unlock, Tick, RunOut, Fatal
  <2> QED
    BY <1>6, <2>1 DEF listVars
<1>7. CASE Dead \/ UNCHANGED vars
  BY <1>7 DEF Dead, vars, cacheVars, listVars
<1> QED
  BY <1>1, <1>2, <1>3, <1>4, <1>5, <1>6, <1>7 DEF Next, ListStep

LEMMA ListInvInit == Init => ListInv
<1>. SUFFICES ASSUME Init PROVE ListInv
  OBVIOUS
<1>1. CacheInv
  BY CacheInvInit DEF Init
<1>2. TypeOK
  <2>1. <<>> \in Seq(Nat)
    OBVIOUS
  <2> QED
    BY <1>1, <2>1, ListInputs DEF Init, TypeOK, CacheInv
<1>3. CountsAreRight
  BY DEF Init, CacheInit, CountsAreRight, GetCall
<1>4. AnswersAreWhole
  BY DEF Init, AnswersAreWhole
<1> QED
  BY <1>1, <1>2, <1>3, <1>4 DEF ListInv

LEMMA ListInvStep == ListInv /\ [Next]_vars => ListInv'
<1>. SUFFICES ASSUME ListInv, [Next]_vars PROVE ListInv'
  OBVIOUS
<1>1. CacheInv'
  BY ListStepIsCacheStep, CacheInvStep DEF ListInv
<1>2. TypeOK'
  BY <1>1, ListTypes DEF CacheInv
<1> QED
  BY <1>1, <1>2, CountsStep, AnswersStep DEF ListInv

\* The inductive invariant: cached totals are counts of their search, and every
\* request has the total and the rows of what it was asked.
THEOREM ListInvariance == Spec => []ListInv
<1> QED
  BY ListInvInit, ListInvStep, PTL DEF Spec

\* The requests drive the cache as any callers might, so that all that is proved
\* of the cache holds under them.
THEOREM ListUsesTheCache == Spec => CacheSpec
<1>1. Init => CacheInit
  BY DEF Init
<1> QED
  BY <1>1, ListStepIsCacheStep, ListInvariance, PTL DEF Spec, CacheSpec

THEOREM ListKeepsAMap == Spec => KeepsAMap /\ []MapIsGuarded /\ []OnlyGetsCollide
<1> QED
  BY ListUsesTheCache, CacheIsAMap, CacheGuarded, CacheCollisions, PTL

\* Every page of every list has the rows its total leaves for it.
THEOREM RowsAlwaysFit == Spec => []RowsFitTotal
<1>1. ListInv => RowsFitTotal
  <2>. SUFFICES ASSUME ListInv, NEW t \in Caller, step[t] = "ok"
                PROVE  LET q == query[t]
                           left == total[t] - (Page(q) - 1) * Size(q)
                       IN  Len(found[t]) = IF left <= 0 THEN 0
                                           ELSE IF left > Size(q) THEN Size(q)
                                                                  ELSE left
    BY DEF RowsFitTotal
  <2>1. /\ query[t] \in Query /\ total[t] = RowCount(query[t])
        /\ found[t] \in Rows[query[t]]
    BY DEF ListInv, AnswersAreWhole
  <2> QED
    BY <2>1, RowsAreSequences
<1> QED
  BY <1>1, ListInvariance, PTL

\* Pages of one listing share no product, whatever the columns hold, however many
\* prices are equal, and whichever requests were under way when they were asked.
THEOREM PagesNeverOverlap == Spec => []PagesAreDisjoint
<1>1. ListInv => PagesAreDisjoint
  <2>. SUFFICES ASSUME ListInv, NEW s \in Caller, NEW t \in Caller,
                       step[s] = "ok", step[t] = "ok",
                       query[s] = [query[t] EXCEPT !.page = query[s].page],
                       Page(query[s]) # Page(query[t]),
                       NEW i \in DOMAIN found[s], NEW j \in DOMAIN found[t],
                       found[s][i] = found[t][j]
                PROVE  FALSE
    BY DEF PagesAreDisjoint
  <2>1. PICK a \in Query : a = query[s]
    BY DEF ListInv, AnswersAreWhole
  <2>2. PICK b \in Query : b = query[t]
    BY DEF ListInv, AnswersAreWhole
  <2>3. found[s] \in Rows[a] /\ found[t] \in Rows[b]
    BY <2>1, <2>2 DEF ListInv, AnswersAreWhole
  <2>4. /\ a.search = b.search /\ a.size = b.size
        /\ a.field = b.field /\ a.order = b.order
    BY <2>1, <2>2, ListInputs
  <2>5. Size(a) = Size(b) /\ \A o, p : Before(a, o, p) <=> Before(b, o, p)
    BY <2>4, Zenon DEF Size, Before, SortField, Descends
  <2>6. PICK z \in Nat \ {0} : z = Size(a)
    BY ListInputs DEF Size
  <2>7. PICK c \in Nat : c = Page(a) - 1
    BY ListInputs DEF Page
  <2>8. PICK d \in Nat : d = Page(b) - 1
    BY ListInputs DEF Page
  <2>9. i \in 1 .. z /\ j \in 1 .. z /\ Offset(a) + i = Offset(b) + j
    <3>1. PICK r \in Rows[a] : r = found[s]
      BY <2>3
    <3>2. PICK p : r[i] = p /\ i \in DOMAIN r
      BY <3>1
    <3>3. PICK u \in Rows[b] : u = found[t] /\ j \in DOMAIN u /\ u[j] = p
      BY <2>3, <3>1, <3>2
    <3>4. UpTo(a, p) = UpTo(b, p)
      BY <2>4, <2>5, Zenon DEF UpTo
    <3>5. /\ i \in 1 .. Size(a)
          /\ Offset(a) + i = Cardinality(UpTo(a, p))
      BY <3>2, PlaceInListing
    <3>6. /\ j \in 1 .. Size(b)
          /\ Offset(b) + j = Cardinality(UpTo(b, p))
      BY <3>3, PlaceInListing
    <3> QED
      BY <2>5, <2>6, <3>4, <3>5, <3>6
  <2>10. Offset(a) = c * z /\ Offset(b) = d * z
    BY <2>5, <2>6, <2>7, <2>8 DEF Offset
  <2>11. c # d
    BY <2>1, <2>2, <2>7, <2>8, ListInputs DEF Page
  <2>12. \A x, y \in Nat : x < y => x * z + z <= y * z
    <3>. SUFFICES ASSUME NEW x \in Nat, NEW y \in Nat, x < y PROVE x * z + z <= y * z
      OBVIOUS
    <3>1. PICK u \in Nat : y = x + 1 + u
      <4>1. y - x - 1 \in Nat /\ y = x + 1 + (y - x - 1)
        OBVIOUS
      <4> QED
        BY <4>1
    <3>2. y * z = x * z + z + u * z /\ u * z \in Nat /\ x * z \in Nat
      BY <3>1
    <3> QED
      BY <3>2
  <2>13. c * z \in Nat /\ d * z \in Nat
    OBVIOUS
  <2> QED
    BY <2>9, <2>10, <2>11, <2>12, <2>13
<1> QED
  BY <1>1, ListInvariance, PTL
=============================================================================
