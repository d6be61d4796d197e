---------------------------- MODULE OrderHistory ----------------------------
(***************************************************************************)
(* The order history of a user: ListOrders answers a total, which comes    *)
(* from a cache of counts, and a page of rows, which comes from the table. *)
(*                                                                         *)
(* The server's Store has one OrderRepository and with it one cache.       *)
(* ExecTx makes a fresh Store, hence a fresh cache, for every transaction, *)
(* so what CreateBatch invalidates inside CreateOrders is the cache of its *)
(* own transaction; only UpdateOrderStatus works on the shared one.        *)
(*                                                                         *)
(* A total is written as the set of orders it counts: nothing deletes      *)
(* orders, so a smaller number is a smaller set.  Users stand for cache    *)
(* keys, each the key of one user and one search.  The cache forgets an    *)
(* entry after 5 s, that is, at any time; an entry stored in a cache that  *)
(* was just replaced is lost, as if it expired at once.                    *)
(***************************************************************************)
EXTENDS Naturals, FiniteSets

CONSTANTS
    User,
    Lister,     \* clients that send POST /api/v1/orders, again and again
    Creator,    \* POST /api/v1/product/post requests
    Patcher,    \* PATCH /api/robot/orders/status requests
    Order,      \* rows of the orders table, those still to come included
    By,         \* the create request that inserts each of them
    Of,         \* the user of a lister or creator
    Size,       \* page size each lister asks with, 20 if it names none
    None        \* no cache entry

ASSUME HistoryInputs ==
    /\ Of \in [Lister \cup Creator -> User]
    /\ IsFiniteSet(Order)
    /\ By \in [Order -> Creator]
    /\ Size \in [Lister -> Nat \ {0}]
    /\ \A S \in SUBSET Order : S # None

VARIABLES
    stored,     \* committed create requests
    cache,      \* shared count cache: total of each user or None
    list,       \* where each ListOrders is
    total,      \* the total it found
    found,      \* the rows of its page
    create,     \* where each CreateOrders is
    patch,      \* where each UpdateOrderStatus is
    floor       \* history: what the user had been told of when a list began

vars == <<stored, cache, list, total, found, create, patch, floor>>

ListState   == {"idle", "get", "count", "set", "select", "answered", "failed"}
CreateState == {"idle", "insert", "commit", "committed", "answered", "failed"}
PatchState  == {"idle", "update", "invalidate", "done", "failed"}

TypeOK ==
    /\ stored \subseteq Creator
    /\ cache \in [User -> {None} \cup SUBSET Order]
    /\ list \in [Lister -> ListState]
    /\ total \in [Lister -> SUBSET Order]
    /\ found \in [Lister -> SUBSET Order]
    /\ create \in [Creator -> CreateState]
    /\ patch \in [Patcher -> PatchState]
    /\ floor \in [Lister -> SUBSET Order]

Init ==
    /\ stored = {}
    /\ cache = [u \in User |-> None]
    /\ list = [l \in Lister |-> "idle"]
    /\ total = [l \in Lister |-> {}]
    /\ found = [l \in Lister |-> {}]
    /\ create = [c \in Creator |-> "idle"]
    /\ patch = [p \in Patcher |-> "idle"]
    /\ floor = [l \in Lister |-> {}]

-----------------------------------------------------------------------------
(* ListOrders. *)

ListGoes(l, from, to) ==
    /\ list[l] \in from
    /\ list' = [list EXCEPT ![l] = to]
    /\ UNCHANGED <<stored, create, patch>>

\* Orders of u whose request was answered 201.
Told(u) == {o \in Order : Of[By[o]] = u /\ create[By[o]] = "answered"}

StartList(l) ==
    /\ ListGoes(l, {"idle", "answered", "failed"}, "get")
    /\ total' = [total EXCEPT ![l] = {}]
    /\ found' = [found EXCEPT ![l] = {}]
    /\ floor' = [floor EXCEPT ![l] = Told(Of[l])]
    /\ UNCHANGED cache

\* r.cache.Get finds the total.
Hit(l) ==
    /\ cache[Of[l]] # None
    /\ ListGoes(l, {"get"}, "select")
    /\ total' = [total EXCEPT ![l] = cache[Of[l]]]
    /\ UNCHANGED <<cache, found, floor>>

Miss(l) ==
    /\ cache[Of[l]] = None
    /\ ListGoes(l, {"get"}, "count")
    /\ UNCHANGED <<cache, total, found, floor>>

\* Bug: reads uncommitted rows.
BadCounted(u) ==
    {o \in Order : /\ Of[By[o]] = u
                   /\ By[o] \in stored \/ create[By[o]] = "commit"}

\* Both queries see the committed orders of the user.
Counted(u) == {o \in Order : Of[By[o]] = u /\ By[o] \in stored}

Count(l) ==
    /\ ListGoes(l, {"count"}, "set")
    /\ total' = [total EXCEPT ![l] = Counted(Of[l])]
    /\ UNCHANGED <<cache, found, floor>>

\* r.cache.Set, however long ago the count was taken.
Store(l) ==
    /\ ListGoes(l, {"set"}, "select")
    /\ cache' = [cache EXCEPT ![Of[l]] = total[l]]
    /\ UNCHANGED <<total, found, floor>>

\* LIMIT n OFFSET 0 of the orders S: all of them if they fit, else n of them.
\* Which n is the choice of the ORDER BY, left open here.  The offset is 0
\* because the handler computes none from the page number.
Pages(S, n) == IF Cardinality(S) <= n THEN {S}
               ELSE {P \in SUBSET S : Cardinality(P) = n}

\* Bug: asks for no more rows than the total promises.
BadSelectPage(l) ==
    /\ ListGoes(l, {"select"}, "answered")
    /\ \E n \in {Size[l], Cardinality(total[l])} :
         /\ n <= Size[l] /\ n <= Cardinality(total[l])
         /\ \E P \in Pages(Counted(Of[l]), n) : found' = [found EXCEPT ![l] = P]
    /\ UNCHANGED <<cache, total, floor>>

\* The main query, a second statement outside any transaction.
SelectPage(l) ==
    /\ ListGoes(l, {"select"}, "answered")
    /\ \E P \in Pages(Counted(Of[l]), Size[l]) : found' = [found EXCEPT ![l] = P]
    /\ UNCHANGED <<cache, total, floor>>

\* Either query fails or finds its context done.  WithTimeout may answer the
\* client earlier; what is modelled is the goroutine, which still stores its
\* total, and another lister can be the client's next request.
ListFails(l) ==
    /\ ListGoes(l, {"count", "select"}, "failed")
    /\ UNCHANGED <<cache, total, found, floor>>

\* Bug: entries without an end.
BadExpire(u) == FALSE /\ UNCHANGED vars

\* 5 s after Set: Get no longer returns the entry, cleanup drops it.
Expire(u) ==
    /\ cache[u] # None
    /\ cache' = [cache EXCEPT ![u] = None]
    /\ UNCHANGED <<stored, list, total, found, create, patch, floor>>

-----------------------------------------------------------------------------
(* CreateOrders, as far as the history can see it. *)

CreateGoes(c, from, to) ==
    /\ create[c] = from
    /\ create' = [create EXCEPT ![c] = to]
    /\ UNCHANGED <<cache, list, total, found, patch, floor>>

StartCreate(c) == CreateGoes(c, "idle", "insert") /\ UNCHANGED stored

\* CreateBatch: the rows are not committed, and invalidateOrderCountCache
\* replaces the cache of the transaction's own repository.
Insert(c) == CreateGoes(c, "insert", "commit") /\ UNCHANGED stored

\* Bug: no Commit, the deferred Rollback ends the transaction.
BadCommitCreate(c) == CreateGoes(c, "commit", "committed") /\ UNCHANGED stored

CommitCreate(c) ==
    /\ CreateGoes(c, "commit", "committed")
    /\ stored' = stored \cup {c}

AnswerCreate(c) == CreateGoes(c, "committed", "answered") /\ UNCHANGED stored

\* A statement fails, or the reply of COMMIT is lost and nobody knows.
CreateFails(c) ==
    \/ CreateGoes(c, "insert", "failed") /\ UNCHANGED stored
    \/ CreateGoes(c, "commit", "failed") /\ stored' \in {stored, stored \cup {c}}

-----------------------------------------------------------------------------
(* UpdateOrderStatus on the shared repository. *)

PatchGoes(p, from, to) ==
    /\ patch[p] = from
    /\ patch' = [patch EXCEPT ![p] = to]
    /\ UNCHANGED <<stored, list, total, found, create, floor>>

StartPatch(p) == PatchGoes(p, "idle", "update") /\ UNCHANGED cache

\* The UPDATE does not change how many orders a user has.
Update(p) ==
    /\ PatchGoes(p, "update", "invalidate") \/ PatchGoes(p, "update", "failed")
    /\ UNCHANGED cache

\* invalidateOrderCountCache: a new, empty cache takes the place of the old.
Invalidate(p) ==
    /\ PatchGoes(p, "invalidate", "done")
    /\ cache' = [u \in User |-> None]

-----------------------------------------------------------------------------
ListStep(l) == Hit(l) \/ Miss(l) \/ Count(l) \/ Store(l) \/ SelectPage(l)

CreateStep(c) == Insert(c) \/ CommitCreate(c) \/ AnswerCreate(c)

PatchStep(p) == Update(p) \/ Invalidate(p)

Next ==
    \/ \E l \in Lister : StartList(l) \/ ListStep(l) \/ ListFails(l)
    \/ \E c \in Creator : StartCreate(c) \/ CreateStep(c) \/ CreateFails(c)
    \/ \E p \in Patcher : StartPatch(p) \/ PatchStep(p)
    \/ \E u \in User : Expire(u)

Spec == Init /\ [][Next]_vars

\* What has started goes on, and time passes.  Clients ask when they like.
FairSpec ==
    /\ Spec
    /\ \A l \in Lister : WF_vars(ListStep(l))
    /\ \A c \in Creator : WF_vars(CreateStep(c))
    /\ \A p \in Patcher : WF_vars(PatchStep(p))
    /\ \A u \in User : WF_vars(Expire(u))

-----------------------------------------------------------------------------
(* Safety. *)

\* The page of l has no room left.
Full(l) == Cardinality(found[l]) = Size[l]

\* A total never promises rows that the table does not have: neither a cached
\* total nor one on its way into the cache, however old, counts an order that
\* was not committed or is another user's, and the page query that follows
\* finds every order it counts, unless the page is full of the user's orders.
TotalsAreBacked ==
    /\ \A u \in User : cache[u] # None => cache[u] \subseteq Counted(u)
    /\ \A l \in Lister : total[l] \subseteq Counted(Of[l])
    /\ \A l \in Lister : found[l] \subseteq Counted(Of[l])
    /\ \A l \in Lister : list[l] = "answered" => Full(l) \/ total[l] \subseteq found[l]

\* Whatever happens to the total, a page with room on it is never behind the
\* answers the user already has: it shows every order he was told of before he
\* asked.  A stale total, in particular, does not shorten the page.
PageShowsOwnOrders ==
    \A l \in Lister : list[l] = "answered" => Full(l) \/ floor[l] \subseteq found[l]

\* A total that comes from the database counts every order the user was told
\* about before he asked; only a cache hit can be behind.
MissesAreFresh ==
    \A l \in Lister : list[l] = "set" => floor[l] \subseteq total[l]

\* Inductive: the properties above, and the order COMMIT, answer, list, count
\* and page that they rest on.
HistoryInv ==
    /\ TypeOK
    /\ TotalsAreBacked
    /\ PageShowsOwnOrders
    /\ MissesAreFresh
    /\ \A c \in Creator : create[c] \in {"idle", "insert", "commit"} => c \notin stored
    /\ \A c \in Creator : create[c] \in {"committed", "answered"} => c \in stored
    /\ \A l \in Lister : floor[l] \subseteq Told(Of[l])

-----------------------------------------------------------------------------
(* Liveness. *)

\* Clients may go on listing for ever; once the writers rest, the cache stops
\* being wrong: a stale total does not survive by being stored or hit again.
EventuallyFresh ==
    <>[](\A u \in User : cache[u] # None => cache[u] = Counted(u))

-----------------------------------------------------------------------------
(* What a comment says and the code does not do. *)

\* "Orders were created, so the cache is invalidated" (order.go): a list asked
\* for after the 201 answer counts the new orders.
CreatedOrdersAreCounted ==
    \A l \in Lister : list[l] = "answered" => floor[l] \subseteq total[l]
=============================================================================
