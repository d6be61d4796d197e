---------------------------- MODULE ProductList -----------------------------
(***************************************************************************)
(* The list of products: overlapping requests, each for a page of a        *)
(* search, and the count cache they share, thread by thread (MemoryCache). *)
(*                                                                         *)
(* A request takes the total of its search from the cache, or counts it    *)
(* and puts it there, and then selects the rows of its page.  Nothing      *)
(* writes the products table.                                              *)
(***************************************************************************)
EXTENDS MemoryCache, Integers, Sequences, SequencesExt

CONSTANTS
    Matches,    \* product ids that a search finds, by search
    Column,     \* the ranks of the values of each column one may sort by, by
                \* product id; equal values have equal ranks
    Query       \* requests that clients send

NoQuery == [search |-> "none"]

ASSUME ListInputs ==
    /\ Key = DOMAIN Matches
    /\ \A s \in Key : /\ Matches[s] \subseteq Nat /\ IsFiniteSet(Matches[s])
                      /\ Cardinality(Matches[s]) \in Value
    /\ 0 \in Value
    /\ Query \subseteq [search : Key, page : Int, size : Int,
                        field : STRING, order : STRING]
    /\ "product_id" \in DOMAIN Column
    /\ \A s \in Key, c \in DOMAIN Column : \A p \in Matches[s] : Column[c][p] \in Int

VARIABLES
    step,       \* what ListProducts does next in each request
    query,      \* what was asked
    total,      \* the total it answers
    found       \* the rows it answers

listVars == <<step, query, total, found>>
vars == <<cacheVars, listVars>>

-----------------------------------------------------------------------------
(* What a request asks of the database. *)

\* ProductHandler.List: defaults, and the place of the first row.
Page(q) == IF q.page <= 0 THEN 1 ELSE q.page
Size(q) == IF q.size <= 0 THEN 20 ELSE q.size

Offset(q) == (Page(q) - 1) * Size(q)

\* ListProducts: a column it does not know is product_id, and whatever is not
\* "DESC" in capitals (the front end sends "desc") is ascending.
SortField(q)  == IF q.field \in DOMAIN Column THEN q.field ELSE "product_id"
Descends(q)   == q.order = "DESC"

\* generateCountCacheKey: one entry for each search.
BadCacheKey(q) == CHOOSE k \in Key : TRUE        \* one entry for all searches
CacheKey(q) == q.search

RowCount(q) == Cardinality(Matches[q.search])

\* ORDER BY the column only: equal values may come in any order.
BadBefore(q, o, p) == LET v == Column[SortField(q)]
                      IN  IF Descends(q) THEN v[o] >= v[p] ELSE v[o] <= v[p]

\* ORDER BY the column, then product_id: o may come before p.
Before(q, o, p) ==
    LET v == Column[SortField(q)]
    IN  IF v[o] = v[p] THEN o <= p
        ELSE IF Descends(q) THEN v[o] > v[p] ELSE v[o] < v[p]

\* The results SELECT ... ORDER BY ... LIMIT ... OFFSET may have.
Rows[q \in Query] ==
    LET sorted == {s \in SetToSeqs(Matches[q.search]) :
                     \A i, j \in DOMAIN s : i < j => Before(q, s[i], s[j])}
        last(s) == IF Len(s) < Offset(q) + Size(q) THEN Len(s)
                                                   ELSE Offset(q) + Size(q)
    IN  {SubSeq(s, Offset(q) + 1, last(s)) : s \in sorted}

-----------------------------------------------------------------------------
(* A request. *)

Init ==
    /\ CacheInit
    /\ step = [t \in Caller |-> "idle"]
    /\ query = [t \in Caller |-> NoQuery]
    /\ total = [t \in Caller |-> 0]
    /\ found = [t \in Caller |-> <<>>]

\* Between two calls of the cache, or after the last.
At(t, s) == alive /\ step[t] = s /\ pc[t] = "out"
To(t, s) == step' = [step EXCEPT ![t] = s]

\* A request arrives (useEffect of the product page: search, page, size or
\* sorting changed; it does not wait for the answer under way).
Ask(t) ==
    /\ At(t, "idle")
    /\ \E q \in Query : /\ query' = [query EXCEPT ![t] = q]
                        /\ AskGet(t, CacheKey(q))
    /\ To(t, "get")
    /\ UNCHANGED <<total, found>>

\* The cached total, if there is one.
Got(t) ==
    /\ At(t, "get")
    /\ IF call[t].value = NoValue
       THEN To(t, "count") /\ UNCHANGED total
       ELSE To(t, "select") /\ total' = [total EXCEPT ![t] = call[t].value]
    /\ UNCHANGED <<cacheVars, query, found>>

\* SELECT COUNT(*), whose result is put in the cache for 10 s.
Count(t) ==
    /\ At(t, "count")
    /\ total' = [total EXCEPT ![t] = RowCount(query[t])]
    /\ AskSet(t, CacheKey(query[t]), RowCount(query[t]))
    /\ To(t, "select")
    /\ UNCHANGED <<query, found>>

SelectPage(t) ==
    /\ At(t, "select")
    /\ \E r \in Rows[query[t]] : found' = [found EXCEPT ![t] = r]
    /\ To(t, "ok")
    /\ UNCHANGED <<cacheVars, query, total>>

\* Either statement fails.
Fails(t) ==
    /\ At(t, "count") \/ At(t, "select")
    /\ To(t, "err")
    /\ UNCHANGED <<cacheVars, query, total, found>>

\* The handler answers; nothing is left of the request.
Answer(t) ==
    /\ At(t, "ok") \/ At(t, "err")
    /\ To(t, "idle")
    /\ query' = [query EXCEPT ![t] = NoQuery]
    /\ total' = [total EXCEPT ![t] = 0]
    /\ found' = [found EXCEPT ![t] = <<>>]
    /\ UNCHANGED cacheVars

ListStep(t) == Got(t) \/ Count(t) \/ SelectPage(t) \/ Answer(t)

\* The process is gone, with everything under way.
Dead == ~alive /\ UNCHANGED vars

Next ==
    \/ \E t \in Caller : Ask(t) \/ ListStep(t) \/ Fails(t)
    \/ CacheStep /\ UNCHANGED listVars
    \/ Dead

Spec == Init /\ [][Next]_vars

\* Requests go on, and so does the cache; clients ask when they like.
FairSpec == /\ Spec
            /\ CacheFairness
            /\ \A t \in Caller : WF_vars(ListStep(t))

-----------------------------------------------------------------------------
(* Properties. *)

TypeOK ==
    /\ CacheTypeOK
    /\ step \in [Caller -> {"idle", "get", "count", "select", "ok", "err"}]
    /\ query \in [Caller -> Query \cup {NoQuery}]
    /\ total \in [Caller -> Value]
    /\ found \in [Caller -> Seq(Nat)]

\* The total an answer states and the rows it shows fit: page after page holds
\* as many rows as the total leaves for it, wherever the total came from
\* (ListProducts takes it from the cache, the rows from the table).
RowsFitTotal ==
    \A t \in Caller : step[t] = "ok" =>
        LET q == query[t]
            left == total[t] - (Page(q) - 1) * Size(q)
        IN  Len(found[t]) = IF left <= 0 THEN 0
                            ELSE IF left > Size(q) THEN Size(q) ELSE left

\* Two pages of one listing have no product in common: who turns the pages sees
\* every product once.
PagesAreDisjoint ==
    \A s, t \in Caller :
        /\ step[s] = "ok" /\ step[t] = "ok"
        /\ query[s] = [query[t] EXCEPT !.page = query[s].page]
        /\ Page(query[s]) # Page(query[t])
        => \A i \in DOMAIN found[s], j \in DOMAIN found[t] :
               found[s][i] # found[t][j]

\* Why: what is in the cache, or on its way there, is a count of its search.
CountsAreRight ==
    /\ \A k \in Key : items[k] \in {NoValue, Cardinality(Matches[k])}
    /\ \A t \in Caller :
           call[t].value \in {NoValue, Cardinality(Matches[call[t].key])}

AnswersAreWhole ==
    \A t \in Caller : step[t] # "idle" =>
        /\ query[t] \in Query
        /\ call[t].key = CacheKey(query[t])
        /\ step[t] \in {"select", "ok"} => total[t] = RowCount(query[t])
        /\ step[t] = "ok" => found[t] \in Rows[query[t]]

ListInv == TypeOK /\ CacheInv /\ CountsAreRight /\ AnswersAreWhole

\* A list is answered, unless the process died: neither the cache nor its
\* cleanup holds it up for ever.
ListsAreAnswered ==
    \A t \in Caller : []<>(step[t] = "idle" \/ ~alive)
=============================================================================
