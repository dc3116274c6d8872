---------------------------- MODULE LettaSearch ----------------------------
(* The Letta archival search of services/orchestrator/app.py: its cache of   *)
(* rows, the search with a short time limit, and the background task that    *)
(* repeats a search that ran out of time with a longer limit so that the     *)
(* next one finds its rows cached.                                           *)
(*                                                                           *)
(* Rows are abstracted to the time at which Letta computed them.  The time   *)
(* limit of a request applies to each of its phases, so that a background    *)
(* fetch may go on past the mark that says it is running; overdue records    *)
(* that this happened.                                                       *)
EXTENDS Naturals, Sequences, Functions, FiniteSets

CONSTANTS LettaQueries, Searchers,
          Warmers,        \* slots for background tasks, more than MaxWarms
          LettaTtl,       \* RETRIEVAL_LETTA_CACHE_TTL_SECS
          LettaMaxKeys,   \* RETRIEVAL_LETTA_CACHE_MAX_KEYS
          SearchTimeout,  \* _letta_effective_timeout
          MarkSecs,       \* warm_timeout + 5
          MaxWarms,       \* RETRIEVAL_LETTA_ASYNC_WARM_MAX_INFLIGHT
          MaxLettaTime, MaxSearches       \* bounds

VARIABLES ltime,     \* time.monotonic()
          lcache,    \* letta_search_cache, least recently used first: [query, at, expires]
          marks,     \* letta_search_warm_inflight: query -> when the mark lapses
          fetch,     \* per searcher and warmer: the request it waits for
          age,       \* how old the rows last returned were
          searches, overdue

lettaVars == <<ltime, lcache, marks, fetch, age, searches, overdue>>

NoFetch == [query |-> "none"]
Unread == MaxLettaTime + 1     \* Letta has not computed the rows yet

LettaInit ==
    /\ ltime = 0 /\ lcache = <<>> /\ marks = <<>>
    /\ fetch = [a \in Searchers \union Warmers |-> NoFetch]
    /\ age = 0
    /\ searches = 0 /\ overdue = FALSE

Busy(a) == fetch[a] # NoFetch
KeptAfterExpiry(e) == TRUE

\* letta_search_cache_get pops an entry that has expired.
Live(e) == e.expires > ltime

\* The cache without the query's entry, of which it has one at most.
Drop(cache, q) ==
    IF \E j \in DOMAIN cache : cache[j].query = q
    THEN [i \in 1..(Len(cache) - 1) |-> IF \E j \in 1..i : cache[j].query = q THEN cache[i + 1] ELSE cache[i]]
    ELSE cache

Hit(q) == {e \in Range(lcache) : e.query = q /\ Live(e)}

\* The new entry is the youngest; the eldest ones go when there are too many.
letta_search_cache_set(q, at) ==
    LET put == Append(Drop(lcache, q), [query |-> q, at |-> at, expires |-> ltime + LettaTtl])
    IN  lcache' = IF Len(put) > LettaMaxKeys THEN Tail(put) ELSE put

\* A search is answered from the cache when it can be.
search_cached(s) ==
    /\ ~Busy(s) /\ searches < MaxSearches /\ searches' = searches + 1
    /\ \E q \in LettaQueries : \E e \in Hit(q) :
          /\ age' = ltime - e.at
          /\ lcache' = Append(Drop(lcache, q), e)
    /\ UNCHANGED <<ltime, marks, fetch, overdue>>

\* Otherwise it asks Letta; the entry it missed is gone if it had expired.
search_letta_archival(s) ==
    /\ ~Busy(s) /\ searches < MaxSearches /\ searches' = searches + 1
    /\ \E q \in LettaQueries :
          /\ Hit(q) = {}
          /\ lcache' = Drop(lcache, q)
          /\ fetch' = [fetch EXCEPT ![s] = [query |-> q, since |-> ltime, at |-> Unread]]
    /\ UNCHANGED <<ltime, marks, age, overdue>>

\* Letta computes the rows of a request.
letta_reads(a) ==
    /\ Busy(a) /\ fetch[a].at = Unread
    /\ fetch' = [fetch EXCEPT ![a].at = ltime]
    /\ UNCHANGED <<ltime, lcache, marks, age, searches, overdue>>

\* The rows arrive in time: they are cached and returned.
search_returns(s) ==
    /\ Busy(s) /\ fetch[s].at # Unread
    /\ letta_search_cache_set(fetch[s].query, fetch[s].at)
    /\ age' = ltime - fetch[s].at
    /\ fetch' = [fetch EXCEPT ![s] = NoFetch]
    /\ UNCHANGED <<ltime, marks, searches, overdue>>

\* Any failure other than running out of time: no rows, and nothing scheduled.
search_fails(s) ==
    /\ Busy(s)
    /\ fetch' = [fetch EXCEPT ![s] = NoFetch]
    /\ UNCHANGED <<ltime, lcache, marks, age, searches, overdue>>

WithoutLapsed == [q \in {q \in DOMAIN marks : marks[q] > ltime} |-> marks[q]]
Marked(m, q) == [k \in DOMAIN m \union {q} |-> IF k = q THEN ltime + MarkSecs ELSE m[k]]
Unmarked(q) == [k \in DOMAIN marks \ {q} |-> marks[k]]

\* One background fetch per query, and no more than the limit altogether.
MayWarm(m, q) == q \notin DOMAIN m /\ Cardinality(DOMAIN m) < MaxWarms

\* schedule_letta_search_cache_warm: lapsed marks go, and the query is marked and fetched again
\* unless it is marked already or too many are.
schedule_warm(s, q) ==
    LET m == WithoutLapsed
    IN  \/ /\ ~MayWarm(m, q)
           /\ marks' = m
           /\ fetch' = [fetch EXCEPT ![s] = NoFetch]
        \/ \E w \in Warmers :
           /\ MayWarm(m, q) /\ ~Busy(w)
           /\ marks' = Marked(m, q)
           /\ fetch' = [fetch EXCEPT ![s] = NoFetch,
                                     ![w] = [query |-> q, since |-> ltime, at |-> Unread]]

\* The request ran out of time, or its caller gave up waiting.
search_times_out(s) ==
    /\ Busy(s) /\ ltime - fetch[s].since >= SearchTimeout
    /\ schedule_warm(s, fetch[s].query)
    /\ UNCHANGED <<ltime, lcache, age, searches, overdue>>

\* The background fetch has its rows: they are cached, and the query's mark goes, whoever set it.
warm_completes(w) ==
    /\ Busy(w) /\ fetch[w].at # Unread
    /\ letta_search_cache_set(fetch[w].query, fetch[w].at)
    /\ marks' = Unmarked(fetch[w].query)
    /\ fetch' = [fetch EXCEPT ![w] = NoFetch]
    /\ UNCHANGED <<ltime, age, searches, overdue>>

WarmFailsMarked(w) ==
    /\ Busy(w)
    /\ fetch' = [fetch EXCEPT ![w] = NoFetch]
    /\ UNCHANGED <<ltime, lcache, marks, age, searches, overdue>>

\* It fails: only the mark goes.
warm_fails(w) ==
    /\ Busy(w)
    /\ marks' = Unmarked(fetch[w].query)
    /\ fetch' = [fetch EXCEPT ![w] = NoFetch]
    /\ UNCHANGED <<ltime, lcache, age, searches, overdue>>

\* Time passes; a search never waits past its limit, a background fetch may.
LettaTick ==
    /\ ltime < MaxLettaTime /\ ltime' = ltime + 1
    /\ \A s \in Searchers : Busy(s) => ltime - fetch[s].since < SearchTimeout
    /\ overdue' = (overdue \/ \E w \in Warmers : Busy(w) /\ ltime' - fetch[w].since >= MarkSecs)
    /\ UNCHANGED <<lcache, marks, fetch, age, searches>>

Warming == \E w \in Warmers : warm_completes(w) \/ warm_fails(w)

LettaNext ==
    \/ \E s \in Searchers :
          \/ search_cached(s) \/ search_letta_archival(s) \/ search_returns(s)
          \/ search_fails(s) \/ search_times_out(s)
    \/ \E a \in Searchers \union Warmers : letta_reads(a)
    \/ Warming \/ LettaTick

LettaSpec == LettaInit /\ [][LettaNext]_lettaVars

----------------------------------------------------------------------------
\* As long as no background fetch outlives its mark, the rows a search returns are no older than
\* the cache's lifetime and the longest fetch together, even when a slow fetch is cached after a
\* faster one that was asked later (_letta_search_cache_get, _letta_search_cache_set).
LettaRowsAge ==
    ~overdue => age <= LettaTtl + (IF MarkSecs > SearchTimeout THEN MarkSecs ELSE SearchTimeout)

\* As long as none outlives its mark, there is one background fetch per query and no more than
\* the limit altogether, and the marks are those of the running fetches: searches that time out
\* together do not multiply them, and no mark is left behind to keep its query from being warmed
\* (_schedule_letta_search_cache_warm and the finally of the background task).
WarmsBounded ==
    ~overdue =>
        /\ Cardinality({w \in Warmers : Busy(w)}) <= MaxWarms
        /\ \A v, w \in Warmers : Busy(v) /\ Busy(w) /\ fetch[v].query = fetch[w].query => v = w
        /\ DOMAIN marks = {fetch[w].query : w \in {w \in Warmers : Busy(w)}}

=============================================================================
