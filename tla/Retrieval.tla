------------------------------ MODULE Retrieval ------------------------------
(***************************************************************************)
(* Federated search: POST /memory/search, the recall pipeline behind it,   *)
(* the staged fan-out to the memory services, the pathway cache (process   *)
(* memory backed by Redis), the slow-source policy and the warmer that     *)
(* replays popular searches (services/orchestrator/app.py).                *)
(*                                                                         *)
(* A process of Clients is one /memory/search handler at a time; the       *)
(* Warmer calls federated_search_memory directly.  The event loop runs a   *)
(* coroutine until it waits for a service or Redis (the asyncio locks here *)
(* are never held across an await, so taking one does not suspend): while  *)
(* a process is Running, nothing else moves.  Time is a counter of ticks   *)
(* that stops at the wait_for timeout of every source call.  What the      *)
(* services hold is given by the tick at which each document reached them. *)
(***************************************************************************)
EXTENDS Naturals, FiniteSets, FiniteSetsExt, Sequences, Functions

CONSTANTS
    Clients,          \* concurrent /memory/search handlers
    Warmer,           \* the warmer's background task
    Queries,          \* normalised query texts clients send
    Variants,         \* [Texts -> Seq(Texts)]: the expansion of each text
    Match,            \* [Texts -> SUBSET Docs]: documents a text matches
    Modes,            \* the modes clients ask for, among fast, balanced, deep
    Overrides,        \* source lists clients may send; {} stands for none sent
    FastSources,      \* DEFAULT_RETRIEVAL_FAST_SOURCES
    SlowSources,      \* DEFAULT_RETRIEVAL_SLOW_SOURCES
    Swallowing,       \* sources whose search function turns a failure into []
    Lag,              \* [Sources -> Nat]: how old, in ticks, what a source answers may be
    Docs,             \* result identities
    Strong,           \* documents whose score passes the top-score thresholds
    InitHeld,         \* [Sources -> SUBSET Docs]: what the services hold at first
    Limit,            \* limit a client asks for
    WarmLimit,        \* RETRIEVAL_PATHWAY_WARMER_LIMIT
    MinResults,       \* RETRIEVAL_SLOW_SOURCE_MIN_RESULTS
    MinDiversity,     \* RETRIEVAL_SLOW_SOURCE_MIN_DIVERSITY
    EscalateMin,      \* AGENT_RECALL_ESCALATE_MIN_RESULTS
    MaxSteps,         \* AGENT_RECALL_MAX_ESCALATION_STEPS
    MinRequests,      \* RETRIEVAL_SLOW_SOURCE_STABILITY_MIN_REQUESTS
    Cooldown,         \* RETRIEVAL_SLOW_SOURCE_COOLDOWN_SECS, in ticks
    TTL,              \* RETRIEVAL_PATHWAY_CACHE_TTL_SECS, in ticks
    MaxKeys,          \* RETRIEVAL_PATHWAY_CACHE_MAX_KEYS
    StatsTTL,         \* RETRIEVAL_PATHWAY_STATS_TTL_SECS, in ticks
    StatsMaxKeys,     \* RETRIEVAL_PATHWAY_STATS_MAX_KEYS
    Timeout,          \* wait_for timeout of one source call, in ticks
    MaxTime, MaxCalls, MaxIndexed, MaxReboots   \* bounds of the instance

Sources == FastSources \cup SlowSources
Procs   == Clients \cup {Warmer}
Never   == MaxTime + 1
Texts   == DOMAIN Variants
Depths  == {"fast", "balanced", "deep"}

(* Clients send known texts, modes and sources.  The first variant is the query
   itself (_expand_query_variants, 10896), and the time to live is not 0, which
   would turn the cache off (3506).                                          *)
ASSUME RetrievalAssumption ==
    /\ Queries \subseteq Texts /\ Modes \subseteq Depths /\ Overrides \subseteq SUBSET Sources
    /\ Variants \in [Texts -> Seq(Texts)]
    /\ \A q \in Texts : Len(Variants[q]) > 0 /\ Variants[q][1] = q
    /\ IsFiniteSet(Docs) /\ Match \in [Texts -> SUBSET Docs]
    /\ Limit \in Nat /\ WarmLimit \in Nat /\ MaxTime \in Nat
    /\ MaxKeys \in Nat /\ StatsMaxKeys \in Nat
    /\ Timeout \in Nat /\ TTL \in Nat \ {0} /\ Lag \in [Sources -> Nat]

VARIABLES
    now,       \* time.monotonic()
    since,     \* [Sources -> [Docs -> tick the service got the document]]
    local,     \* retrieval_pathway_cache, oldest entry first
    redis,     \* the entries of the Redis backend
    counts,    \* retrieval_source_{request,error,timeout}_counts, slow sources
    cool,      \* retrieval_slow_source_cooldown_until
    stats,     \* retrieval_pathway_stats, least recently seen first
    proc,      \* [Procs -> the running search, or the answer being sent]
    calls,     \* federated searches begun
    reboots

searchVars == <<now, since, local, redis, counts, cool, stats, proc, calls, reboots>>
-----------------------------------------------------------------------------
(* Choosing the sources and the shape of one federated search. *)

DefaultSources(mode) == IF mode = "fast" THEN FastSources ELSE Sources

(* An empty list counts as none given (`if sources:`). *)
ResolveSources(mode, override) ==
    IF override # {} THEN override ELSE DefaultSources(mode)

ExplicitOverride(mode, override) ==
    override # {} /\ override # DefaultSources(mode)

(* Unclassified sources join the fast stage; both stages must be inhabited
   for the staged fetch to be used.                                       *)
StagedSlow(resolved) == resolved \cap SlowSources
StagedFast(resolved) == resolved \ SlowSources
StagedFetchUsed(resolved) == StagedFast(resolved) # {} /\ StagedSlow(resolved) # {}

(* The identity hashed by _retrieval_pathway_cache_key. *)
PathwayKey(q, limit, mode, resolved) ==
    [query |-> q, limit |-> limit, mode |-> mode, sources |-> resolved]

(* The slow-source policy: lifetime failure rates at or above one half (the
   two thresholds are near it) re-arm the cooldown; a source is degraded
   while its cooldown runs.                                                *)
ThresholdHit(c) == c.requests >= MinRequests
                   /\ (2 * c.timeouts >= c.requests \/ 2 * c.errors >= c.requests)

CooldownAfter(monitored) ==
    [s \in SlowSources |->
        IF s \notin monitored THEN cool[s]
        ELSE IF ThresholdHit(counts[s]) THEN now + Cooldown
        ELSE IF cool[s] > now THEN cool[s] ELSE 0]

(* Results are ranked by score and cut to the limit; documents of equal
   score are ordered by the sources' own order, which is left open.       *)
Ranked(ds, limit) ==
    IF Cardinality(ds) <= limit THEN {ds}
    ELSE {t \in kSubset(limit, ds) : ds \cap Strong \subseteq t \/ t \subseteq Strong}

(* _recall_should_escalate *)
ShouldEscalate(ds, min) == Cardinality(ds) < min \/ ds \cap Strong = {}

NextMode(mode) == IF mode = "fast" THEN "balanced" ELSE "deep"
-----------------------------------------------------------------------------
(* The pathway cache: an OrderedDict with expiry, evicting from the front. *)

(* The dictionary without a key, which it has once at most. *)
Without(cache, k) ==
    IF \E i \in DOMAIN cache : cache[i].key = k
    THEN LET i == CHOOSE i \in DOMAIN cache : cache[i].key = k
         IN  SubSeq(cache, 1, i - 1) \o SubSeq(cache, i + 1, Len(cache))
    ELSE cache

Lookup(cache, k)  == {e \in Range(cache) : e.key = k}

LruPut(cache, e, max) ==
    LET put == Append(Without(cache, e.key), e)
    IN  IF Len(put) > max THEN Tail(put) ELSE put

NoSearch == [pc |-> "idle"]

(* What one federated search hands back: its results, the sources in its
   source_errors, those its warnings name and the slow ones it left out; and,
   for the properties only, the sources that raised while the results were
   computed and those that answered in part without saying so.              *)
Bundles == [docs : SUBSET Docs, failed : SUBSET Sources, warnings : SUBSET Sources,
            skipped : SUBSET Sources, raised : SUBSET Sources, quiet : SUBSET Sources]

SearchInit ==
    /\ now = 0
    /\ since = [s \in Sources |-> [d \in Docs |-> IF d \in InitHeld[s] THEN 0 ELSE Never]]
    /\ local = <<>> /\ redis = {}
    /\ counts = [s \in SlowSources |-> [requests |-> 0, errors |-> 0, timeouts |-> 0]]
    /\ cool = [s \in SlowSources |-> 0]
    /\ stats = <<>>
    /\ proc = [p \in Procs |-> NoSearch]
    /\ calls = 0 /\ reboots = 0
-----------------------------------------------------------------------------
(* Starting a search. *)

(* The coroutine that is not waiting for I/O, and the state of the event loop
   in which there is none.                                                   *)
Running(p) == proc[p].pc \in {"lookup", "store", "hop", "answered"}
Suspended  == \A p \in Procs : ~Running(p)

(* federated_search_memory up to its first lookup: sources, template, policy. *)
Hop(pipe, mode) ==
    LET resolved == ResolveSources(mode, pipe.override)
        explicit == ExplicitOverride(mode, pipe.override)
        cooled   == CooldownAfter(IF explicit THEN {} ELSE StagedSlow(resolved))
        degraded == IF explicit THEN {} ELSE {s \in StagedSlow(resolved) : cooled[s] > now}
    IN  [cooled |-> cooled,
         search |-> [pipe EXCEPT !.pc = "lookup", !.mode = mode, !.hopDocs = {},
                        !.failed = {}, !.warnings = {}, !.raised = {}, !.quiet = {},
                        !.skipped = {},
                        !.key = PathwayKey(Variants[pipe.query][pipe.variant], pipe.limit,
                                           mode, resolved),
                        !.force = mode = "deep" /\ ~explicit /\ degraded = {}]]

Started(q, mode, override, limit) ==
    Hop([pc |-> "idle", query |-> q, override |-> override, limit |-> limit, asked |-> mode,
         began |-> now, mode |-> mode, variant |-> 1, hop |-> 1, key |-> {}, force |-> FALSE,
         t0 |-> 0, pending |-> {}, rows |-> [s \in Sources |-> {}], failed |-> {},
         warnings |-> {}, raised |-> {}, quiet |-> {}, skipped |-> {}, hopDocs |-> {},
         variantDocs |-> {}, docs |-> {}, warned |-> {}, errors |-> {}, down |-> {},
         unsaid |-> {}], mode)

(* search_memory: the handler enters the recall pipeline at its first variant
   and the mode asked for.                                                  *)
search_memory(p, q, mode, override) ==
    /\ proc[p].pc = "idle" /\ p \in Clients
    /\ calls < MaxCalls
    /\ LET h == Started(q, mode, override, Limit)
       IN  proc' = [proc EXCEPT ![p] = h.search] /\ cool' = h.cooled
    /\ calls' = calls + 1
    /\ UNCHANGED <<now, since, local, redis, counts, stats, reboots>>

(* _list_hot_retrieval_pathways drops the entries not seen for the statistics'
   time to live; they are in front, as the last one seen is at the end.      *)
Remembered ==
    LET lapsed == {i \in DOMAIN stats : now - stats[i].seen > StatsTTL}
    IN  SubSeq(stats, Cardinality(lapsed) + 1, Len(stats))

(* _warm_retrieval_pathways_once replays a popular search. *)
warm_retrieval_pathways(e) ==
    /\ proc[Warmer].pc = "idle"
    /\ calls < MaxCalls
    /\ e \in Range(Remembered) /\ stats' = Remembered
    /\ LET h == Started(e.key.query, e.key.mode, e.key.sources, WarmLimit)
       IN  proc' = [proc EXCEPT ![Warmer] = h.search] /\ cool' = h.cooled
    /\ calls' = calls + 1
    /\ UNCHANGED <<now, since, local, redis, counts, reboots>>
-----------------------------------------------------------------------------
(* The cache in front of the services. *)

(* _record_retrieval_pathway_observation; the warmer's runs do not count. *)
Observed(p, k) ==
    IF p = Warmer THEN stats
    ELSE LruPut(stats, [key |-> [k EXCEPT !.limit = 0], seen |-> now], StatsMaxKeys)

(* The search goes on as the pipeline decides with bundle b in hand. *)
Returned(search, b) ==
    [search EXCEPT !.pc = "hop", !.hopDocs = b.docs, !.failed = b.failed,
                   !.warnings = b.warnings, !.skipped = b.skipped,
                   !.raised = b.raised, !.quiet = b.quiet]

(* Mutant: an expired entry is returned. *)
pathway_cache_get_expired(p) ==
    /\ proc[p].pc = "lookup"
    /\ LET k    == proc[p].key
           hits == Lookup(local, k)
       IN  \/ hits = {} /\ proc' = [proc EXCEPT ![p].pc = "backend"] /\ UNCHANGED <<local, stats>>
           \/ \E e \in hits :
                /\ local' = LruPut(local, e, MaxKeys)
                /\ stats' = Observed(p, k)
                /\ proc' = [proc EXCEPT ![p] = Returned(proc[p], e.bundle)]
    /\ UNCHANGED <<now, since, redis, counts, cool, calls, reboots>>

(* _retrieval_pathway_cache_get, process memory: an expired entry is removed,
   a live one is touched and returned.                                      *)
pathway_cache_get(p) ==
    /\ proc[p].pc = "lookup"
    /\ LET k    == proc[p].key
           hits == {e \in Lookup(local, k) : e.expires > now}
       IN  \/ /\ hits = {}
              /\ local' = Without(local, k)
              /\ proc' = [proc EXCEPT ![p].pc = "backend"]
              /\ UNCHANGED stats
           \/ \E e \in hits :
                /\ local' = LruPut(local, e, MaxKeys)
                /\ stats' = Observed(p, k)
                /\ proc' = [proc EXCEPT ![p] = Returned(proc[p], e.bundle)]
    /\ UNCHANGED <<now, since, redis, counts, cool, calls, reboots>>

(* The call to the services starts: one task per source of the first stage. *)
StageStart(search) ==
    LET resolved == search.key.sources
    IN  [search EXCEPT !.pc = "fast", !.t0 = now,
                       !.pending = IF StagedFetchUsed(resolved) THEN StagedFast(resolved) ELSE resolved,
                       !.rows = [s \in Sources |-> {}],
                       !.failed = {}, !.warnings = {}, !.raised = {}, !.quiet = {},
                       !.skipped = {}]

(* The rest of _retrieval_pathway_cache_get: a Redis entry is copied into
   process memory with a time to live of its own; a miss, an error or a
   timeout of Redis goes to the services.                                   *)
pathway_cache_backend_get(p) ==
    /\ proc[p].pc = "backend"
    /\ LET k == proc[p].key
       IN  \/ /\ proc' = [proc EXCEPT ![p] = StageStart(proc[p])]
              /\ UNCHANGED <<local, stats>>
           \/ \E e \in redis :
                /\ e.key = k
                /\ local' = LruPut(local, [e EXCEPT !.expires = now + TTL], MaxKeys)
                /\ stats' = Observed(p, k)
                /\ proc' = [proc EXCEPT ![p] = Returned(proc[p], e.bundle)]
    /\ UNCHANGED <<now, since, redis, counts, cool, calls, reboots>>
-----------------------------------------------------------------------------
(* The services answer, fail or time out. *)

(* _record_retrieval_source_latency *)
Counted(s, err, timedOut) ==
    IF s \notin SlowSources THEN counts
    ELSE [counts EXCEPT ![s] = [requests |-> @.requests + 1,
                                errors   |-> @.errors + (IF err THEN 1 ELSE 0),
                                timeouts |-> @.timeouts + (IF timedOut THEN 1 ELSE 0)]]

Awaiting(p, s) == Suspended /\ proc[p].pc \in {"fast", "slow"} /\ s \in proc[p].pending

(* When wait_for gives up; nothing waits past the end of the instance. *)
Deadline(p) == Min({proc[p].t0 + Timeout, MaxTime})

Held(s, q, t) == {d \in Match[q] : since[s][d] <= t}

(* A source answers with what matches, as it was at most Lag ticks ago:
   search_letta_archival has a cache of its own in front of the service (12613),
   search_memory_bank_lexical the one of the files (12345), and
   search_topic_rollups an index that is rebuilt from time to time.          *)
source_rows(p, s) ==
    /\ Awaiting(p, s)
    /\ \E t \in {t \in 0..now : t + Lag[s] >= now} :
          proc' = [proc EXCEPT ![p] = [proc[p] EXCEPT !.pending = @ \ {s},
                                         !.rows[s] = Held(s, proc[p].key.query, t)]]
    /\ counts' = Counted(s, FALSE, FALSE)
    /\ UNCHANGED <<now, since, local, redis, cool, stats, calls, reboots>>

(* Less than all that matches: search_memory_bank_lexical leaves out projects and
   files that it cannot list or read or has no time for (12304-12350).        *)
Parts(s, q) == SUBSET Held(s, q, now) \ {Held(s, q, now)}

(* A source answers in part and says nothing of it.  search_mongo_raw,
   search_mindsdb_memory and search_letta_archival log a failure and return [];
   search_qdrant asks with a substitute vector when the query cannot be embedded
   (12177).                                                                   *)
source_partial(p, s) ==
    /\ Awaiting(p, s)
    /\ \E ds \in Parts(s, proc[p].key.query) :
          proc' = [proc EXCEPT ![p] = [proc[p] EXCEPT !.pending = @ \ {s}, !.rows[s] = ds,
                                         !.quiet = @ \cup {s}]]
    /\ counts' = Counted(s, FALSE, FALSE)
    /\ UNCHANGED <<now, since, local, redis, cool, stats, calls, reboots>>

(* _run_source_batch with the exception of source s in its hands: an entry of
   source_errors and a warning.                                               *)
Raised(search, s) ==
    [search EXCEPT !.pending = @ \ {s}, !.raised = @ \cup {s},
                   !.failed = @ \cup {s}, !.warnings = @ \cup {s}]

(* A service fails and its search function raises. *)
source_failure(p, s) ==
    /\ Awaiting(p, s) /\ s \notin Swallowing
    /\ proc' = [proc EXCEPT ![p] = Raised(proc[p], s)]
    /\ counts' = Counted(s, TRUE, FALSE)
    /\ UNCHANGED <<now, since, local, redis, cool, stats, calls, reboots>>

(* Mutant: slow sources are called without wait_for. *)
source_timeout_fast(p, s) ==
    /\ Awaiting(p, s) /\ now >= Deadline(p) /\ s \notin SlowSources
    /\ proc' = [proc EXCEPT ![p] = Raised(proc[p], s)]
    /\ counts' = Counted(s, TRUE, TRUE)
    /\ UNCHANGED <<now, since, local, redis, cool, stats, calls, reboots>>

(* wait_for ends the call: OrchestratorError, counted as error and timeout. *)
source_timeout(p, s) ==
    /\ Awaiting(p, s) /\ now >= Deadline(p)
    /\ proc' = [proc EXCEPT ![p] = Raised(proc[p], s)]
    /\ counts' = Counted(s, TRUE, TRUE)
    /\ UNCHANGED <<now, since, local, redis, cool, stats, calls, reboots>>

(* The decision after the fast stage: enough results, from enough sources,
   and either a strong one or twice the limit.                             *)
SkipSlow(search) ==
    LET ds   == UNION {search.rows[s] : s \in Sources}
        need == Max({1, Min({search.limit, MinResults})})
        hit  == {s \in StagedFast(search.key.sources) : search.rows[s] # {}}
    IN  /\ Cardinality(ds) >= need
        /\ Cardinality(hit) >= MinDiversity
        /\ ds \cap Strong # {} \/ Cardinality(ds) >= Max({need, 2 * search.limit})
        /\ ~search.force
        /\ ~ExplicitOverride(search.mode, search.override)

(* The batch is gathered.  The fast stage hands over to the slow one or skips
   it; the last stage merges, ranks and cuts.                               *)
batch_gathered(p) ==
    /\ proc[p].pc \in {"fast", "slow"} /\ proc[p].pending = {}
    /\ LET search == proc[p]
           staged == StagedFetchUsed(search.key.sources)
       IN  \/ /\ search.pc = "fast" /\ staged /\ ~SkipSlow(search)
              /\ proc' = [proc EXCEPT ![p] = [search EXCEPT !.pc = "slow", !.t0 = now,
                                                !.pending = StagedSlow(search.key.sources)]]
           \/ /\ search.pc = "fast" => (staged => SkipSlow(search))
              /\ \E t \in Ranked(UNION {search.rows[s] : s \in Sources}, search.limit) :
                    proc' = [proc EXCEPT ![p] = [search EXCEPT !.pc = "store", !.hopDocs = t, !.t0 = 0,
                               !.rows = [s \in Sources |-> {}],
                               !.skipped = IF search.pc = "fast" /\ staged
                                           THEN StagedSlow(search.key.sources) ELSE {}]]
    /\ UNCHANGED <<now, since, local, redis, counts, cool, stats, calls, reboots>>
-----------------------------------------------------------------------------
(* Storing the bundle, then deciding what the pipeline does with it. *)

BundleOf(search) == [docs |-> search.hopDocs, failed |-> search.failed,
                     warnings |-> search.warnings, skipped |-> search.skipped,
                     raised |-> search.raised, quiet |-> search.quiet]

(* _retrieval_pathway_cache_set, process memory: bundles with failed sources
   are stored as well.                                                      *)
pathway_cache_set(p) ==
    /\ proc[p].pc = "store"
    /\ local' = LruPut(local, [key |-> proc[p].key, expires |-> now + TTL,
                               bundle |-> BundleOf(proc[p])], MaxKeys)
    /\ proc' = [proc EXCEPT ![p].pc = "backup"]
    /\ UNCHANGED <<now, since, redis, counts, cool, stats, calls, reboots>>

(* _retrieval_pathway_cache_backend_set: Redis takes the entry or the write
   fails, which is only counted; then the search is observed.               *)
pathway_cache_backend_set(p) ==
    /\ proc[p].pc = "backup"
    /\ LET e == [key |-> proc[p].key, expires |-> now + TTL, bundle |-> BundleOf(proc[p])]
       IN  redis' \in {redis, {x \in redis : x.key # e.key} \cup {e}}
    /\ proc' = [proc EXCEPT ![p].pc = "hop"]
    /\ stats' = Observed(p, proc[p].key)
    /\ UNCHANGED <<now, since, local, counts, cool, calls, reboots>>

(* Mutant: the warnings of a hop replace those of earlier ones. *)
HopAdded_last(search) ==
    [search EXCEPT !.variantDocs = @ \cup search.hopDocs,
                   !.warned = search.warnings, !.down = @ \cup search.raised,
                   !.unsaid = IF search.variant = 1 THEN @ \cup search.skipped \cup search.quiet
                              ELSE @]

(* What a hop adds to its variant and to the whole search. *)
HopAdded(search) ==
    [search EXCEPT !.variantDocs = @ \cup search.hopDocs,
                   !.warned = @ \cup search.warnings, !.down = @ \cup search.raised,
                   !.unsaid = IF search.variant = 1 THEN @ \cup search.skipped \cup search.quiet
                              ELSE @]

Answered(search, ds) ==
    [pc |-> "answered", query |-> search.query, asked |-> search.asked,
     override |-> search.override, limit |-> search.limit, began |-> search.began,
     docs |-> ds, warned |-> search.warned, errors |-> search.errors, down |-> search.down,
     unsaid |-> search.unsaid, degraded |-> ds = {} \/ search.errors # {}]

(* _run_memory_recall_pipeline, poor results: the same variant is searched in
   the next deeper mode.                                                     *)
escalate(p) ==
    /\ proc[p].pc = "hop" /\ p # Warmer
    /\ ShouldEscalate(proc[p].hopDocs, EscalateMin)
    /\ proc[p].mode # "deep" /\ proc[p].hop < MaxSteps
    /\ LET h == Hop([HopAdded(proc[p]) EXCEPT !.hop = @ + 1], NextMode(proc[p].mode))
       IN  proc' = [proc EXCEPT ![p] = h.search] /\ cool' = h.cooled
    /\ calls' = calls + 1
    /\ UNCHANGED <<now, since, local, redis, counts, stats, reboots>>

(* The variant is finished: its hops are merged; source_errors keeps only what
   its last hop reported.  The first variant ends the search when it is good
   enough; otherwise the next one starts in the mode asked for.  The handler
   answers after the last one.                                               *)
variant_finished(p) ==
    /\ proc[p].pc = "hop" /\ p # Warmer
    /\ \/ ~ShouldEscalate(proc[p].hopDocs, EscalateMin)
       \/ proc[p].mode = "deep" \/ proc[p].hop >= MaxSteps
    /\ \E t \in Ranked(HopAdded(proc[p]).variantDocs, 3 * proc[p].limit) :
         LET search == [HopAdded(proc[p]) EXCEPT !.docs = @ \cup t, !.variantDocs = {},
                                                !.errors = @ \cup proc[p].failed]
             enough == search.variant = 1
                       /\ ~ShouldEscalate(t, Max({1, Min({search.limit, EscalateMin})}))
             last   == search.variant = Len(Variants[search.query])
             h      == Hop([search EXCEPT !.variant = @ + 1, !.hop = 1], search.asked)
         IN  \/ /\ enough \/ last
                /\ \E ds \in Ranked(search.docs, search.limit) :
                      proc' = [proc EXCEPT ![p] = Answered(search, ds)]
                /\ UNCHANGED <<cool, calls>>
             \/ /\ ~enough /\ ~last
                /\ proc' = [proc EXCEPT ![p] = h.search] /\ cool' = h.cooled
                /\ calls' = calls + 1
    /\ UNCHANGED <<now, since, local, redis, counts, stats, reboots>>

(* The handler's response is sent; the warmer ignores its results. *)
finished(p) ==
    /\ proc[p].pc = IF p = Warmer THEN "hop" ELSE "answered"
    /\ proc' = [proc EXCEPT ![p] = NoSearch]
    /\ UNCHANGED <<now, since, local, redis, counts, cool, stats, calls, reboots>>
-----------------------------------------------------------------------------
(* The environment. *)

(* The fanout delivers a document to a service. *)
Index(s, d) ==
    /\ since[s][d] = Never
    /\ Cardinality({x \in Sources \X Docs : /\ x[2] \notin InitHeld[x[1]]
                                            /\ since[x[1]][x[2]] # Never}) < MaxIndexed
    /\ since' = [since EXCEPT ![s][d] = now]
    /\ UNCHANGED <<now, local, redis, counts, cool, stats, proc, calls, reboots>>

(* The orchestrator restarts: everything but Redis and the services is lost. *)
Restart ==
    /\ reboots < MaxReboots
    /\ reboots' = reboots + 1
    /\ local' = <<>> /\ stats' = <<>>
    /\ counts' = [s \in SlowSources |-> [requests |-> 0, errors |-> 0, timeouts |-> 0]]
    /\ cool' = [s \in SlowSources |-> 0]
    /\ proc' = [p \in Procs |-> NoSearch]
    /\ UNCHANGED <<now, since, redis, calls>>

(* Time passes; Redis drops what has expired. *)
Tick ==
    /\ now < MaxTime /\ Suspended
    /\ \A p \in Procs : proc[p].pc # "idle" =>
            proc[p].pending # {} /\ now < Deadline(p)
    /\ now' = now + 1
    /\ redis' = {e \in redis : e.expires > now'}
    /\ UNCHANGED <<since, local, counts, cool, stats, proc, calls, reboots>>

Run(p) ==
    \/ pathway_cache_get(p) \/ pathway_cache_set(p)
    \/ escalate(p) \/ variant_finished(p) \/ finished(p)

Resume(p) ==
    /\ Suspended
    /\ \/ pathway_cache_backend_get(p) \/ batch_gathered(p) \/ pathway_cache_backend_set(p)

Environment ==
    /\ Suspended
    /\ \/ \E p \in Clients, q \in Queries, m \in Modes, o \in Overrides : search_memory(p, q, m, o)
       \/ \E e \in Range(stats) : warm_retrieval_pathways(e)
       \/ \E p \in Procs, s \in Sources : source_rows(p, s) \/ source_partial(p, s)
       \/ \E p \in Procs, s \in Sources : source_failure(p, s) \/ source_timeout(p, s)
       \/ \E s \in Sources, d \in Docs : Index(s, d)
       \/ Restart
       \/ Tick

SearchNext == \/ \E p \in Procs : Run(p) \/ Resume(p)
        \/ Environment

SearchSpec == SearchInit /\ [][SearchNext]_searchVars

(* The event loop runs every ready coroutine, a wait_for timer fires once its
   time has come, and time passes; services need not answer.                *)
Due ==
    \/ \E p \in Procs : Run(p) \/ Resume(p) \/ \E s \in Sources : source_timeout(p, s)
    \/ Tick

-----------------------------------------------------------------------------
(* Properties. *)

Entries == [key : [query : Texts, limit : Nat, mode : Depths, sources : SUBSET Sources],
            expires : Nat, bundle : Bundles]

(* The caches hold well-formed bundles, process memory within its bound, and
   counters, clocks and program counters stay in their ranges.              *)
SearchTypeOK ==
    /\ now \in 0..MaxTime
    /\ since \in [Sources -> [Docs -> 0..Never]]
    /\ local \in Seq(Entries) /\ Len(local) <= MaxKeys
    /\ redis \subseteq Entries
    /\ \A s \in SlowSources : counts[s].errors <= counts[s].requests
                              /\ counts[s].timeouts <= counts[s].errors
    /\ Len(stats) <= StatsMaxKeys
    /\ \A p \in Procs : proc[p].pc \in {"idle", "lookup", "backend", "fast", "slow", "store",
                                        "backup", "hop", "answered"}

(* How old the data behind an answer may be when its search begins: a stage's
   data waits for the two stages of its fetch, is stored in Redis for a time
   to live and, read from there, is kept for another one in process memory.  *)
StaleBound == 2 * (TTL - 1) + 2 * Timeout

(* A document a service of the search has held for longer than StaleBound and
   the service's own lag is in the answer, unless the answer is full, a warning
   names the service, or the service was skipped or answered in part without
   saying so.  So neither cache layer (7 functions around
   _retrieval_pathway_cache_get, 3500) outlives its bound, whatever the order of
   concurrent stores, and a bundle computed while a service raised is never
   served without its warning.                                               *)
FreshOrExplained ==
    \A p \in Clients : proc[p].pc = "answered" =>
        LET a == proc[p]
        IN  \A s \in ResolveSources(a.asked, a.override), d \in Match[a.query] :
              since[s][d] + Lag[s] + StaleBound < a.began =>
                 \/ d \in a.docs \/ Cardinality(a.docs) = a.limit
                 \/ s \in a.warned \/ s \in a.unsaid

(* The warnings of an answer name every source that raised in any hop of any of
   its variants, now or when the bundle a cache gave was computed, and every
   source in its source_errors, which keep the last hops' only and drive its
   degraded flag (13185-13283).                                              *)
ErrorsAreWarned ==
    \A p \in Clients : proc[p].pc = "answered" =>
        proc[p].down \cup proc[p].errors \subseteq proc[p].warned

(* Every search is answered (or lost in a restart) although services and Redis
   may hang or fail: each source call is under wait_for, escalation and query
   expansion are bounded.                                                     *)
SearchesEnd == \A p \in Procs : []<>(proc[p].pc = "idle")
=============================================================================
