--------------------------- MODULE RetrievalProofs ---------------------------
(***************************************************************************)
(* Federated search, for any number of concurrent searches, sources, texts, *)
(* documents, cache sizes and restarts: the age of what an answer is made   *)
(* of is bounded through both caches, every source that raised in a hop of  *)
(* an answer is in its warnings, and the caches keep their bounds.          *)
(***************************************************************************)
EXTENDS Retrieval, FiniteSetTheorems, TLAPS


\* What a running search, a key, a cache entry and an observation look like.
Fields == {"pc", "query", "override", "limit", "asked", "began", "mode", "variant", "hop", "key",
           "force", "t0", "pending", "rows", "failed", "warnings", "raised", "quiet", "skipped",
           "hopDocs", "variantDocs", "docs", "warned", "errors", "down", "unsaid"}
Keys == [query : Texts, limit : Nat, mode : Depths, sources : SUBSET Sources]
Seen == [key : Keys, seen : Nat]

\* The pipeline's part of a running search, that of its current hop, and the whole.
Pipe(x) ==
    /\ DOMAIN x = Fields
    /\ x.query \in Texts /\ x.variant \in 1..Len(Variants[x.query]) /\ x.hop \in Nat \ {0}
    /\ x.asked \in Depths /\ x.mode \in Depths /\ x.override \subseteq Sources
    /\ x.limit \in Nat /\ x.began \in Nat
    /\ x.variantDocs \subseteq Docs /\ x.docs \subseteq Docs
    /\ x.errors \subseteq x.warned /\ x.down \subseteq x.warned
Stage(x) ==
    /\ x.t0 \in Nat /\ x.pending \subseteq Sources /\ x.rows \in [Sources -> SUBSET Docs]
    /\ x.failed \subseteq x.warnings /\ x.raised \subseteq x.warnings /\ x.warnings \subseteq Sources
    /\ x.quiet \subseteq Sources /\ x.skipped \subseteq Sources /\ x.hopDocs \subseteq Docs
Shape(x) ==
    /\ Pipe(x) /\ Stage(x) /\ x.key \in Keys /\ x.key.limit = x.limit
    /\ x.pc \in {"lookup", "backend", "fast", "slow", "store", "backup", "hop"}

\* When a source must answer with a document: its arrival, and the source's lag.
Ripe == [s \in Sources |-> [d \in Docs |-> since[s][d] + Lag[s]]]

\* The warnings of a bundle name what it counts as failed and what raised while it was computed.
Told(b) == b.failed \subseteq b.warnings /\ b.raised \subseteq b.warnings

\* Bundle b has, or explains why it has not, what matched key k and was held slack before t.
Covers(b, k, t, slack, h) ==
    \A s \in k.sources, d \in Match[k.query] : h[s][d] + slack < t =>
        d \in b.docs \/ Cardinality(b.docs) = k.limit \/ s \in b.warnings \cup b.skipped \cup b.quiet

\* The first hop of the first variant searches what the answer is about.
First(x) == x.variant = 1 /\ x.hop = 1

\* ds, or what the search reports, accounts for what was held StaleBound before the search began.
Kept(x, ds, h) ==
    \A s \in ResolveSources(x.asked, x.override), d \in Match[x.query] :
        h[s][d] + StaleBound < x.began =>
            d \in ds \/ x.limit <= Cardinality(ds) \/ s \in x.warned \/ s \in x.unsaid

\* A search waits on a stage no longer than its timeout, and otherwise stands still.
Timed(x, n) ==
    /\ x.began <= n
    /\ x.pc \in {"fast", "slow"} => x.t0 <= n /\ n <= x.t0 + Timeout
    /\ x.pc \notin {"fast", "slow"} => x.pending = {}

\* The stages have, await or report what their sources held when the first of them began.
Fetched(x, s, d) == d \in x.rows[s] \/ s \in x.warnings \/ s \in x.quiet \/ s \in x.pending
Later(x, s) == StagedFetchUsed(x.key.sources) /\ s \in SlowSources
FastHolds(x, h) ==
    x.pc = "fast" => \A s \in x.key.sources, d \in Match[x.key.query] :
        h[s][d] < x.t0 => Fetched(x, s, d) \/ Later(x, s)
SlowHolds(x, h) ==
    x.pc = "slow" => \A s \in x.key.sources, d \in Match[x.key.query] :
        h[s][d] + Timeout < x.t0 => Fetched(x, s, d)
StoreHolds(x, n, h) ==
    x.pc \in {"store", "backup"} => Covers(BundleOf(x), x.key, n, 2 * Timeout, h)

FirstHolds(x, n, h) ==
    First(x) =>
        /\ x.key = PathwayKey(x.query, x.limit, x.asked, ResolveSources(x.asked, x.override))
        /\ x.pc \in {"lookup", "backend"} => n = x.began
        /\ x.pc = "hop" => Covers(BundleOf(x), x.key, x.began, StaleBound, h)
NextHolds(x, h) ==
    ~First(x) => Kept(x, IF x.variant = 1 THEN x.variantDocs ELSE x.docs, h)

SearchHolds(x, n, h) ==
    /\ Shape(x) /\ Timed(x, n)
    /\ FastHolds(x, h) /\ SlowHolds(x, h) /\ StoreHolds(x, n, h) /\ FirstHolds(x, n, h) /\ NextHolds(x, h)

AnswerHolds(x, n, h) ==
    /\ x.pc = "answered" /\ x.errors \subseteq x.warned /\ x.down \subseteq x.warned
    /\ \A s \in ResolveSources(x.asked, x.override), d \in Match[x.query] :
          h[s][d] + StaleBound < x.began =>
             d \in x.docs \/ Cardinality(x.docs) = x.limit \/ s \in x.warned \/ s \in x.unsaid
    /\ x.began <= n /\ x.began \in Nat /\ x.query \in Texts /\ x.override \subseteq Sources

ProcHolds(x, n, h) == x.pc = "idle" \/ SearchHolds(x, n, h) \/ AnswerHolds(x, n, h)

\* An entry's expiry bounds the age of what it has.
LocalHolds(e, n, h) ==
    /\ e.expires <= n + TTL /\ Told(e.bundle)
    /\ Covers(e.bundle, e.key, e.expires, 2 * TTL - 1 + 2 * Timeout, h)
RedisHolds(e, n, h) ==
    /\ n < e.expires /\ e.expires <= n + TTL /\ Told(e.bundle)
    /\ Covers(e.bundle, e.key, e.expires, TTL + 2 * Timeout, h)

RTypes ==
    /\ now \in 0..MaxTime /\ since \in [Sources -> [Docs -> 0..Never]]
    /\ local \in Seq(Entries) /\ redis \subseteq Entries /\ stats \in Seq(Seen)
    /\ DOMAIN proc = Procs

RInv ==
    /\ RTypes
    /\ \A i \in DOMAIN local : LocalHolds(local[i], now, Ripe)
    /\ \A e \in redis : RedisHolds(e, now, Ripe)
    /\ \A p \in Procs : ProcHolds(proc[p], now, Ripe)

\* The time to live and the source timeout are times, and StaleBound covers two stages of a fetch.
LEMMA Times ==
    /\ TTL \in Nat /\ TTL >= 1 /\ Timeout \in Nat
    /\ StaleBound = 2 * (TTL - 1) + 2 * Timeout /\ StaleBound \in Nat /\ StaleBound >= 2 * Timeout
  BY RetrievalAssumption DEF StaleBound

\* The times of Ripe.
LEMMA RipeFacts ==
    ASSUME RTypes, NEW s \in Sources, NEW d \in Docs
    PROVE  since[s][d] \in Nat /\ Lag[s] \in Nat /\ Ripe[s][d] = since[s][d] + Lag[s] /\ Ripe[s][d] \in Nat
  <1>1. since[s][d] \in Nat /\ Lag[s] \in Nat
    BY RetrievalAssumption DEF RTypes, Never
  <1>2. Ripe[s][d] = since[s][d] + Lag[s]
    BY Zenon DEF Ripe
  <1> QED  BY <1>1, <1>2

\* Nothing arrives, so nothing ripens.
LEMMA RipeStays == ASSUME UNCHANGED since PROVE Ripe' = Ripe
  BY Zenon DEF Ripe

\* A pathway key names known sources and a known text, so its documents have a time of arrival.
LEMMA KeyFacts ==
    ASSUME RTypes, NEW k \in Keys
    PROVE  /\ k.sources \subseteq Sources /\ k.query \in Texts /\ Match[k.query] \subseteq Docs
           /\ \A s \in k.sources, d \in Match[k.query] : Ripe[s][d] \in Nat
  <1>1. k.sources \subseteq Sources /\ k.query \in Texts /\ Match[k.query] \subseteq Docs
    BY RetrievalAssumption DEF Keys
  <1>2. \A s \in Sources, d \in Docs : Ripe[s][d] \in Nat
    BY RipeFacts
  <1> QED  BY <1>1, <1>2

\* A bundle that covers what was held slack before t covers it for an earlier time or a larger slack.
LEMMA CoversLess ==
    ASSUME RTypes, NEW k \in Keys, NEW b, NEW t \in Nat, NEW u \in Nat, NEW slack \in Nat,
           NEW more \in Nat, Covers(b, k, t, slack, Ripe), u + slack <= t + more
    PROVE  Covers(b, k, u, more, Ripe)
  <1>1. \A n \in Nat : n + more < u => n + slack < t
    OBVIOUS
  <1> QED  BY <1>1, KeyFacts DEF Covers

\* _resolve_retrieval_sources yields known sources.
LEMMA ResolveFacts ==
    ASSUME NEW m, NEW o \in SUBSET Sources
    PROVE  ResolveSources(m, o) \subseteq Sources
  BY DEF ResolveSources, DefaultSources, Sources

-----------------------------------------------------------------------------
(* Starting a federated search *)

\* What the pipeline asked, what it has gathered, and where it stands.
SameRequest(x, y) ==
    /\ DOMAIN y = Fields /\ y.query = x.query /\ y.override = x.override /\ y.limit = x.limit
    /\ y.asked = x.asked /\ y.began = x.began
SameNotes(x, y) ==
    /\ y.variantDocs = x.variantDocs /\ y.docs = x.docs
    /\ y.warned = x.warned /\ y.errors = x.errors /\ y.down = x.down /\ y.unsaid = x.unsaid
SamePlace(x, y) == y.variant = x.variant /\ y.hop = x.hop
SameStage(x, y) ==
    /\ y.t0 = x.t0 /\ y.pending = x.pending /\ y.rows = x.rows
    /\ y.failed = x.failed /\ y.warnings = x.warnings /\ y.raised = x.raised /\ y.quiet = x.quiet
    /\ y.skipped = x.skipped /\ y.hopDocs = x.hopDocs

\* federated_search_memory, from the pipeline's state to its first cache lookup, starts a hop that holds.
LEMMA HopHolds ==
    ASSUME RTypes, NEW x, Pipe(x), Stage(x), NEW m \in Depths, x.pending = {}, x.began <= now,
           First(x) => m = x.asked /\ x.began = now, NextHolds(x, Ripe)
    PROVE  SearchHolds(Hop(x, m).search, now, Ripe)
  <1> DEFINE y == Hop(x, m).search
             k == PathwayKey(Variants[x.query][x.variant], x.limit, m, ResolveSources(m, x.override))
  <1>1. PICK fo : y = [x EXCEPT !.pc = "lookup", !.mode = m, !.hopDocs = {},
                        !.failed = {}, !.warnings = {}, !.raised = {}, !.quiet = {}, !.skipped = {},
                        !.key = k, !.force = fo]
    BY Zenon DEF Hop
  <1> HIDE DEF y
  <1>2. k \in Keys /\ k.limit = x.limit
    <2>1. Variants[x.query][x.variant] \in Texts
      BY RetrievalAssumption DEF Pipe
    <2> QED  BY <2>1, ResolveFacts DEF Keys, PathwayKey, Pipe
  <1>3. First(x) => k = PathwayKey(x.query, x.limit, x.asked, ResolveSources(x.asked, x.override))
    BY Zenon, RetrievalAssumption DEF First, Pipe
  <1> HIDE DEF k
  <1>4. SameRequest(x, y) /\ SameNotes(x, y) /\ SamePlace(x, y)
    BY <1>1 DEF Pipe, Fields, SameRequest, SameNotes, SamePlace
  <1>5. /\ y.pc = "lookup" /\ y.key = k /\ y.mode = m /\ y.hopDocs = {}
        /\ y.failed = {} /\ y.warnings = {} /\ y.raised = {} /\ y.quiet = {}
        /\ y.skipped = {} /\ y.t0 = x.t0 /\ y.rows = x.rows /\ y.pending = {}
    BY Zenon, <1>1 DEF Pipe, Fields
  <1>6. Shape(y)
    BY <1>2, <1>4, <1>5 DEF Shape, Pipe, Stage, SameRequest, SameNotes, SamePlace
  <1>7. NextHolds(y, Ripe)
    BY <1>4 DEF NextHolds, Kept, First, SameRequest, SameNotes, SamePlace
  <1>8. Timed(y, now) /\ FirstHolds(y, now, Ripe)
    BY Zenon, <1>3, <1>4, <1>5 DEF Timed, FirstHolds, First, SameRequest, SamePlace
  <1>9. SearchHolds(y, now, Ripe)
    BY Zenon, <1>5, <1>6, <1>7, <1>8 DEF SearchHolds, FastHolds, SlowHolds, StoreHolds
  <1> QED  BY <1>9 DEF y

\* So a fresh search, of a client or of the warmer, holds.
LEMMA StartedHolds ==
    ASSUME RTypes, NEW q \in Texts, NEW m \in Depths, NEW o \in SUBSET Sources, NEW l \in Nat
    PROVE  SearchHolds(Started(q, m, o, l).search, now, Ripe)
  <1>1. PICK x : /\ Started(q, m, o, l) = Hop(x, m)
                 /\ x = [pc |-> "idle", query |-> q, override |-> o, limit |-> l, asked |-> m,
                         began |-> now, mode |-> m, variant |-> 1, hop |-> 1, key |-> {}, force |-> FALSE,
                         t0 |-> 0, pending |-> {}, rows |-> [s \in Sources |-> {}], failed |-> {},
                         warnings |-> {}, raised |-> {}, quiet |-> {}, skipped |-> {}, hopDocs |-> {},
                         variantDocs |-> {}, docs |-> {}, warned |-> {}, errors |-> {}, down |-> {},
                         unsaid |-> {}]
    BY DEF Started
  <1>2. now \in Nat /\ 1 \in 1..Len(Variants[q]) /\ [s \in Sources |-> {}] \in [Sources -> SUBSET Docs]
    BY RetrievalAssumption DEF RTypes
  <1>3. Pipe(x) /\ x.began = now /\ x.asked = m /\ First(x)
    BY <1>1, <1>2 DEF Pipe, Fields, First
  <1>4. Stage(x) /\ x.pending = {}
    BY <1>1, <1>2 DEF Stage
  <1> QED  BY <1>1, <1>2, <1>3, <1>4, HopHolds DEF NextHolds

-----------------------------------------------------------------------------
(* Within a hop *)

SameHop(x, y) ==
    /\ SameRequest(x, y) /\ SameNotes(x, y) /\ SamePlace(x, y)
    /\ y.mode = x.mode /\ y.key = x.key

\* A step within a hop leaves what is said of the whole search alone.
LEMMA WithinHop ==
    ASSUME NEW x, Shape(x), NextHolds(x, Ripe), NEW y, SameHop(x, y), Stage(y),
           y.pc \in {"lookup", "backend", "fast", "slow", "store", "backup", "hop"}
    PROVE  Shape(y) /\ NextHolds(y, Ripe)
  <1>1. Shape(y)
    BY Zenon DEF Shape, Pipe, SameHop, SameRequest, SameNotes, SamePlace
  <1>2. NextHolds(y, Ripe)
    BY DEF NextHolds, Kept, First, SameHop, SameRequest, SameNotes, SamePlace
  <1> QED  BY Zenon, <1>1, <1>2

\* Between stages nothing is awaited.
LEMMA PcHolds ==
    ASSUME RTypes, NEW x, SearchHolds(x, now, Ripe), NEW c \in {"backend", "backup", "hop"}, NEW y,
           y = [x EXCEPT !.pc = c], x.pc \in {"lookup", "store", "backup"},
           c = "backend" => x.pc = "lookup", c = "backup" => x.pc = "store", c = "hop" => x.pc = "backup"
    PROVE  SearchHolds(y, now, Ripe)
  <1>1. SameHop(x, y) /\ SameStage(x, y) /\ y.pc = c
    BY DEF SearchHolds, Shape, Pipe, Fields, SameHop, SameRequest, SameNotes, SamePlace, SameStage
  <1>2. Shape(y) /\ NextHolds(y, Ripe)
    BY Zenon, <1>1, WithinHop DEF SearchHolds, Shape, Stage, SameStage
  <1>3. BundleOf(y) = BundleOf(x)
    BY <1>1 DEF BundleOf, SameStage
  <1>4. Timed(y, now) /\ StoreHolds(y, now, Ripe)
    BY <1>1, <1>3 DEF SearchHolds, Timed, StoreHolds, SameHop, SameRequest, SameStage
  <1>5. c = "hop" => Covers(BundleOf(x), x.key, x.began, StaleBound, Ripe)
    <2> SUFFICES ASSUME c = "hop" PROVE Covers(BundleOf(x), x.key, x.began, StaleBound, Ripe)
      BY Zenon
    <2>1. x.key \in Keys /\ x.began \in Nat /\ x.began <= now /\ now \in Nat
      BY DEF SearchHolds, Shape, Pipe, Timed, RTypes
    <2>2. Covers(BundleOf(x), x.key, now, 2 * Timeout, Ripe)
      BY DEF SearchHolds, StoreHolds
    <2>3. 2 * Timeout \in Nat /\ x.began + 2 * Timeout <= now + StaleBound
      BY <2>1, Times
    <2> QED  BY <2>1, <2>2, <2>3, Times, CoversLess
  <1>6. FirstHolds(y, now, Ripe)
    BY <1>1, <1>3, <1>5 DEF SearchHolds, FirstHolds, First, SameHop, SameRequest, SamePlace
  <1> QED  BY <1>1, <1>2, <1>4, <1>6 DEF SearchHolds, FastHolds, SlowHolds

\* A cache has the bundle.
LEMMA ReturnedHolds ==
    ASSUME RTypes, NEW x, SearchHolds(x, now, Ripe), x.pc \in {"lookup", "backend"}, NEW b \in Bundles,
           Told(b), First(x) => Covers(b, x.key, x.began, StaleBound, Ripe)
    PROVE  SearchHolds(Returned(x, b), now, Ripe)
  <1>1. PICK y : y = Returned(x, b)
    BY Zenon
  <1>2. SameHop(x, y) /\ y.pc = "hop" /\ y.pending = x.pending /\ y.t0 = x.t0 /\ y.rows = x.rows
    BY <1>1 DEF SearchHolds, Shape, Pipe, Fields, SameHop, SameRequest, SameNotes, SamePlace, Returned
  <1>3. /\ y.hopDocs = b.docs /\ y.failed = b.failed /\ y.skipped = b.skipped /\ y.quiet = b.quiet
        /\ y.warnings = b.warnings /\ y.raised = b.raised
    BY Zenon, <1>1 DEF SearchHolds, Shape, Pipe, Fields, Returned
  <1>4. Stage(y)
    BY <1>2, <1>3 DEF SearchHolds, Shape, Stage, Bundles, Told
  <1>5. Shape(y) /\ NextHolds(y, Ripe)
    BY Zenon, <1>2, <1>4, WithinHop DEF SearchHolds
  <1>6. BundleOf(y) = b
    BY Zenon, <1>3 DEF BundleOf, Bundles
  <1>7. Timed(y, now) /\ FirstHolds(y, now, Ripe)
    BY Zenon, <1>2, <1>6 DEF SearchHolds, Timed, FirstHolds, First, SameHop, SameRequest, SamePlace
  <1> QED  BY Zenon, <1>1, <1>2, <1>5, <1>7 DEF SearchHolds, FastHolds, SlowHolds, StoreHolds

\* The caches do not have it: the first stage begins.
LEMMA StageHolds ==
    ASSUME RTypes, NEW x, SearchHolds(x, now, Ripe), x.pc = "backend"
    PROVE  SearchHolds(StageStart(x), now, Ripe)
  <1>1. PICK y : y = StageStart(x)
    BY Zenon
  <1>2. SameHop(x, y) /\ y.pc = "fast" /\ y.t0 = now
    BY <1>1 DEF SearchHolds, Shape, Pipe, Fields, SameHop, SameRequest, SameNotes, SamePlace, StageStart
  <1>3. /\ y.rows = [s \in Sources |-> {}]
        /\ y.hopDocs = x.hopDocs /\ y.failed = {} /\ y.warnings = {} /\ y.raised = {}
        /\ y.skipped = {} /\ y.quiet = {}
        /\ y.pending = IF StagedFetchUsed(x.key.sources) THEN StagedFast(x.key.sources) ELSE x.key.sources
    BY Zenon, <1>1 DEF SearchHolds, Shape, Pipe, Fields, StageStart
  <1>4. now \in Nat /\ x.key.sources \subseteq Sources
    BY KeyFacts DEF RTypes, SearchHolds, Shape
  <1>5. Stage(y)
    BY <1>2, <1>3, <1>4 DEF SearchHolds, Shape, Stage, StagedFast
  <1>6. Shape(y) /\ NextHolds(y, Ripe)
    BY Zenon, <1>2, <1>5, WithinHop DEF SearchHolds
  <1>7. Timed(y, now) /\ FirstHolds(y, now, Ripe)
    BY <1>2, <1>4, Times DEF SearchHolds, Timed, FirstHolds, First, SameHop, SameRequest, SamePlace
  <1>8. FastHolds(y, Ripe)
    BY Zenon, <1>2, <1>3 DEF FastHolds, Fetched, Later, SameHop, StagedFast
  <1> QED  BY <1>1, <1>2, <1>6, <1>7, <1>8 DEF SearchHolds, SlowHolds, StoreHolds

\* A source answers or is given up: what it had held is in its rows, or it is noted.
LEMMA NotedHolds ==
    ASSUME RTypes, NEW x, SearchHolds(x, now, Ripe), x.pc \in {"fast", "slow"}, NEW s \in Sources, NEW y,
           SameHop(x, y), Stage(y), y.pc = x.pc, y.t0 = x.t0, y.pending = x.pending \ {s},
           x.warnings \subseteq y.warnings, x.quiet \subseteq y.quiet,
           \A z \in Sources : z # s => y.rows[z] = x.rows[z],
           \A d \in Match[x.key.query] : Ripe[s][d] <= now =>
               d \in y.rows[s] \/ s \in y.warnings \/ s \in y.quiet
    PROVE  SearchHolds(y, now, Ripe)
  <1>1. Shape(y) /\ NextHolds(y, Ripe)
    BY Zenon, WithinHop DEF SearchHolds, Shape
  <1>2. Timed(y, now) /\ FirstHolds(y, now, Ripe)
    BY Zenon DEF SearchHolds, Timed, FirstHolds, First, SameHop, SameRequest, SamePlace
  <1>3. /\ x.t0 \in Nat /\ x.t0 <= now /\ now \in Nat /\ x.key.sources \subseteq Sources
        /\ \A z \in x.key.sources, d \in Match[x.key.query] : Ripe[z][d] \in Nat
    BY KeyFacts DEF SearchHolds, Timed, Shape, Stage, RTypes
  <1>4. ASSUME NEW z \in x.key.sources, NEW d \in Match[x.key.query], Fetched(x, z, d), Ripe[z][d] <= now
        PROVE  Fetched(y, z, d)
    BY Zenon, <1>3, <1>4 DEF Fetched
  <1>5. FastHolds(y, Ripe)
    BY <1>3, <1>4 DEF SearchHolds, FastHolds, Later, SameHop
  <1>6. SlowHolds(y, Ripe)
    BY <1>3, <1>4, Times DEF SearchHolds, SlowHolds, SameHop
  <1> QED  BY Zenon, <1>1, <1>2, <1>5, <1>6 DEF SearchHolds, StoreHolds

\* The fast stage hands over to the slow one.
Handed(x) == [x EXCEPT !.pc = "slow", !.t0 = now, !.pending = StagedSlow(x.key.sources)]

\* What the fast sources held when their stage began is there or explained; the slow ones are awaited.
LEMMA SlowStarts ==
    ASSUME RTypes, NEW x, SearchHolds(x, now, Ripe), x.pc = "fast", x.pending = {},
           StagedFetchUsed(x.key.sources)
    PROVE  SearchHolds(Handed(x), now, Ripe)
  <1>0. PICK y : y = Handed(x)
    BY Zenon
  <1>1. SameHop(x, y) /\ y.pc = "slow" /\ y.t0 = now /\ y.pending = StagedSlow(x.key.sources)
    BY <1>0 DEF Handed, SearchHolds, Shape, Pipe, Fields, SameHop, SameRequest, SameNotes, SamePlace
  <1>2. /\ y.rows = x.rows /\ y.hopDocs = x.hopDocs
        /\ y.failed = x.failed /\ y.warnings = x.warnings /\ y.raised = x.raised
        /\ y.skipped = x.skipped /\ y.quiet = x.quiet
    BY Zenon, <1>0 DEF Handed, SearchHolds, Shape, Pipe, Fields
  <1>3. /\ now \in Nat /\ x.t0 \in Nat /\ x.key.sources \subseteq Sources /\ now <= x.t0 + Timeout
        /\ \A s \in x.key.sources, d \in Match[x.key.query] : Ripe[s][d] \in Nat
    BY KeyFacts DEF RTypes, SearchHolds, Shape, Stage, Timed
  <1>4. Stage(y)
    BY Zenon, <1>1, <1>2, <1>3 DEF SearchHolds, Shape, Stage, StagedSlow
  <1>5. Shape(y) /\ NextHolds(y, Ripe)
    BY Zenon, <1>1, <1>4, WithinHop DEF SearchHolds
  <1>6. Timed(y, now) /\ FirstHolds(y, now, Ripe)
    BY <1>1, <1>3, Times DEF SearchHolds, Timed, FirstHolds, First, SameHop, SameRequest, SamePlace
  <1>7. SlowHolds(y, Ripe)
    <2> SUFFICES ASSUME NEW s \in x.key.sources, NEW d \in Match[x.key.query], Ripe[s][d] + Timeout < now
                 PROVE  Fetched(y, s, d)
      BY Zenon, <1>1 DEF SlowHolds, SameHop
    <2>1. Ripe[s][d] < x.t0
      BY <1>3, Times
    <2>2. Fetched(x, s, d) \/ s \in SlowSources
      BY <2>1 DEF SearchHolds, FastHolds, Later
    <2> QED  BY Zenon, <1>1, <1>2, <2>2 DEF Fetched, StagedSlow
  <1> QED  BY <1>0, <1>1, <1>5, <1>6, <1>7 DEF SearchHolds, FastHolds, StoreHolds

\* Sets of documents are finite, and a part of one is not larger.
LEMMA CardFacts ==
    ASSUME NEW es \in SUBSET Docs, NEW ds \in SUBSET es
    PROVE  Cardinality(ds) \in Nat /\ Cardinality(es) \in Nat /\ Cardinality(ds) <= Cardinality(es)
  <1>1. IsFiniteSet(es)
    BY RetrievalAssumption, FS_Subset
  <1> QED  BY <1>1, FS_Subset, FS_CardinalityType

\* A ranking keeps everything, or fills the limit.
LEMMA RankedFacts ==
    ASSUME NEW ds, NEW l, NEW t \in Ranked(ds, l)
    PROVE  t \subseteq ds /\ ((t = ds /\ Cardinality(ds) <= l) \/ Cardinality(t) = l)
  BY Zenon DEF Ranked, kSubset

\* The last stage is gathered: the bundle has, or explains, what the first one could see.
Rows(x) == UNION {x.rows[s] : s \in Sources}
Left(x) == IF x.pc = "fast" /\ StagedFetchUsed(x.key.sources) THEN StagedSlow(x.key.sources) ELSE {}
Gathered(x, t) ==
    [x EXCEPT !.pc = "store", !.hopDocs = t, !.t0 = 0, !.rows = [s \in Sources |-> {}], !.skipped = Left(x)]

\* So the bundle covers what was held two timeouts ago.
LEMMA GatheredHolds ==
    ASSUME RTypes, NEW x, SearchHolds(x, now, Ripe), x.pc \in {"fast", "slow"}, x.pending = {},
           NEW t \in Ranked(Rows(x), x.limit)
    PROVE  SearchHolds(Gathered(x, t), now, Ripe)
  <1> USE DEF Rows
  <1>0. PICK y, left : y = Gathered(x, t) /\ left = Left(x)
    BY Zenon
  <1>1. SameHop(x, y) /\ y.pc = "store" /\ y.pending = x.pending
    BY <1>0 DEF Gathered, SearchHolds, Shape, Pipe, Fields, SameHop, SameRequest, SameNotes, SamePlace
  <1>2. /\ y.t0 = 0 /\ y.rows = [s \in Sources |-> {}] /\ y.hopDocs = t
        /\ y.failed = x.failed /\ y.warnings = x.warnings /\ y.raised = x.raised
        /\ y.skipped = left /\ y.quiet = x.quiet
    BY Zenon, <1>0 DEF Gathered, SearchHolds, Shape, Pipe, Fields
  <1>3. /\ x.rows \in [Sources -> SUBSET Docs] /\ x.key.limit = x.limit
        /\ x.t0 \in Nat /\ now \in Nat /\ now <= x.t0 + Timeout /\ x.key.sources \subseteq Sources
        /\ \A s \in x.key.sources, d \in Match[x.key.query] : Ripe[s][d] \in Nat
    BY KeyFacts DEF SearchHolds, Shape, Stage, Timed, RTypes
  <1>4. PICK ds : ds = UNION {x.rows[s] : s \in Sources}
    BY Zenon
  <1>5. t \subseteq ds /\ (t = ds \/ Cardinality(t) = x.limit)
    BY <1>4, RankedFacts
  <1>6. ds \subseteq Docs /\ left \subseteq Sources
    BY Zenon, <1>0, <1>3, <1>4 DEF Left, StagedSlow
  <1>7. Stage(y)
    BY <1>1, <1>2, <1>5, <1>6 DEF SearchHolds, Shape, Stage
  <1>8. Shape(y) /\ NextHolds(y, Ripe)
    BY Zenon, <1>1, <1>7, WithinHop DEF SearchHolds
  <1>9. Timed(y, now) /\ FirstHolds(y, now, Ripe)
    BY Zenon, <1>1 DEF SearchHolds, Timed, FirstHolds, First, SameHop, SameRequest, SamePlace
  <1>10. StoreHolds(y, now, Ripe)
    <2> SUFFICES ASSUME NEW s \in x.key.sources, NEW d \in Match[x.key.query],
                        Ripe[s][d] + 2 * Timeout < now
                 PROVE  d \in t \/ Cardinality(t) = x.limit \/ s \in x.warnings \cup left \cup x.quiet
      BY Zenon, <1>1, <1>2, <1>3 DEF StoreHolds, Covers, BundleOf, SameHop
    <2>1. Ripe[s][d] + Timeout < x.t0 /\ Ripe[s][d] < x.t0
      BY <1>3, Times
    <2>2. Fetched(x, s, d) \/ (x.pc = "fast" /\ Later(x, s))
      BY Zenon, <2>1 DEF SearchHolds, FastHolds, SlowHolds
    <2>3. CASE x.pc = "fast" /\ Later(x, s)
      BY Zenon, <1>0, <2>3 DEF Left, Later, StagedSlow
    <2>4. CASE Fetched(x, s, d)
      BY <1>3, <1>4, <1>5, <2>4 DEF Fetched
    <2> QED  BY Zenon, <2>2, <2>3, <2>4
  <1> QED  BY Zenon, <1>0, <1>1, <1>8, <1>9, <1>10 DEF SearchHolds, FastHolds, SlowHolds

-----------------------------------------------------------------------------
(* From hop to hop *)

\* The hop's results and notes join those of the search.
Added(x, y) ==
    /\ SameRequest(x, y) /\ SamePlace(x, y) /\ Pipe(y) /\ Stage(y) /\ y.pending = {}
    /\ x.failed \subseteq y.warned
    /\ Kept(y, IF y.variant = 1 THEN y.variantDocs ELSE y.docs, Ripe)

\* What the first hop covers, or an earlier hop has kept, is kept with the hop's results added.
LEMMA AddedFacts ==
    ASSUME RTypes, NEW x, SearchHolds(x, now, Ripe), x.pc = "hop"
    PROVE  Added(x, HopAdded(x))
  <1>1. PICK y : y = HopAdded(x)
    BY Zenon
  <1>2. SameRequest(x, y) /\ SamePlace(x, y) /\ SameStage(x, y) /\ y.mode = x.mode
    BY <1>1 DEF SearchHolds, Shape, Pipe, Fields, SameRequest, SamePlace, SameStage, HopAdded
  <1>3. /\ y.variantDocs = x.variantDocs \cup x.hopDocs /\ y.docs = x.docs
        /\ y.warned = x.warned \cup x.warnings /\ y.errors = x.errors /\ y.down = x.down \cup x.raised
        /\ y.unsaid = IF x.variant = 1 THEN x.unsaid \cup x.skipped \cup x.quiet ELSE x.unsaid
    BY Zenon, <1>1 DEF SearchHolds, Shape, Pipe, Fields, HopAdded
  <1>4. Pipe(y) /\ Stage(y) /\ y.pending = {} /\ x.failed \subseteq y.warned
    BY Zenon, <1>2, <1>3 DEF SearchHolds, Shape, Timed, Pipe, Stage, SameRequest, SamePlace, SameStage
  <1>5. /\ Cardinality(x.hopDocs) <= Cardinality(y.variantDocs)
        /\ Cardinality(x.variantDocs) <= Cardinality(y.variantDocs)
        /\ Cardinality(x.hopDocs) \in Nat /\ Cardinality(x.variantDocs) \in Nat
        /\ Cardinality(y.variantDocs) \in Nat /\ x.limit \in Nat
    <2>1. /\ y.variantDocs \in SUBSET Docs /\ x.limit \in Nat
          /\ x.hopDocs \in SUBSET y.variantDocs /\ x.variantDocs \in SUBSET y.variantDocs
      BY Zenon, <1>3 DEF SearchHolds, Shape, Pipe, Stage
    <2> QED  BY Zenon, <2>1, CardFacts
  <1>6. CASE First(x)
    <2>1. /\ x.variant = 1 /\ Covers(BundleOf(x), x.key, x.began, StaleBound, Ripe)
          /\ x.key = PathwayKey(x.query, x.limit, x.asked, ResolveSources(x.asked, x.override))
      BY Zenon, <1>6 DEF SearchHolds, FirstHolds, First
    <2>2. ASSUME NEW s \in ResolveSources(x.asked, x.override), NEW d \in Match[x.query],
                 Ripe[s][d] + StaleBound < x.began
          PROVE  d \in x.hopDocs \/ Cardinality(x.hopDocs) = x.limit \/ s \in x.warnings \cup x.skipped \cup x.quiet
      BY <2>1, <2>2 DEF Covers, PathwayKey, BundleOf
    <2>3. Kept(y, y.variantDocs, Ripe)
      BY <1>2, <1>3, <1>5, <2>1, <2>2 DEF Kept, SameRequest
    <2> QED  BY Zenon, <1>1, <1>2, <1>3, <1>4, <2>1, <2>3 DEF Added, SamePlace
  <1>7. CASE ~First(x)
    <2>1. Kept(x, IF x.variant = 1 THEN x.variantDocs ELSE x.docs, Ripe)
      BY Zenon, <1>7 DEF SearchHolds, NextHolds
    <2>2. CASE x.variant = 1
      <3>1. Kept(y, y.variantDocs, Ripe)
        BY <1>2, <1>3, <1>5, <2>1, <2>2 DEF Kept, SameRequest
      <3> QED  BY Zenon, <1>1, <1>2, <1>3, <1>4, <2>2, <3>1 DEF Added, SamePlace
    <2>3. CASE x.variant # 1
      <3>1. Kept(y, y.docs, Ripe)
        BY <1>2, <1>3, <2>1, <2>3 DEF Kept, SameRequest
      <3> QED  BY Zenon, <1>1, <1>2, <1>3, <1>4, <2>3, <3>1 DEF Added, SamePlace
    <2> QED  BY Zenon, <2>2, <2>3
  <1> QED  BY <1>6, <1>7

\* The next, deeper hop of the same variant.
LEMMA EscalateHolds ==
    ASSUME RTypes, NEW x, SearchHolds(x, now, Ripe), x.pc = "hop"
    PROVE  SearchHolds(Hop([HopAdded(x) EXCEPT !.hop = @ + 1], NextMode(x.mode)).search, now, Ripe)
  <1>1. PICK y : y = HopAdded(x) /\ Added(x, y)
    BY AddedFacts
  <1>2. PICK z : z = [y EXCEPT !.hop = @ + 1]
    BY Zenon
  <1>3. SameRequest(y, z) /\ SameNotes(y, z) /\ SameStage(y, z) /\ z.variant = y.variant
    BY <1>1, <1>2 DEF Added, Pipe, Fields, SameRequest, SameNotes, SameStage
  <1>4. z.hop = y.hop + 1 /\ z.mode = y.mode /\ y.hop \in Nat \ {0}
    BY <1>1, <1>2 DEF Added, Pipe, Fields
  <1>5. Pipe(z) /\ Stage(z) /\ z.pending = {} /\ ~First(z)
    BY <1>1, <1>3, <1>4 DEF Added, Pipe, Stage, First, SameRequest, SameNotes, SameStage
  <1>6. NextHolds(z, Ripe)
    BY <1>1, <1>3 DEF Added, NextHolds, Kept, SameRequest, SameNotes
  <1>7. z.began <= now /\ NextMode(x.mode) \in Depths
    BY Zenon, <1>1, <1>3 DEF Added, SameRequest, SearchHolds, Timed, NextMode, Depths
  <1> QED  BY Zenon, <1>1, <1>2, <1>5, <1>6, <1>7, HopHolds

\* The variant is merged into the search.
Merged(x, t) == [HopAdded(x) EXCEPT !.docs = @ \cup t, !.variantDocs = {}, !.errors = @ \cup x.failed]

Joined(x, z) ==
    /\ SameRequest(x, z) /\ z.variant = x.variant /\ Pipe(z) /\ Stage(z) /\ z.pending = {}
    /\ Kept(z, z.docs, Ripe)

\* Merging the variant's ranked results and its last source_errors keeps it, and errors stay warned.
LEMMA MergedFacts ==
    ASSUME RTypes, NEW x, SearchHolds(x, now, Ripe), x.pc = "hop", NEW t \in Ranked(HopAdded(x).variantDocs, 3 * x.limit)
    PROVE  Joined(x, Merged(x, t))
  <1>1. PICK y : y = HopAdded(x) /\ Added(x, y)
    BY AddedFacts
  <1>2. PICK z : z = [y EXCEPT !.docs = @ \cup t, !.variantDocs = {}, !.errors = @ \cup x.failed]
    BY Zenon
  <1>3. Merged(x, t) = z
    BY Zenon, <1>1, <1>2 DEF Merged
  <1>4. t \subseteq y.variantDocs /\ (t = y.variantDocs \/ Cardinality(t) = 3 * x.limit)
    BY <1>1, RankedFacts
  <1>5. SameRequest(y, z) /\ SamePlace(y, z) /\ SameStage(y, z) /\ z.mode = y.mode
    BY <1>1, <1>2 DEF Added, Pipe, Fields, SameRequest, SamePlace, SameStage
  <1>6. /\ z.variantDocs = {} /\ z.docs = y.docs \cup t
        /\ z.warned = y.warned /\ z.errors = y.errors \cup x.failed /\ z.down = y.down /\ z.unsaid = y.unsaid
    BY Zenon, <1>1, <1>2 DEF Added, Pipe, Fields
  <1>7. Pipe(z) /\ Stage(z) /\ z.pending = {}
    BY Zenon, <1>1, <1>4, <1>5, <1>6 DEF Added, Pipe, Stage, SameRequest, SamePlace, SameStage
  <1>8. /\ Cardinality(t) <= Cardinality(z.docs) /\ Cardinality(y.docs) <= Cardinality(z.docs)
        /\ Cardinality(t) \in Nat /\ Cardinality(y.docs) \in Nat /\ Cardinality(z.docs) \in Nat
    <2>1. z.docs \in SUBSET Docs /\ t \in SUBSET z.docs /\ y.docs \in SUBSET z.docs
      BY Zenon, <1>6, <1>7 DEF Pipe
    <2> QED  BY Zenon, <2>1, CardFacts
  <1>9. y.limit \in Nat /\ y.limit = x.limit
    BY Zenon, <1>1 DEF Added, Pipe, SameRequest
  <1>10. Kept(z, z.docs, Ripe)
    <2> SUFFICES ASSUME NEW s \in ResolveSources(y.asked, y.override), NEW d \in Match[y.query],
                        Ripe[s][d] + StaleBound < y.began
                 PROVE  d \in z.docs \/ y.limit <= Cardinality(z.docs) \/ s \in y.warned \/ s \in y.unsaid
      BY Zenon, <1>5, <1>6 DEF Kept, SameRequest
    <2>1. CASE y.variant = 1
      <3>1. d \in y.variantDocs \/ y.limit <= Cardinality(y.variantDocs) \/ s \in y.warned \/ s \in y.unsaid
        BY Zenon, <1>1, <2>1 DEF Added, Kept
      <3> QED  BY <1>4, <1>6, <1>8, <1>9, <3>1
    <2>2. CASE y.variant # 1
      BY <1>1, <1>6, <1>8, <1>9, <2>2 DEF Added, Kept
    <2> QED  BY Zenon, <2>1, <2>2
  <1> QED  BY Zenon, <1>1, <1>3, <1>5, <1>7, <1>10 DEF Added, Joined, SameRequest, SamePlace

\* The next variant, in the mode asked for.
LEMMA VariantHolds ==
    ASSUME RTypes, NEW x, SearchHolds(x, now, Ripe), x.pc = "hop",
           NEW y, Joined(x, y), x.variant # Len(Variants[x.query])
    PROVE  SearchHolds(Hop([y EXCEPT !.variant = @ + 1, !.hop = 1], y.asked).search, now, Ripe)
  <1>1. PICK z : z = [y EXCEPT !.variant = @ + 1, !.hop = 1]
    BY Zenon
  <1>2. SameRequest(y, z) /\ SameNotes(y, z) /\ SameStage(y, z) /\ z.hop = 1
    BY <1>1 DEF Joined, Pipe, Fields, SameRequest, SameNotes, SameStage
  <1>3. z.variant = y.variant + 1 /\ z.mode = y.mode
    BY Zenon, <1>1 DEF Joined, Pipe, Fields
  <1>4. z.variant \in 1..Len(Variants[y.query]) /\ z.variant # 1
    <2>1. y.variant \in 1..Len(Variants[y.query]) /\ Len(Variants[y.query]) \in Nat
      BY RetrievalAssumption DEF Joined, Pipe
    <2>2. y.variant # Len(Variants[y.query])
      BY Zenon DEF Joined, SameRequest
    <2> QED  BY <1>3, <2>1, <2>2
  <1>5. Pipe(z) /\ Stage(z) /\ z.pending = {} /\ ~First(z)
    BY <1>2, <1>3, <1>4 DEF Joined, Pipe, Stage, First, SameRequest, SameNotes, SameStage
  <1>6. NextHolds(z, Ripe)
    BY Zenon, <1>2, <1>4 DEF Joined, NextHolds, Kept, SameRequest, SameNotes
  <1>7. z.began <= now /\ y.asked \in Depths
    BY Zenon, <1>2 DEF Joined, Pipe, SameRequest, SearchHolds, Timed
  <1> QED  BY Zenon, <1>1, <1>5, <1>6, <1>7, HopHolds

\* The answer, ranked and cut to the limit, accounts for what the search has kept.
LEMMA AnsweredHolds ==
    ASSUME NEW x, SearchHolds(x, now, Ripe), NEW y, Joined(x, y), NEW ds \in Ranked(y.docs, y.limit)
    PROVE  AnswerHolds(Answered(y, ds), now, Ripe)
  <1>1. PICK a : a = Answered(y, ds)
    BY Zenon
  <1>2. /\ a.pc = "answered" /\ a.query = y.query /\ a.asked = y.asked /\ a.override = y.override
        /\ a.limit = y.limit /\ a.began = y.began /\ a.docs = ds /\ a.warned = y.warned
        /\ a.errors = y.errors /\ a.down = y.down /\ a.unsaid = y.unsaid
    BY Zenon, <1>1 DEF Answered
  <1>3. (ds = y.docs /\ Cardinality(ds) <= y.limit) \/ Cardinality(ds) = y.limit
    BY RankedFacts
  <1>4. Cardinality(y.docs) \in Nat /\ y.limit \in Nat /\ y.errors \subseteq y.warned /\ y.down \subseteq y.warned
    BY Zenon, CardFacts DEF Joined, Pipe
  <1>5. \A s \in ResolveSources(a.asked, a.override), d \in Match[a.query] :
          Ripe[s][d] + StaleBound < a.began =>
             d \in a.docs \/ Cardinality(a.docs) = a.limit \/ s \in a.warned \/ s \in a.unsaid
    BY <1>2, <1>3, <1>4 DEF Joined, Kept
  <1>6. a.began <= now /\ a.began \in Nat /\ a.query \in Texts /\ a.override \subseteq Sources
    BY Zenon, <1>2 DEF SearchHolds, Timed, Joined, Pipe, SameRequest
  <1> QED  BY <1>1, <1>2, <1>4, <1>5, <1>6 DEF AnswerHolds

-----------------------------------------------------------------------------
(* The caches *)

\* Two sequences in a row.
LEMMA ConcatFacts ==
    ASSUME NEW S, NEW s \in Seq(S), NEW t \in Seq(S)
    PROVE  /\ s \o t \in Seq(S) /\ DOMAIN (s \o t) = 1..(Len(s) + Len(t))
           /\ \A i \in 1..(Len(s) + Len(t)) : (s \o t)[i] = IF i <= Len(s) THEN s[i] ELSE t[i - Len(s)]
  OBVIOUS

Dropped(s, i) == SubSeq(s, 1, i - 1) \o SubSeq(s, i + 1, Len(s))

\* A sequence without one of its elements has no others than before.
LEMMA DroppedFacts ==
    ASSUME NEW S, NEW s \in Seq(S), NEW i \in DOMAIN s
    PROVE  /\ Dropped(s, i) \in Seq(S) /\ Len(Dropped(s, i)) <= Len(s)
           /\ \A j \in DOMAIN Dropped(s, i) : \E k \in DOMAIN s : Dropped(s, i)[j] = s[k]
  <1> DEFINE a == SubSeq(s, 1, i - 1)
             b == SubSeq(s, i + 1, Len(s))
  <1>1. Len(s) \in Nat /\ i \in 1..Len(s) /\ DOMAIN s = 1..Len(s)
    OBVIOUS
  <1>2. a \in Seq(S) /\ Len(a) = i - 1 /\ \A j \in 1..(i - 1) : a[j] = s[j]
    BY <1>1
  <1>3. b \in Seq(S) /\ Len(b) = Len(s) - i /\ \A j \in 1..(Len(s) - i) : b[j] = s[i + j]
    BY <1>1
  <1>4. Dropped(s, i) = a \o b
    BY DEF Dropped
  <1> HIDE DEF a, b
  <1>5. /\ a \o b \in Seq(S) /\ DOMAIN (a \o b) = 1..(Len(a) + Len(b))
        /\ \A j \in 1..(Len(a) + Len(b)) : (a \o b)[j] = IF j <= Len(a) THEN a[j] ELSE b[j - Len(a)]
    BY Zenon, <1>2, <1>3, ConcatFacts
  <1>6. ASSUME NEW j \in DOMAIN (a \o b) PROVE \E k \in DOMAIN s : (a \o b)[j] = s[k]
    <2>1. CASE j <= Len(a)
      BY <1>1, <1>2, <1>5, <2>1
    <2>2. CASE j > Len(a)
      <3>1. j - Len(a) \in 1..(Len(s) - i) /\ (a \o b)[j] = b[j - Len(a)]
        BY <1>1, <1>2, <1>3, <1>5, <2>2
      <3>2. b[j - Len(a)] = s[i + (j - Len(a))] /\ i + (j - Len(a)) \in DOMAIN s
        BY <1>1, <1>2, <1>3, <3>1
      <3> QED  BY Zenon, <3>1, <3>2
    <2> QED  BY <1>1, <1>2, <1>3, <1>5, <2>1, <2>2
  <1>7. Len(a \o b) <= Len(s)
    BY <1>1, <1>2, <1>3, <1>5
  <1> QED  BY Zenon, <1>4, <1>5, <1>6, <1>7
\* Deleting a key leaves no entries that were not there.
LEMMA WithoutFacts ==
    ASSUME NEW S, NEW c \in Seq(S), NEW k
    PROVE  /\ Without(c, k) \in Seq(S) /\ Len(Without(c, k)) <= Len(c)
           /\ \A j \in DOMAIN Without(c, k) : \E i \in DOMAIN c : Without(c, k)[j] = c[i]
  <1>1. CASE ~\E i \in DOMAIN c : c[i].key = k
    <2>1. Len(c) <= Len(c)
      OBVIOUS
    <2> QED  BY Zenon, <1>1, <2>1 DEF Without
  <1>2. CASE \E i \in DOMAIN c : c[i].key = k
    <2> DEFINE m == CHOOSE i \in DOMAIN c : c[i].key = k
    <2>1. m \in DOMAIN c
      BY <1>2
    <2>2. Without(c, k) = Dropped(c, m)
      BY Zenon, <1>2 DEF Without, Dropped
    <2> HIDE DEF m
    <2> QED  BY <2>1, <2>2, DroppedFacts
  <1> QED  BY Zenon, <1>1, <1>2

\* Putting an entry leaves no others than before.
LEMMA LruFacts ==
    ASSUME NEW S, NEW c \in Seq(S), NEW e \in S, NEW max
    PROVE  /\ LruPut(c, e, max) \in Seq(S)
           /\ \A j \in DOMAIN LruPut(c, e, max) :
                 LruPut(c, e, max)[j] = e \/ \E i \in DOMAIN c : LruPut(c, e, max)[j] = c[i]
  <1>1. PICK w \in Seq(S) : w = Without(c, e.key) /\ \A j \in DOMAIN w : \E i \in DOMAIN c : w[j] = c[i]
    BY WithoutFacts
  <1>2. PICK put : put = Append(w, e)
    BY Zenon
  <1>3. /\ put \in Seq(S) /\ Len(put) = Len(w) + 1 /\ DOMAIN put = 1..Len(put) /\ DOMAIN w = 1..Len(w)
        /\ \A j \in 1..Len(w) : put[j] = w[j]
        /\ put[Len(w) + 1] = e /\ Len(w) \in Nat
    BY <1>2
  <1>4. \A j \in DOMAIN put : put[j] = e \/ \E i \in DOMAIN c : put[j] = c[i]
    BY <1>1, <1>3
  <1>5. Tail(put) \in Seq(S) /\ \A j \in DOMAIN Tail(put) : j + 1 \in DOMAIN put /\ Tail(put)[j] = put[j + 1]
    BY <1>3
  <1>6. LruPut(c, e, max) = put \/ LruPut(c, e, max) = Tail(put)
    BY Zenon, <1>1, <1>2 DEF LruPut
  <1>7. CASE LruPut(c, e, max) = put
    BY Zenon, <1>3, <1>4, <1>7
  <1>8. CASE LruPut(c, e, max) = Tail(put)
    BY <1>4, <1>5, <1>8
  <1> QED  BY Zenon, <1>6, <1>7, <1>8

\* The entry at the front makes room.
LEMMA LruLength ==
    ASSUME NEW S, NEW c \in Seq(S), NEW e \in S, NEW max \in Nat, Len(c) <= max
    PROVE  Len(LruPut(c, e, max)) <= max
  <1>1. PICK w \in Seq(S) : w = Without(c, e.key) /\ Len(w) <= Len(c)
    BY WithoutFacts
  <1>2. PICK put : put = Append(w, e)
    BY Zenon
  <1>3. /\ put \in Seq(S) /\ Len(put) = Len(w) + 1 /\ Len(w) \in Nat /\ Len(c) \in Nat
        /\ Len(Tail(put)) = Len(put) - 1
    BY <1>2
  <1>4. LruPut(c, e, max) = IF Len(put) > max THEN Tail(put) ELSE put
    BY Zenon, <1>1, <1>2 DEF LruPut
  <1>5. CASE Len(put) > max
    BY <1>1, <1>3, <1>4, <1>5
  <1>6. CASE ~(Len(put) > max)
    BY <1>3, <1>4, <1>6
  <1> QED  BY Zenon, <1>5, <1>6

\* _record_retrieval_pathway_observation records a key that can be replayed, within its bound.
LEMMA ObservedFacts ==
    ASSUME RTypes, NEW k \in Keys, NEW p
    PROVE  Observed(p, k) \in Seq(Seen) /\ (Len(stats) <= StatsMaxKeys => Len(Observed(p, k)) <= StatsMaxKeys)
  <1>1. [key |-> [k EXCEPT !.limit = 0], seen |-> now] \in Seen
    <2>1. [k EXCEPT !.limit = 0] \in Keys
      BY Zenon DEF Keys
    <2>2. now \in Nat
      BY RetrievalAssumption DEF RTypes
    <2> QED  BY <2>1, <2>2 DEF Seen
  <1>2. stats \in Seq(Seen)
    BY Zenon DEF RTypes
  <1>3. StatsMaxKeys \in Nat
    BY RetrievalAssumption
  <1> QED  BY Zenon, <1>1, <1>2, <1>3, LruFacts, LruLength DEF Observed

\* An entry that holds joins process memory.
LEMMA LocalPut ==
    ASSUME RInv, NEW e \in Entries, LocalHolds(e, now, Ripe), NEW c, c = LruPut(local, e, MaxKeys)
    PROVE  c \in Seq(Entries) /\ \A i \in DOMAIN c : LocalHolds(c[i], now, Ripe)
  <1>1. local \in Seq(Entries)
    BY Zenon DEF RInv, RTypes
  <1> QED  BY <1>1, LruFacts DEF RInv

\* The fields of a cache entry.
LEMMA EntryKey == ASSUME NEW e \in Entries PROVE e.key \in Keys /\ e.expires \in Nat /\ e.bundle \in Bundles
  BY Zenon DEF Entries, Keys

-----------------------------------------------------------------------------
(* Steps *)

\* Time stands still, documents may arrive.
Arrived(g) ==
    \A s \in Sources, d \in Docs : g[s][d] \in Nat /\ (g[s][d] = Ripe[s][d] \/ now <= g[s][d])

\* A document that arrives now is too young to be missed by a bundle.
LEMMA CoversStays ==
    ASSUME RTypes, NEW g, Arrived(g), NEW k \in Keys, NEW b, NEW t \in Nat, NEW slack \in Nat,
           t <= now + slack, Covers(b, k, t, slack, Ripe)
    PROVE  Covers(b, k, t, slack, g)
  <1>1. now \in Nat
    BY DEF RTypes
  <1> QED  BY <1>1, KeyFacts DEF Covers, Arrived

\* Nor does it change what holds of a search or an answer.
LEMMA ProcStays ==
    ASSUME RTypes, NEW g, Arrived(g), NEW x, ProcHolds(x, now, Ripe)
    PROVE  ProcHolds(x, now, g)
  <1>1. CASE SearchHolds(x, now, Ripe)
    <2>1. /\ x.key \in Keys /\ x.t0 \in Nat /\ x.began \in Nat /\ x.began <= now /\ now \in Nat
          /\ x.pc \in {"fast", "slow"} => x.t0 <= now
      BY <1>1 DEF SearchHolds, Shape, Stage, Pipe, Timed, RTypes
    <2>2. \A s \in x.key.sources, d \in Match[x.key.query] :
            g[s][d] \in Nat /\ (g[s][d] = Ripe[s][d] \/ now <= g[s][d])
      BY Zenon, <2>1, KeyFacts DEF Arrived
    <2>3. FastHolds(x, g) /\ SlowHolds(x, g)
      BY <1>1, <2>1, <2>2, Times DEF SearchHolds, FastHolds, SlowHolds
    <2>4. StoreHolds(x, now, g)
      <3>1. 2 * Timeout \in Nat /\ now <= now + 2 * Timeout
        BY <2>1, Times
      <3> QED  BY Zenon, <1>1, <2>1, <3>1, CoversStays DEF SearchHolds, StoreHolds
    <2>5. FirstHolds(x, now, g)
      <3>1. x.began <= now + StaleBound
        BY <2>1, Times
      <3> QED  BY Zenon, <1>1, <2>1, <3>1, Times, CoversStays DEF SearchHolds, FirstHolds
    <2>6. NextHolds(x, g)
      <3>1. \A s \in ResolveSources(x.asked, x.override), d \in Match[x.query] :
              g[s][d] \in Nat /\ (g[s][d] = Ripe[s][d] \/ now <= g[s][d])
        BY Zenon, <1>1, ResolveFacts, RetrievalAssumption DEF SearchHolds, Shape, Pipe, Arrived
      <3> QED  BY <1>1, <2>1, <3>1, Times DEF SearchHolds, NextHolds, Kept
    <2> QED  BY Zenon, <1>1, <2>3, <2>4, <2>5, <2>6 DEF SearchHolds, ProcHolds
  <1>2. CASE AnswerHolds(x, now, Ripe)
    <2>1. x.began \in Nat /\ x.began <= now /\ now \in Nat
      BY <1>2 DEF AnswerHolds, RTypes
    <2>2. ResolveSources(x.asked, x.override) \subseteq Sources /\ Match[x.query] \subseteq Docs
      <3>1. x.query \in Texts /\ x.override \in SUBSET Sources
        BY Zenon, <1>2 DEF AnswerHolds
      <3>2. Match[x.query] \subseteq Docs
        BY Zenon, <3>1, RetrievalAssumption
      <3> QED  BY Zenon, <3>1, <3>2, ResolveFacts
    <2>3. AnswerHolds(x, now, g)
      BY <1>2, <2>1, <2>2, Times DEF AnswerHolds, Arrived
    <2> QED  BY Zenon, <2>3 DEF ProcHolds
  <1> QED  BY Zenon, <1>1, <1>2 DEF ProcHolds

\* The fanout delivers a document: every search, answer and cache entry still holds.
LEMMA IndexHolds ==
    ASSUME RInv, NEW s \in Sources, NEW d \in Docs, Index(s, d)
    PROVE  RInv'
  <1>1. UNCHANGED <<now, local, redis, stats, proc>> /\ since' = [since EXCEPT ![s][d] = now]
    BY Zenon DEF Index
  <1>2. RTypes /\ now \in Nat /\ now \in 0..Never /\ since \in [Sources -> [Docs -> 0..Never]] /\ Never \in Nat
    BY RetrievalAssumption DEF RInv, RTypes, Never
  <1>3. since' \in [Sources -> [Docs -> 0..Never]]
    BY Zenon, <1>1, <1>2
  <1>4. RTypes'
    BY Zenon, <1>1, <1>2, <1>3 DEF RTypes
  <1>5. Arrived(Ripe')
    <2> SUFFICES ASSUME NEW z \in Sources, NEW c \in Docs
                 PROVE  Ripe'[z][c] \in Nat /\ (Ripe'[z][c] = Ripe[z][c] \/ now <= Ripe'[z][c])
      BY Zenon DEF Arrived
    <2>1. /\ Ripe[z][c] = since[z][c] + Lag[z] /\ since[z][c] \in Nat /\ Lag[z] \in Nat
          /\ Ripe'[z][c] = since'[z][c] + Lag[z]
      <3>1. Ripe'[z][c] = since'[z][c] + Lag[z]
        BY Zenon DEF Ripe
      <3> QED  BY Zenon, <1>2, <3>1, RipeFacts
    <2>2. since'[z][c] = since[z][c] \/ since'[z][c] = now
      BY <1>1, <1>2
    <2> QED  BY <1>2, <2>1, <2>2
  <1>6. \A p \in Procs : ProcHolds(proc[p], now, Ripe')
    BY Zenon, <1>2, <1>5, ProcStays DEF RInv
  <1>7. ASSUME NEW i \in DOMAIN local PROVE LocalHolds(local[i], now, Ripe')
    <2>1. local[i] \in Entries /\ LocalHolds(local[i], now, Ripe)
      BY <1>2 DEF RInv, RTypes
    <2>2. 2 * TTL - 1 + 2 * Timeout \in Nat /\ 2 * TTL - 1 + 2 * Timeout >= TTL
      BY Times
    <2>3. local[i].expires <= now + (2 * TTL - 1 + 2 * Timeout)
      BY <1>2, <2>1, <2>2, Times, EntryKey DEF LocalHolds
    <2> QED  BY Zenon, <1>2, <1>5, <2>1, <2>2, <2>3, EntryKey, CoversStays DEF LocalHolds
  <1>8. ASSUME NEW e \in redis PROVE RedisHolds(e, now, Ripe')
    <2>1. e \in Entries /\ RedisHolds(e, now, Ripe)
      BY Zenon, <1>2 DEF RInv, RTypes
    <2>2. TTL + 2 * Timeout \in Nat /\ e.expires <= now + (TTL + 2 * Timeout)
      BY <1>2, <2>1, Times, EntryKey DEF RedisHolds
    <2> QED  BY Zenon, <1>2, <1>5, <2>1, <2>2, EntryKey, CoversStays DEF RedisHolds
  <1> QED  BY Zenon, <1>1, <1>4, <1>6, <1>7, <1>8 DEF RInv

\* A search takes a step and the caches hold what they may.
LEMMA StepHolds ==
    ASSUME RInv, UNCHANGED <<now, since>>, NEW p \in Procs, NEW y, proc' = [proc EXCEPT ![p] = y],
           ProcHolds(y, now, Ripe),
           local' \in Seq(Entries), \A i \in DOMAIN local' : LocalHolds(local'[i], now, Ripe),
           redis' \subseteq Entries, \A e \in redis' : RedisHolds(e, now, Ripe),
           stats' \in Seq(Seen)
    PROVE  RInv'
  <1>1. RTypes'
    BY Zenon DEF RInv, RTypes
  <1>2. \A z \in Procs : proc'[z] = (IF z = p THEN y ELSE proc[z])
    BY Zenon DEF RInv, RTypes
  <1>3. \A z \in Procs : ProcHolds(proc'[z], now, Ripe)
    BY <1>2 DEF RInv
  <1> QED  BY Zenon, <1>1, <1>3, RipeStays DEF RInv

\* A search takes a step that leaves the caches alone.
LEMMA ProcStep ==
    ASSUME RInv, UNCHANGED <<now, since, local, redis, stats>>, NEW p \in Procs, NEW y,
           proc' = [proc EXCEPT ![p] = y], ProcHolds(y, now, Ripe)
    PROVE  RInv'
  <1>1. /\ local' \in Seq(Entries) /\ \A i \in DOMAIN local' : LocalHolds(local'[i], now, Ripe)
        /\ redis' \subseteq Entries /\ stats' \in Seq(Seen) /\ \A e \in redis' : RedisHolds(e, now, Ripe)
    BY Zenon DEF RInv, RTypes
  <1> QED  BY Zenon, <1>1, StepHolds

\* A process that is neither idle nor answered has a search that holds.
LEMMA Searching ==
    ASSUME RInv, NEW p \in Procs, proc[p].pc \notin {"idle", "answered"}
    PROVE  RTypes /\ SearchHolds(proc[p], now, Ripe)
  BY DEF RInv, ProcHolds, AnswerHolds

\* search_memory begins with a search that holds.
LEMMA search_memoryHolds ==
    ASSUME RInv, NEW p \in Procs, NEW q \in Queries, NEW m \in Modes, NEW o \in Overrides,
           search_memory(p, q, m, o)
    PROVE  RInv'
  <1>1. PICK y : y = Started(q, m, o, Limit).search /\ proc' = [proc EXCEPT ![p] = y]
    BY Zenon DEF search_memory
  <1>2. q \in Texts /\ m \in Depths /\ o \in SUBSET Sources /\ Limit \in Nat
    BY RetrievalAssumption
  <1>3. ProcHolds(y, now, Ripe)
    BY Zenon, <1>1, <1>2, StartedHolds DEF RInv, ProcHolds
  <1>4. UNCHANGED <<now, since, local, redis, stats>>
    BY Zenon DEF search_memory
  <1> QED  BY Zenon, <1>1, <1>3, <1>4, ProcStep

\* _list_hot_retrieval_pathways drops statistics and adds none.
LEMMA RememberedFacts ==
    ASSUME stats \in Seq(Seen)
    PROVE  Remembered \in Seq(Seen) /\ Len(Remembered) <= Len(stats)
  <1>1. PICK lapsed : /\ lapsed = {i \in DOMAIN stats : now - stats[i].seen > StatsTTL}
                      /\ Remembered = SubSeq(stats, Cardinality(lapsed) + 1, Len(stats))
    BY Zenon DEF Remembered
  <1>2. Len(stats) \in Nat /\ lapsed \subseteq 1..Len(stats)
    BY <1>1
  <1>3. IsFiniteSet(1..Len(stats))
    BY <1>2, FS_Interval
  <1>4. PICK n \in Nat : n = Cardinality(lapsed)
    BY Zenon, <1>2, <1>3, FS_Subset, FS_CardinalityType
  <1>5. /\ SubSeq(stats, n + 1, Len(stats)) \in Seq(Seen)
        /\ Len(SubSeq(stats, n + 1, Len(stats))) <= Len(stats)
    BY <1>2
  <1> QED  BY <1>1, <1>4, <1>5

\* _warm_retrieval_pathways_once replays a recorded key, whose search holds.
LEMMA warm_retrieval_pathwaysHolds ==
    ASSUME RInv, NEW e, warm_retrieval_pathways(e)
    PROVE  RInv'
  <1>1. PICK y : y = Started(e.key.query, e.key.mode, e.key.sources, WarmLimit).search
                 /\ proc' = [proc EXCEPT ![Warmer] = y]
    BY Zenon DEF warm_retrieval_pathways
  <1>2. stats' \in Seq(Seen) /\ e \in Range(stats')
    BY Zenon, RememberedFacts DEF warm_retrieval_pathways, RInv, RTypes
  <1>3. e.key \in Keys
    <2>1. PICK f \in Seq(Seen) : e \in Range(f)
      BY Zenon, <1>2
    <2>2. e \in Seen
      BY <2>1 DEF Range
    <2> QED  BY <2>2 DEF Seen
  <1>4. e.key.query \in Texts /\ e.key.mode \in Depths /\ e.key.sources \in SUBSET Sources /\ WarmLimit \in Nat
    BY <1>3, RetrievalAssumption DEF Keys
  <1>5. ProcHolds(y, now, Ripe)
    BY Zenon, <1>1, <1>4, StartedHolds DEF RInv, ProcHolds
  <1>6. UNCHANGED <<now, since, local, redis>> /\ Warmer \in Procs
    BY Zenon DEF warm_retrieval_pathways, Procs
  <1>7. /\ local' \in Seq(Entries) /\ \A i \in DOMAIN local' : LocalHolds(local'[i], now, Ripe)
        /\ redis' \subseteq Entries /\ \A z \in redis' : RedisHolds(z, now, Ripe)
    BY <1>6 DEF RInv, RTypes
  <1> QED  BY Zenon, <1>1, <1>2, <1>5, <1>6, <1>7, StepHolds

\* A live entry of process memory covers a search that begins now; removing an expired one, or touching a
\* live one, leaves the others.
LEMMA pathway_cache_getHolds ==
    ASSUME RInv, NEW p \in Procs, pathway_cache_get(p)
    PROVE  RInv'
  <1>1. PICK x : x = proc[p] /\ x.pc = "lookup" /\ RTypes /\ SearchHolds(x, now, Ripe)
    BY Searching DEF pathway_cache_get
  <1>2. UNCHANGED <<now, since, redis>> /\ redis' \subseteq Entries /\ \A e \in redis' : RedisHolds(e, now, Ripe)
    BY DEF pathway_cache_get, RInv, RTypes
  <1>3. local \in Seq(Entries) /\ stats \in Seq(Seen) /\ x.key \in Keys /\ now \in Nat
    BY <1>1 DEF RTypes, SearchHolds, Shape
  <1>4. ASSUME local' = Without(local, x.key), proc' = [proc EXCEPT ![p].pc = "backend"], UNCHANGED stats
        PROVE  RInv'
    <2>1. local' \in Seq(Entries) /\ \A i \in DOMAIN local' : LocalHolds(local'[i], now, Ripe)
      BY <1>3, <1>4, WithoutFacts DEF RInv
    <2>2. PICK y : y = [x EXCEPT !.pc = "backend"]
      BY Zenon
    <2>3. proc' = [proc EXCEPT ![p] = y]
      BY <1>1, <1>4, <2>2
    <2>4. ProcHolds(y, now, Ripe)
      BY <1>1, <2>2, PcHolds DEF ProcHolds
    <2> QED  BY Zenon, <1>2, <1>3, <1>4, <2>1, <2>3, <2>4, StepHolds
  <1>5. ASSUME NEW e \in Lookup(local, x.key), e.expires > now, local' = LruPut(local, e, MaxKeys),
               stats' = Observed(p, x.key), proc' = [proc EXCEPT ![p] = Returned(x, e.bundle)]
        PROVE  RInv'
    <2>1. e \in Entries /\ e.key = x.key /\ LocalHolds(e, now, Ripe)
      BY <1>3 DEF Lookup, Range, RInv
    <2>2. local' \in Seq(Entries) /\ \A i \in DOMAIN local' : LocalHolds(local'[i], now, Ripe)
      BY Zenon, <1>5, <2>1, LocalPut
    <2>3. stats' \in Seq(Seen)
      BY Zenon, <1>1, <1>3, <1>5, ObservedFacts
    <2>4. e.bundle \in Bundles /\ e.expires \in Nat /\ Told(e.bundle)
      BY Zenon, <2>1, EntryKey DEF LocalHolds
    <2>5. First(x) => Covers(e.bundle, x.key, x.began, StaleBound, Ripe)
      <3> SUFFICES ASSUME First(x) PROVE Covers(e.bundle, x.key, x.began, StaleBound, Ripe)
        BY Zenon
      <3>1. x.began = now
        BY Zenon, <1>1 DEF SearchHolds, FirstHolds
      <3>2. PICK m \in Nat : now + m <= e.expires + StaleBound /\ Covers(e.bundle, x.key, e.expires, m, Ripe)
        <4>1. PICK m : m = 2 * TTL - 1 + 2 * Timeout /\ m \in Nat /\ now + m <= e.expires + StaleBound
          BY <1>3, <1>5, <2>4, Times
        <4>2. Covers(e.bundle, x.key, e.expires, m, Ripe)
          BY <2>1, <4>1 DEF LocalHolds
        <4> QED  BY Zenon, <4>1, <4>2
      <3> QED  BY <1>1, <1>3, <2>4, <3>1, <3>2, Times, CoversLess
    <2>6. ProcHolds(Returned(x, e.bundle), now, Ripe)
      BY Zenon, <1>1, <2>4, <2>5, ReturnedHolds DEF ProcHolds
    <2> QED  BY Zenon, <1>2, <1>5, <2>2, <2>3, <2>6, StepHolds
  <1> QED  BY <1>1, <1>4, <1>5 DEF pathway_cache_get

\* An entry of Redis covers the search, and copied into process memory for another time to live it covers
\* what the longer bound of process memory asks.
LEMMA pathway_cache_backend_getHolds ==
    ASSUME RInv, NEW p \in Procs, pathway_cache_backend_get(p)
    PROVE  RInv'
  <1>1. PICK x : x = proc[p] /\ x.pc = "backend" /\ RTypes /\ SearchHolds(x, now, Ripe)
    BY Searching DEF pathway_cache_backend_get
  <1>2. UNCHANGED <<now, since, redis>> /\ redis' \subseteq Entries /\ \A e \in redis' : RedisHolds(e, now, Ripe)
    BY Zenon DEF pathway_cache_backend_get, RInv, RTypes
  <1>3. local \in Seq(Entries) /\ stats \in Seq(Seen) /\ x.key \in Keys /\ now \in Nat /\ redis \subseteq Entries
    BY <1>1 DEF RTypes, SearchHolds, Shape
  <1>4. ASSUME proc' = [proc EXCEPT ![p] = StageStart(x)], UNCHANGED <<local, stats>>
        PROVE  RInv'
    BY Zenon, <1>1, <1>2, <1>4, StageHolds, ProcStep DEF ProcHolds
  <1>5. ASSUME NEW e \in redis, e.key = x.key, local' = LruPut(local, [e EXCEPT !.expires = now + TTL], MaxKeys),
               stats' = Observed(p, x.key), proc' = [proc EXCEPT ![p] = Returned(x, e.bundle)]
        PROVE  RInv'
    <2>1. e \in Entries /\ RedisHolds(e, now, Ripe)
      BY <1>3 DEF RInv
    <2>2. PICK c : c = [e EXCEPT !.expires = now + TTL]
      BY Zenon
    <2>3. c \in Entries /\ c.key = e.key /\ c.bundle = e.bundle /\ c.expires = now + TTL /\ c.expires \in Nat
      <3>1. PICK u \in Nat : u = now + TTL
        BY <1>3, Times
      <3>2. c = [e EXCEPT !.expires = u]
        BY <2>2, <3>1
      <3>3. c \in Entries /\ c.key = e.key /\ c.bundle = e.bundle /\ c.expires = u
        BY <2>1, <3>2 DEF Entries
      <3> QED  BY Zenon, <3>1, <3>3
    <2>4. e.bundle \in Bundles /\ e.expires \in Nat /\ now < e.expires /\ Told(e.bundle)
      BY Zenon, <2>1, EntryKey DEF RedisHolds
    <2>5. PICK m : m = TTL + 2 * Timeout /\ m \in Nat /\ Covers(e.bundle, x.key, e.expires, m, Ripe)
      BY <1>5, <2>1, Times DEF RedisHolds
    <2>6. LocalHolds(c, now, Ripe)
      <3>1. PICK l : l = 2 * TTL - 1 + 2 * Timeout /\ l \in Nat /\ c.expires + m <= e.expires + l
        BY <1>3, <2>3, <2>4, <2>5, Times
      <3>2. Covers(c.bundle, c.key, c.expires, l, Ripe)
        BY <1>1, <1>3, <1>5, <2>3, <2>4, <2>5, <3>1, CoversLess
      <3>3. c.expires <= now + TTL
        BY <1>3, <2>3, Times
      <3> QED  BY Zenon, <2>3, <2>4, <3>1, <3>2, <3>3 DEF LocalHolds
    <2>7. local' \in Seq(Entries) /\ \A i \in DOMAIN local' : LocalHolds(local'[i], now, Ripe)
      BY Zenon, <1>5, <2>2, <2>3, <2>6, LocalPut
    <2>8. stats' \in Seq(Seen)
      BY Zenon, <1>1, <1>3, <1>5, ObservedFacts
    <2>9. First(x) => Covers(e.bundle, x.key, x.began, StaleBound, Ripe)
      <3> SUFFICES ASSUME First(x) PROVE Covers(e.bundle, x.key, x.began, StaleBound, Ripe)
        BY Zenon
      <3>1. x.began = now
        BY Zenon, <1>1 DEF SearchHolds, FirstHolds
      <3>2. now + m <= e.expires + StaleBound
        BY <1>3, <2>4, <2>5, Times
      <3> QED  BY <1>1, <1>3, <2>4, <2>5, <3>1, <3>2, Times, CoversLess
    <2>10. ProcHolds(Returned(x, e.bundle), now, Ripe)
      BY Zenon, <1>1, <2>4, <2>9, ReturnedHolds DEF ProcHolds
    <2> QED  BY Zenon, <1>2, <1>5, <2>7, <2>8, <2>10, StepHolds
  <1> QED  BY Zenon, <1>1, <1>4, <1>5 DEF pathway_cache_backend_get

\* What a search that awaits sources looks like once one of them is noted.
LEMMA AwaitingFacts ==
    ASSUME RInv, NEW p \in Procs, NEW s \in Sources, Awaiting(p, s)
    PROVE  RTypes /\ SearchHolds(proc[p], now, Ripe) /\ proc[p].pc \in {"fast", "slow"}
  <1>1. proc[p].pc \in {"fast", "slow"}
    BY DEF Awaiting
  <1> QED  BY Zenon, <1>1, Searching

\* A source answers: its rows are documents, and nothing is raised.
LEMMA AnswerNoted ==
    ASSUME RInv, NEW p \in Procs, NEW s \in Sources, Awaiting(p, s), NEW ds \in SUBSET Docs, NEW u,
           u \in {proc[p].quiet, proc[p].quiet \cup {s}},
           \A d \in Match[proc[p].key.query] : Ripe[s][d] <= now => d \in ds \/ s \in u,
           proc' = [proc EXCEPT ![p] = [proc[p] EXCEPT !.pending = @ \ {s}, !.rows[s] = ds, !.quiet = u]],
           UNCHANGED <<now, since, local, redis, stats>>
    PROVE  RInv'
  <1>1. PICK x : x = proc[p] /\ x.pc \in {"fast", "slow"} /\ RTypes /\ SearchHolds(x, now, Ripe)
    BY AwaitingFacts
  <1>2. PICK y : /\ y = [x EXCEPT !.pending = @ \ {s}, !.rows[s] = ds, !.quiet = u]
                 /\ proc' = [proc EXCEPT ![p] = y]
    BY Zenon, <1>1
  <1>3. SameHop(x, y) /\ y.pc = x.pc /\ y.t0 = x.t0 /\ y.pending = x.pending \ {s}
    BY Zenon, <1>1, <1>2 DEF SearchHolds, Shape, Pipe, Fields, SameHop, SameRequest, SameNotes, SamePlace
  <1>4. /\ y.failed = x.failed /\ y.warnings = x.warnings /\ y.raised = x.raised
        /\ y.quiet = u /\ y.skipped = x.skipped /\ y.hopDocs = x.hopDocs
        /\ y.rows = [x.rows EXCEPT ![s] = ds]
    BY Zenon, <1>1, <1>2 DEF SearchHolds, Shape, Pipe, Fields
  <1>5. x.rows \in [Sources -> SUBSET Docs] /\ x.quiet \subseteq u /\ u \subseteq x.quiet \cup {s}
    BY <1>1 DEF SearchHolds, Shape, Stage
  <1>6. y.rows \in [Sources -> SUBSET Docs] /\ y.rows[s] = ds
        /\ \A z \in Sources : z # s => y.rows[z] = x.rows[z]
    BY <1>4, <1>5
  <1>7. Stage(y)
    BY Zenon, <1>1, <1>3, <1>4, <1>5, <1>6 DEF SearchHolds, Shape, Stage
  <1>8. \A d \in Match[x.key.query] : Ripe[s][d] <= now => d \in y.rows[s] \/ s \in y.quiet
    BY Zenon, <1>1, <1>4, <1>6
  <1>9. ProcHolds(y, now, Ripe)
    BY <1>1, <1>3, <1>4, <1>5, <1>6, <1>7, <1>8, NotedHolds DEF ProcHolds
  <1> QED  BY Zenon, <1>2, <1>9, ProcStep

\* A source's rows are all that matches and that it has held for its lag.
LEMMA source_rowsHolds ==
    ASSUME RInv, NEW p \in Procs, NEW s \in Sources, source_rows(p, s)
    PROVE  RInv'
  <1>1. /\ Awaiting(p, s) /\ UNCHANGED <<now, since, local, redis, stats>>
        /\ RTypes /\ SearchHolds(proc[p], now, Ripe)
    BY Zenon, AwaitingFacts DEF source_rows
  <1>2. PICK t \in 0..now : /\ t + Lag[s] >= now
                            /\ proc' = [proc EXCEPT ![p] = [proc[p] EXCEPT !.pending = @ \ {s},
                                                               !.rows[s] = Held(s, proc[p].key.query, t)]]
    BY Zenon DEF source_rows
  <1>3. PICK ds, u : ds = Held(s, proc[p].key.query, t) /\ u = proc[p].quiet
    BY Zenon
  <1>4. Match[proc[p].key.query] \subseteq Docs
    BY Zenon, <1>1, KeyFacts DEF SearchHolds, Shape
  <1>5. ds \in SUBSET Docs
    BY Zenon, <1>3, <1>4 DEF Held
  <1>6. ASSUME NEW d \in Match[proc[p].key.query], Ripe[s][d] <= now PROVE d \in ds
    <2>1. since[s][d] \in Nat /\ Lag[s] \in Nat /\ Ripe[s][d] = since[s][d] + Lag[s]
      BY Zenon, <1>1, <1>4, RipeFacts
    <2>2. now \in Nat /\ t \in Nat
      BY <1>1, <1>2 DEF RTypes
    <2>3. since[s][d] <= t
      BY <1>2, <1>6, <2>1, <2>2
    <2> QED  BY Zenon, <1>3, <2>3 DEF Held
  <1>7. proc' = [proc EXCEPT ![p] = [proc[p] EXCEPT !.pending = @ \ {s}, !.rows[s] = ds, !.quiet = u]]
    <2>1. [proc[p] EXCEPT !.pending = @ \ {s}, !.rows[s] = ds]
            = [proc[p] EXCEPT !.pending = @ \ {s}, !.rows[s] = ds, !.quiet = u]
      BY Zenon, <1>1, <1>3 DEF SearchHolds, Shape, Pipe, Fields
    <2> QED  BY Zenon, <1>2, <1>3, <2>1
  <1> QED  BY Zenon, <1>1, <1>3, <1>5, <1>6, <1>7, AnswerNoted

\* A source that answers in part is marked as quiet, which explains what it leaves out.
LEMMA source_partialHolds ==
    ASSUME RInv, NEW p \in Procs, NEW s \in Sources, source_partial(p, s)
    PROVE  RInv'
  <1>1. /\ Awaiting(p, s) /\ UNCHANGED <<now, since, local, redis, stats>>
        /\ RTypes /\ SearchHolds(proc[p], now, Ripe)
    BY Zenon, AwaitingFacts DEF source_partial
  <1>2. PICK ds \in Parts(s, proc[p].key.query) :
               proc' = [proc EXCEPT ![p] = [proc[p] EXCEPT !.pending = @ \ {s}, !.rows[s] = ds,
                                              !.quiet = @ \cup {s}]]
    BY Zenon DEF source_partial
  <1>3. PICK u : u = proc[p].quiet \cup {s}
    BY Zenon
  <1>4. Match[proc[p].key.query] \subseteq Docs
    BY Zenon, <1>1, KeyFacts DEF SearchHolds, Shape
  <1>5. ds \in SUBSET Docs /\ s \in u
    BY Zenon, <1>2, <1>3, <1>4 DEF Parts, Held
  <1>6. proc' = [proc EXCEPT ![p] = [proc[p] EXCEPT !.pending = @ \ {s}, !.rows[s] = ds, !.quiet = u]]
    BY Zenon, <1>2, <1>3
  <1> QED  BY Zenon, <1>1, <1>3, <1>5, <1>6, AnswerNoted

\* A source that raises is in the warnings, which explain whatever it does not give.
LEMMA GivenUp ==
    ASSUME RInv, NEW p \in Procs, NEW s \in Sources, Awaiting(p, s),
           proc' = [proc EXCEPT ![p] = Raised(proc[p], s)],
           UNCHANGED <<now, since, local, redis, stats>>
    PROVE  RInv'
  <1>1. PICK x : x = proc[p] /\ x.pc \in {"fast", "slow"} /\ RTypes /\ SearchHolds(x, now, Ripe)
    BY Zenon, AwaitingFacts
  <1>2. PICK y : y = Raised(x, s) /\ proc' = [proc EXCEPT ![p] = y]
    BY Zenon, <1>1
  <1>3. SameHop(x, y) /\ y.pc = x.pc /\ y.t0 = x.t0 /\ y.pending = x.pending \ {s}
    BY Zenon, <1>1, <1>2 DEF Raised, SearchHolds, Shape, Pipe, Fields, SameHop, SameRequest, SameNotes, SamePlace
  <1>4. /\ y.failed = x.failed \cup {s} /\ y.warnings = x.warnings \cup {s} /\ y.raised = x.raised \cup {s}
        /\ y.quiet = x.quiet /\ y.skipped = x.skipped /\ y.hopDocs = x.hopDocs /\ y.rows = x.rows
    BY Zenon, <1>1, <1>2 DEF Raised, SearchHolds, Shape, Pipe, Fields
  <1>5. Stage(y)
    BY Zenon, <1>1, <1>3, <1>4 DEF SearchHolds, Shape, Stage
  <1>6. ProcHolds(y, now, Ripe)
    BY Zenon, <1>1, <1>3, <1>4, <1>5, NotedHolds DEF ProcHolds
  <1> QED  BY Zenon, <1>2, <1>6, ProcStep

\* A search function that raises, and a timeout of wait_for.
LEMMA source_raisesHolds ==
    ASSUME RInv, NEW p \in Procs, NEW s \in Sources, source_failure(p, s) \/ source_timeout(p, s)
    PROVE  RInv'
  BY Zenon, GivenUp DEF source_failure, source_timeout

\* The gathered batch hands over to the slow stage or becomes the hop's bundle.
LEMMA batch_gatheredHolds ==
    ASSUME RInv, NEW p \in Procs, batch_gathered(p)
    PROVE  RInv'
  <1>1. /\ proc[p].pc \in {"fast", "slow"} /\ proc[p].pending = {}
        /\ RTypes /\ SearchHolds(proc[p], now, Ripe) /\ UNCHANGED <<now, since, local, redis, stats>>
    BY Zenon, Searching DEF batch_gathered
  <1>2. CASE /\ proc[p].pc = "fast" /\ StagedFetchUsed(proc[p].key.sources)
             /\ proc' = [proc EXCEPT ![p] = Handed(proc[p])]
    BY Zenon, <1>1, <1>2, SlowStarts, ProcStep DEF ProcHolds
  <1>3. ASSUME NEW t \in Ranked(Rows(proc[p]), proc[p].limit), proc' = [proc EXCEPT ![p] = Gathered(proc[p], t)]
        PROVE  RInv'
    BY Zenon, <1>1, <1>3, GatheredHolds, ProcStep DEF ProcHolds
  <1> QED  BY Zenon, <1>2, <1>3 DEF batch_gathered, Handed, Rows, Gathered, Left

\* The entry a search stores.
Stored(x) == [key |-> x.key, expires |-> now + TTL, bundle |-> BundleOf(x)]

\* The entry made of a gathered bundle holds in either cache.
LEMMA StoredFacts ==
    ASSUME RTypes, NEW x, SearchHolds(x, now, Ripe), x.pc \in {"store", "backup"}
    PROVE  Stored(x) \in Entries /\ LocalHolds(Stored(x), now, Ripe) /\ RedisHolds(Stored(x), now, Ripe)
  <1>1. x.key \in Keys /\ now \in Nat
    BY DEF SearchHolds, Shape, RTypes
  <1>2. BundleOf(x) \in Bundles
    <2>1. /\ x.hopDocs \subseteq Docs /\ x.failed \subseteq Sources /\ x.warnings \subseteq Sources
          /\ x.raised \subseteq Sources /\ x.quiet \subseteq Sources /\ x.skipped \subseteq Sources
      BY Zenon DEF SearchHolds, Shape, Stage
    <2> QED  BY Zenon, <2>1 DEF BundleOf, Bundles
  <1>3. PICK u, b : u = now + TTL /\ b = BundleOf(x)
    BY Zenon
  <1>4. u \in Nat /\ now < u /\ u <= now + TTL
    BY <1>1, <1>3, Times
  <1>5. Stored(x) = [key |-> x.key, expires |-> u, bundle |-> b] /\ b \in Bundles
    BY Zenon, <1>2, <1>3 DEF Stored
  <1>6. PICK m : m = 2 * Timeout /\ m \in Nat /\ Covers(b, x.key, now, m, Ripe)
    BY <1>3, Times DEF SearchHolds, StoreHolds
  <1>7. Covers(b, x.key, u, TTL + 2 * Timeout, Ripe)
    <2>1. PICK l : l = TTL + 2 * Timeout /\ l \in Nat /\ u + m <= now + l
      BY <1>1, <1>3, <1>6, Times
    <2> QED  BY <1>1, <1>4, <1>6, <2>1, CoversLess
  <1>8. Covers(b, x.key, u, 2 * TTL - 1 + 2 * Timeout, Ripe)
    <2>1. PICK l : l = 2 * TTL - 1 + 2 * Timeout /\ l \in Nat /\ u + m <= now + l
      BY <1>1, <1>3, <1>6, Times
    <2> QED  BY <1>1, <1>4, <1>6, <2>1, CoversLess
  <1>9. Stored(x) \in Entries
    BY <1>1, <1>4, <1>5 DEF Entries, Keys
  <1>10. Told(b)
    BY Zenon, <1>3 DEF Told, BundleOf, SearchHolds, Shape, Stage
  <1>11. LocalHolds(Stored(x), now, Ripe) /\ RedisHolds(Stored(x), now, Ripe)
    BY <1>4, <1>5, <1>7, <1>8, <1>10 DEF LocalHolds, RedisHolds
  <1> QED  BY Zenon, <1>9, <1>11

\* _retrieval_pathway_cache_set stores the bundle in process memory.
LEMMA pathway_cache_setHolds ==
    ASSUME RInv, NEW p \in Procs, pathway_cache_set(p)
    PROVE  RInv'
  <1>1. PICK x : x = proc[p] /\ x.pc = "store" /\ RTypes /\ SearchHolds(x, now, Ripe)
    BY Searching DEF pathway_cache_set
  <1>2. PICK e : e = Stored(x) /\ local' = LruPut(local, e, MaxKeys)
    BY <1>1 DEF pathway_cache_set, Stored
  <1>3. local' \in Seq(Entries) /\ \A i \in DOMAIN local' : LocalHolds(local'[i], now, Ripe)
    BY Zenon, <1>1, <1>2, StoredFacts, LocalPut
  <1>4. PICK y : y = [x EXCEPT !.pc = "backup"]
    BY Zenon
  <1>5. proc' = [proc EXCEPT ![p] = y]
    BY <1>1, <1>4 DEF pathway_cache_set
  <1>6. ProcHolds(y, now, Ripe)
    BY <1>1, <1>4, PcHolds DEF ProcHolds
  <1>7. /\ UNCHANGED <<now, since>> /\ redis' \subseteq Entries /\ stats' \in Seq(Seen)
        /\ \A z \in redis' : RedisHolds(z, now, Ripe)
    BY Zenon DEF pathway_cache_set, RInv, RTypes
  <1> QED  BY Zenon, <1>3, <1>5, <1>6, <1>7, StepHolds

\* _retrieval_pathway_cache_backend_set replaces the key's entry in Redis, or fails; time has not passed
\* since the bundle was gathered.
LEMMA pathway_cache_backend_setHolds ==
    ASSUME RInv, NEW p \in Procs, pathway_cache_backend_set(p)
    PROVE  RInv'
  <1>1. PICK x : x = proc[p] /\ x.pc = "backup" /\ RTypes /\ SearchHolds(x, now, Ripe)
    BY Searching DEF pathway_cache_backend_set
  <1>2. redis' = redis \/ redis' = {z \in redis : z.key # Stored(x).key} \cup {Stored(x)}
    BY <1>1 DEF pathway_cache_backend_set, Stored
  <1>3. redis \subseteq Entries /\ \A z \in redis : RedisHolds(z, now, Ripe)
    BY Zenon DEF RInv, RTypes
  <1>4. redis' \subseteq Entries /\ \A z \in redis' : RedisHolds(z, now, Ripe)
    BY <1>1, <1>2, <1>3, StoredFacts
  <1>5. PICK y : y = [x EXCEPT !.pc = "hop"]
    BY Zenon
  <1>6. proc' = [proc EXCEPT ![p] = y]
    BY <1>1, <1>5 DEF pathway_cache_backend_set
  <1>7. ProcHolds(y, now, Ripe)
    BY <1>1, <1>5, PcHolds DEF ProcHolds
  <1>8. stats' \in Seq(Seen)
    <2>1. x.key \in Keys /\ stats' = Observed(p, x.key)
      BY Zenon, <1>1 DEF SearchHolds, Shape, pathway_cache_backend_set
    <2> QED  BY <1>1, <2>1, ObservedFacts
  <1>9. /\ UNCHANGED <<now, since>> /\ local' \in Seq(Entries)
        /\ \A i \in DOMAIN local' : LocalHolds(local'[i], now, Ripe)
    BY DEF pathway_cache_backend_set, RInv, RTypes
  <1> QED  BY Zenon, <1>4, <1>6, <1>7, <1>8, <1>9, StepHolds

\* The pipeline escalates to the next deeper mode.
LEMMA escalateHolds ==
    ASSUME RInv, NEW p \in Procs, escalate(p)
    PROVE  RInv'
  <1>1. PICK x : x = proc[p] /\ x.pc = "hop" /\ RTypes /\ SearchHolds(x, now, Ripe)
    BY Searching DEF escalate
  <1>2. PICK y : /\ y = Hop([HopAdded(x) EXCEPT !.hop = @ + 1], NextMode(x.mode)).search
                 /\ proc' = [proc EXCEPT ![p] = y]
    BY Zenon, <1>1 DEF escalate
  <1>3. ProcHolds(y, now, Ripe)
    BY <1>1, <1>2, EscalateHolds DEF ProcHolds
  <1>4. UNCHANGED <<now, since, local, redis, stats>>
    BY Zenon DEF escalate
  <1> QED  BY Zenon, <1>2, <1>3, <1>4, ProcStep

\* With search y of the merged variant in hand, the handler answers or goes on to the next variant.
Decided(p, y) ==
    \/ \E ds \in Ranked(y.docs, y.limit) : proc' = [proc EXCEPT ![p] = Answered(y, ds)]
    \/ /\ y.variant # Len(Variants[y.query])
       /\ proc' = [proc EXCEPT ![p] = Hop([y EXCEPT !.variant = @ + 1, !.hop = 1], y.asked).search]

\* The pipeline finishes a variant, and answers or starts the next one.
LEMMA variant_finishedHolds ==
    ASSUME RInv, NEW p \in Procs, variant_finished(p)
    PROVE  RInv'
  <1>1. proc[p].pc = "hop" /\ RTypes /\ SearchHolds(proc[p], now, Ripe)
    BY Zenon, Searching DEF variant_finished
  <1>2. UNCHANGED <<now, since, local, redis, stats>>
    BY DEF variant_finished
  <1>3. PICK t \in Ranked(HopAdded(proc[p]).variantDocs, 3 * proc[p].limit) : Decided(p, Merged(proc[p], t))
    BY Zenon DEF variant_finished, Merged, Decided
  <1>4. PICK y : Joined(proc[p], y) /\ Decided(p, y)
    BY Zenon, <1>1, <1>3, MergedFacts
  <1>5. ASSUME NEW ds \in Ranked(y.docs, y.limit), proc' = [proc EXCEPT ![p] = Answered(y, ds)]
        PROVE  RInv'
    BY Zenon, <1>1, <1>2, <1>4, <1>5, AnsweredHolds, ProcStep DEF ProcHolds
  <1>6. ASSUME y.variant # Len(Variants[y.query]),
               proc' = [proc EXCEPT ![p] = Hop([y EXCEPT !.variant = @ + 1, !.hop = 1], y.asked).search]
        PROVE  RInv'
    <2>1. proc[p].variant # Len(Variants[proc[p].query])
      BY <1>4, <1>6 DEF Joined, SameRequest
    <2>2. PICK z : /\ z = Hop([y EXCEPT !.variant = @ + 1, !.hop = 1], y.asked).search
                   /\ proc' = [proc EXCEPT ![p] = z]
      BY Zenon, <1>6
    <2>3. SearchHolds(z, now, Ripe)
      BY Zenon, <1>1, <1>4, <2>1, <2>2, VariantHolds
    <2> QED  BY Zenon, <1>2, <2>2, <2>3, ProcStep DEF ProcHolds
  <1> QED  BY Zenon, <1>4, <1>5, <1>6 DEF Decided

\* The response is sent.
LEMMA finishedHolds ==
    ASSUME RInv, NEW p \in Procs, finished(p)
    PROVE  RInv'
  BY Zenon, ProcStep DEF finished, NoSearch, ProcHolds

\* A restart leaves Redis, whose entries hold by themselves.
LEMMA RestartHolds == RInv /\ Restart => RInv'
  <1> SUFFICES ASSUME RInv, Restart PROVE RInv'
    BY Zenon
  <1>1. UNCHANGED <<now, since, redis>> /\ local' = <<>> /\ stats' = <<>> /\ proc' = [p \in Procs |-> NoSearch]
    BY Zenon DEF Restart
  <1>2. RTypes'
    BY <1>1 DEF RInv, RTypes
  <1> QED  BY <1>1, <1>2, RipeStays DEF RInv, ProcHolds, NoSearch

\* The smaller of two numbers.
LEMMA MinFacts == ASSUME NEW a \in Nat, NEW b \in Nat PROVE Min({a, b}) <= a /\ Min({a, b}) \in Nat
  <1>1. \E x \in {a, b} : \A y \in {a, b} : x <= y
    <2>1. CASE a <= b  BY <2>1
    <2>2. CASE ~(a <= b)  BY <2>2
    <2> QED  BY Zenon, <2>1, <2>2
  <1> QED  BY Zenon, <1>1 DEF Min

\* Time passes only while every search awaits sources within their timeout; Redis drops what has expired.
LEMMA TickHolds == RInv /\ Tick => RInv'
  <1> SUFFICES ASSUME RInv, Tick PROVE RInv'
    BY Zenon
  <1>1. /\ now' = now + 1 /\ now < MaxTime /\ UNCHANGED <<since, local, stats, proc>>
        /\ redis' = {e \in redis : e.expires > now'}
    BY Zenon DEF Tick
  <1>2. RTypes /\ now \in Nat /\ now + 1 \in 0..MaxTime
    BY <1>1, RetrievalAssumption DEF RInv, RTypes
  <1>3. RTypes'
    BY Zenon, <1>1, <1>2 DEF RTypes
  <1>4. ASSUME NEW i \in DOMAIN local PROVE LocalHolds(local[i], now + 1, Ripe)
    <2>1. local[i] \in Entries /\ LocalHolds(local[i], now, Ripe)
      BY <1>2 DEF RInv, RTypes
    <2> QED  BY <1>2, <2>1, EntryKey, Times DEF LocalHolds
  <1>5. ASSUME NEW e \in redis, e.expires > now + 1 PROVE RedisHolds(e, now + 1, Ripe)
    <2>1. e \in Entries /\ RedisHolds(e, now, Ripe)
      BY Zenon, <1>2 DEF RInv, RTypes
    <2> QED  BY <1>2, <1>5, <2>1, EntryKey, Times DEF RedisHolds
  <1>6. ASSUME NEW p \in Procs PROVE ProcHolds(proc[p], now + 1, Ripe)
    <2>1. CASE proc[p].pc = "idle"
      BY <2>1 DEF ProcHolds
    <2>2. CASE proc[p].pc # "idle"
      <3>1. proc[p].pending # {} /\ now < Deadline(p) /\ proc[p].pc # "answered"
        BY Zenon, <2>2 DEF Tick, Suspended, Running
      <3>2. PICK x : x = proc[p] /\ SearchHolds(x, now, Ripe)
        BY <2>2, <3>1, Searching
      <3>3. x.pc \in {"fast", "slow"} /\ x.t0 \in Nat /\ x.began \in Nat
        BY Zenon, <3>1, <3>2 DEF SearchHolds, Timed, Shape, Pipe, Stage
      <3>4. now + 1 <= x.t0 + Timeout
        <4>1. PICK u \in Nat : u = x.t0 + Timeout
          BY <3>3, Times
        <4>2. Deadline(p) = Min({u, MaxTime})
          BY Zenon, <3>2, <4>1 DEF Deadline
        <4>3. Min({u, MaxTime}) <= u /\ Min({u, MaxTime}) \in Nat
          BY Zenon, MinFacts, RetrievalAssumption
        <4> QED  BY <1>2, <3>1, <4>1, <4>2, <4>3
      <3>5. Timed(x, now + 1)
        BY <1>2, <3>2, <3>3, <3>4, Times DEF SearchHolds, Timed
      <3>6. StoreHolds(x, now + 1, Ripe) /\ FirstHolds(x, now + 1, Ripe)
        BY Zenon, <3>2, <3>3 DEF SearchHolds, StoreHolds, FirstHolds
      <3> QED  BY Zenon, <3>2, <3>5, <3>6 DEF SearchHolds, ProcHolds
    <2> QED  BY Zenon, <2>1, <2>2
  <1> QED  BY Zenon, <1>1, <1>3, <1>4, <1>5, <1>6, RipeStays DEF RInv

\* No search, no entry: the invariant holds at first.
LEMMA InitHolds == SearchInit => RInv
  <1> SUFFICES ASSUME SearchInit PROVE RInv
    BY Zenon
  <1>1. since \in [Sources -> [Docs -> 0..Never]] /\ now \in 0..MaxTime
    BY RetrievalAssumption DEF SearchInit, Never
  <1>2. RTypes
    BY <1>1 DEF SearchInit, RTypes
  <1> QED  BY <1>2 DEF SearchInit, RInv, ProcHolds, NoSearch

\* Every step keeps the invariant.
LEMMA StepsHold == RInv /\ [SearchNext]_searchVars => RInv'
  <1> SUFFICES ASSUME RInv, [SearchNext]_searchVars PROVE RInv'
    BY Zenon
  <1>1. CASE UNCHANGED searchVars
    BY <1>1, RipeStays DEF RInv, RTypes, searchVars
  <1>2. ASSUME NEW p \in Procs, Run(p) PROVE RInv'
    BY Zenon, <1>2, pathway_cache_getHolds, pathway_cache_setHolds, escalateHolds, variant_finishedHolds,
       finishedHolds DEF Run
  <1>3. ASSUME NEW p \in Procs, Resume(p) PROVE RInv'
    BY Zenon, <1>3, pathway_cache_backend_getHolds, batch_gatheredHolds, pathway_cache_backend_setHolds DEF Resume
  <1>4. CASE Environment
    <2>1. ASSUME NEW p \in Clients, NEW q \in Queries, NEW m \in Modes, NEW o \in Overrides,
                 search_memory(p, q, m, o)
          PROVE  RInv'
      BY <2>1, search_memoryHolds DEF Procs
    <2> QED  BY Zenon, <1>4, <2>1, warm_retrieval_pathwaysHolds, source_rowsHolds,
                source_partialHolds, source_raisesHolds, IndexHolds, RestartHolds, TickHolds DEF Environment
  <1> QED  BY Zenon, <1>1, <1>2, <1>3, <1>4 DEF SearchNext

\* In every behaviour of the search, searches, answers and both caches hold what RInv says.
THEOREM SearchInvariant == SearchSpec => []RInv
  BY InitHolds, StepsHold, PTL DEF SearchSpec

-----------------------------------------------------------------------------
(* The bounds of the caches, and the counters *)

Counters == [requests : Nat, errors : Nat, timeouts : Nat]
BInv ==
    /\ counts \in [SlowSources -> Counters]
    /\ \A s \in SlowSources : counts[s].errors <= counts[s].requests /\ counts[s].timeouts <= counts[s].errors
    /\ Len(local) <= MaxKeys /\ Len(stats) <= StatsMaxKeys

\* _record_retrieval_source_latency counts a timeout as an error and an error as a request.
LEMMA CountedHolds ==
    ASSUME BInv, NEW s, NEW er \in BOOLEAN, NEW to \in BOOLEAN, to => er, counts' = Counted(s, er, to),
           UNCHANGED <<local, stats>>
    PROVE  BInv'
  <1>1. CASE s \notin SlowSources
    BY Zenon, <1>1 DEF Counted, BInv
  <1>2. CASE s \in SlowSources
    <2>1. PICK c : c = counts[s]
      BY Zenon
    <2>2. PICK e, t \in {0, 1} : e = (IF er THEN 1 ELSE 0) /\ t = (IF to THEN 1 ELSE 0) /\ t <= e
      OBVIOUS
    <2>3. PICK d : d = [requests |-> c.requests + 1, errors |-> c.errors + e, timeouts |-> c.timeouts + t]
      BY Zenon
    <2>4. counts' = [counts EXCEPT ![s] = d]
      BY Zenon, <1>2, <2>1, <2>2, <2>3 DEF Counted
    <2>5. d \in Counters /\ d.errors <= d.requests /\ d.timeouts <= d.errors
      BY <1>2, <2>1, <2>2, <2>3 DEF BInv, Counters
    <2>6. counts' \in [SlowSources -> Counters] /\ \A z \in SlowSources : counts'[z] = (IF z = s THEN d ELSE counts[z])
      BY <2>4, <2>5 DEF BInv
    <2> QED  BY Zenon, <2>5, <2>6 DEF BInv
  <1> QED  BY Zenon, <1>1, <1>2

\* An entry joins process memory, or none does.
LEMMA PutBound ==
    ASSUME RInv, BInv, NEW e \in Entries
    PROVE  Len(LruPut(local, e, MaxKeys)) <= MaxKeys
  <1>1. local \in Seq(Entries) /\ MaxKeys \in Nat /\ Len(local) <= MaxKeys
    BY Zenon, RetrievalAssumption DEF RInv, RTypes, BInv
  <1> QED  BY Zenon, <1>1, LruLength

\* Observing a search keeps the statistics within their bound.
LEMMA SeenBound ==
    ASSUME RInv, BInv, NEW p \in Procs, proc[p].pc \notin {"idle", "answered"}
    PROVE  Len(Observed(p, proc[p].key)) <= StatsMaxKeys
  BY Zenon, Searching, ObservedFacts DEF BInv, SearchHolds, Shape

\* Every step keeps the bounds of the caches and the order of the counters.
LEMMA BoundsHold ==
    ASSUME RInv, BInv, SearchNext
    PROVE  BInv'
  <1>1. local \in Seq(Entries) /\ redis \subseteq Entries /\ stats \in Seq(Seen)
    BY Zenon DEF RInv, RTypes
  <1>2. ASSUME NEW p \in Procs, pathway_cache_get(p) PROVE BInv'
    <2>1. /\ UNCHANGED counts /\ proc[p].pc = "lookup"
          /\ \/ local' = Without(local, proc[p].key) /\ UNCHANGED stats
             \/ \E e \in Range(local) : local' = LruPut(local, e, MaxKeys) /\ stats' = Observed(p, proc[p].key)
      BY Zenon, <1>2 DEF pathway_cache_get, Lookup
    <2>2. Len(Without(local, proc[p].key)) <= MaxKeys
      <3>1. Len(Without(local, proc[p].key)) <= Len(local) /\ Without(local, proc[p].key) \in Seq(Entries)
        BY Zenon, <1>1, WithoutFacts
      <3>2. Len(local) <= MaxKeys /\ MaxKeys \in Nat
        BY Zenon, RetrievalAssumption DEF BInv
      <3>3. Len(Without(local, proc[p].key)) \in Nat /\ Len(local) \in Nat
        BY <1>1, <3>1
      <3> QED  BY <3>1, <3>2, <3>3
    <2>3. \A e \in Range(local) : e \in Entries
      BY <1>1 DEF Range
    <2> QED  BY Zenon, <2>1, <2>2, <2>3, PutBound, SeenBound DEF BInv
  <1>3. ASSUME NEW p \in Procs, pathway_cache_backend_get(p) PROVE BInv'
    <2>1. /\ UNCHANGED counts /\ proc[p].pc = "backend"
          /\ \/ UNCHANGED <<local, stats>>
             \/ \E e \in redis : /\ local' = LruPut(local, [e EXCEPT !.expires = now + TTL], MaxKeys)
                                 /\ stats' = Observed(p, proc[p].key)
      BY Zenon, <1>3 DEF pathway_cache_backend_get
    <2>2. ASSUME NEW e \in redis PROVE [e EXCEPT !.expires = now + TTL] \in Entries
      <3>1. PICK u \in Nat : u = now + TTL
        BY Times, RetrievalAssumption DEF RInv, RTypes
      <3>2. [e EXCEPT !.expires = u] \in Entries
        BY <1>1 DEF Entries
      <3> QED  BY Zenon, <3>1, <3>2
    <2> QED  BY Zenon, <2>1, <2>2, PutBound, SeenBound DEF BInv
  <1>4. ASSUME NEW p \in Procs, pathway_cache_set(p) PROVE BInv'
    <2>1. local' = LruPut(local, Stored(proc[p]), MaxKeys) /\ UNCHANGED <<counts, stats>> /\ proc[p].pc = "store"
      BY Zenon, <1>4 DEF pathway_cache_set, Stored
    <2> QED  BY Zenon, <2>1, Searching, StoredFacts, PutBound DEF BInv
  <1>5. ASSUME NEW p \in Procs, pathway_cache_backend_set(p) PROVE BInv'
    <2>1. stats' = Observed(p, proc[p].key) /\ UNCHANGED <<counts, local>> /\ proc[p].pc = "backup"
      BY Zenon, <1>5 DEF pathway_cache_backend_set
    <2> QED  BY Zenon, <2>1, SeenBound DEF BInv
  <1>6. ASSUME NEW e, warm_retrieval_pathways(e) PROVE BInv'
    <2>1. stats' = Remembered /\ UNCHANGED <<counts, local>>
      BY Zenon, <1>6 DEF warm_retrieval_pathways
    <2>2. Len(Remembered) <= Len(stats) /\ Remembered \in Seq(Seen)
      BY Zenon, <1>1, RememberedFacts
    <2>3. Len(stats) <= StatsMaxKeys /\ StatsMaxKeys \in Nat
      BY Zenon, RetrievalAssumption DEF BInv
    <2>4. Len(Remembered) <= StatsMaxKeys
      BY <1>1, <2>2, <2>3
    <2> QED  BY Zenon, <2>1, <2>4 DEF BInv
  <1>7. ASSUME NEW p \in Procs, NEW s \in Sources,
               source_rows(p, s) \/ source_partial(p, s) \/ source_failure(p, s) \/ source_timeout(p, s)
        PROVE  BInv'
    <2>1. UNCHANGED <<local, stats>>
      BY Zenon, <1>7 DEF source_rows, source_partial, source_failure, source_timeout
    <2>2. counts' \in {Counted(s, FALSE, FALSE), Counted(s, TRUE, FALSE), Counted(s, TRUE, TRUE)}
      BY Zenon, <1>7 DEF source_rows, source_partial, source_failure, source_timeout
    <2> QED  BY Zenon, <2>1, <2>2, CountedHolds
  <1>8. ASSUME Restart PROVE BInv'
    <2>1. /\ counts' = [s \in SlowSources |-> [requests |-> 0, errors |-> 0, timeouts |-> 0]]
          /\ local' = <<>> /\ stats' = <<>>
      BY Zenon, <1>8 DEF Restart
    <2> QED  BY <2>1, RetrievalAssumption DEF BInv, Counters
  <1>9. ASSUME UNCHANGED <<counts, local, stats>> PROVE BInv'
    BY Zenon, <1>9 DEF BInv
  <1>10. ASSUME NEW p \in Procs, Run(p) \/ Resume(p) PROVE BInv'
    BY Zenon, <1>2, <1>3, <1>4, <1>5, <1>9, <1>10
       DEF Run, Resume, escalate, variant_finished, finished, batch_gathered
  <1>11. CASE Environment
    BY Zenon, <1>6, <1>7, <1>8, <1>9, <1>11 DEF Environment, search_memory, Index, Tick
  <1> QED  BY Zenon, <1>10, <1>11 DEF SearchNext

\* The bounds hold in every behaviour.
LEMMA BoundsInvariant == SearchSpec => []BInv
  <1>1. SearchInit => BInv
    BY RetrievalAssumption DEF SearchInit, BInv, Counters
  <1>2. RInv /\ BInv /\ [SearchNext]_searchVars => BInv'
    BY BoundsHold DEF BInv, searchVars
  <1> QED  BY <1>1, <1>2, SearchInvariant, PTL DEF SearchSpec

\* Both caches hold well-formed entries, process memory and the statistics stay within the bounds they
\* evict at (RETRIEVAL_PATHWAY_CACHE_MAX_KEYS, RETRIEVAL_PATHWAY_STATS_MAX_KEYS), and no source has more
\* timeouts than errors or more errors than requests, whatever the interleaving of searches.
THEOREM SearchTypes == SearchSpec => []SearchTypeOK
  <1>1. RInv /\ BInv => SearchTypeOK
    BY Zenon DEF RInv, RTypes, BInv, ProcHolds, SearchHolds, Shape, AnswerHolds, SearchTypeOK
  <1> QED  BY <1>1, SearchInvariant, BoundsInvariant, PTL

\* A source that raised in any hop of an answer, or while a bundle that a cache gave it was computed, and a
\* source in its source_errors, is in its warnings, through escalations, query variants and both caches.
THEOREM AnswersAreWarned == SearchSpec => []ErrorsAreWarned
  <1>1. RInv => ErrorsAreWarned
    BY Zenon DEF RInv, ProcHolds, SearchHolds, Shape, AnswerHolds, ErrorsAreWarned, Procs
  <1> QED  BY <1>1, SearchInvariant, PTL

\* An answer has what a source of the search has held for longer than its lag and StaleBound, or is full,
\* or says why not, or the source was skipped or answered in part: the two times to live of process memory
\* and Redis (_retrieval_pathway_cache_get) and the two stages of a fetch are all that the search adds to the
\* source's own lag.
THEOREM AnswersAreFresh == SearchSpec => []FreshOrExplained
  <1>1. RInv => FreshOrExplained
    <2> SUFFICES ASSUME RInv, NEW p \in Clients, proc[p].pc = "answered",
                        NEW s \in ResolveSources(proc[p].asked, proc[p].override), NEW d \in Match[proc[p].query],
                        since[s][d] + Lag[s] + StaleBound < proc[p].began
                 PROVE  \/ d \in proc[p].docs \/ Cardinality(proc[p].docs) = proc[p].limit
                        \/ s \in proc[p].warned \/ s \in proc[p].unsaid
      BY Zenon DEF FreshOrExplained
    <2>1. AnswerHolds(proc[p], now, Ripe)
      BY Zenon DEF RInv, ProcHolds, SearchHolds, Shape, Procs
    <2>2. s \in Sources /\ d \in Docs
      BY <2>1, ResolveFacts, RetrievalAssumption DEF AnswerHolds
    <2>3. Ripe[s][d] = since[s][d] + Lag[s]
      BY Zenon, <2>2, RipeFacts DEF RInv
    <2>4. Ripe[s][d] + StaleBound < proc[p].began
      BY Zenon, <2>3
    <2> QED  BY Zenon, <2>1, <2>4 DEF AnswerHolds
  <1> QED  BY <1>1, SearchInvariant, PTL
=============================================================================
