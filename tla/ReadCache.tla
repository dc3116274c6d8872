------------------------------ MODULE ReadCache ------------------------------
(***************************************************************************)
(* Reading a memory-bank file (read_project_file in                        *)
(* services/orchestrator/app.py): the bank first; when it fails or is too  *)
(* slow, a cached copy that may be stale, with one background refresh per  *)
(* key; when the file does not exist, a placeholder written on the spot.   *)
(*                                                                         *)
(* A file's contents are numbered in the order the bank stored them; 0 is  *)
(* a file that does not exist, Stub the placeholder.  Files of the bank    *)
(* whose names differ only in case have one cache key between them.        *)
(***************************************************************************)
EXTENDS Naturals, FiniteSets, Sequences, Functions

CONSTANTS
    Files, Readers,
    KeyOf,            \* _memory_read_cache_key of each file
    Indexes,          \* files for which _build_missing_memory_file_stub has a placeholder
    StaleMax,         \* the larger of MEMMCP_READ_CACHE_FRESH_TTL_SECS and _STALE_MAX_SECS
    ReadTimeout,      \* MEMMCP_READ_TIMEOUT_SECS
    RefreshTimeout,   \* MEMMCP_READ_CACHE_REFRESH_TIMEOUT_SECS
    MaxCachedFiles,          \* MEMMCP_READ_CACHE_MAX_KEYS
    MaxInflight,      \* MEMMCP_READ_CACHE_REFRESH_MAX_INFLIGHT
    MaxReadTime,          \* bound: clock
    MaxWrites,        \* bound: writes to one file
    MaxReads          \* bound: reads made

ASSUME ReadCacheAssumption ==
    /\ StaleMax \in Nat /\ ReadTimeout \in Nat /\ RefreshTimeout \in Nat
    /\ MaxReadTime \in Nat /\ MaxWrites \in Nat

VARIABLES
    clock,      \* time.monotonic()
    bank,       \* the bank's copy of each file
    until,      \* for each file, when each of its contents was replaced (ghost)
    cache,      \* memory_read_cache, least recently used first
    reads,      \* reads in progress; `from' is the file a served copy was read of
    made,       \* reads made so far
    inflight,   \* memory_read_cache_refresh_inflight
    runners     \* refresh tasks that are running

rvars == <<clock, bank, until, cache, reads, made, inflight, runners>>

Missing == 0
Stub == MaxWrites + 1
Unread == MaxWrites + 2
NotYet == MaxReadTime + 1

Idle == [pc |-> "idle", file |-> "", bootstrap |-> FALSE, at |-> 0, got |-> Unread,
         from |-> ""]

CacheInit ==
    /\ clock = 0
    /\ bank = [f \in Files |-> Missing] /\ until = [f \in Files |-> <<>>]
    /\ cache = <<>>
    /\ reads = [r \in Readers |-> Idle] /\ made = 0
    /\ inflight = {} /\ runners = {}
-----------------------------------------------------------------------------
(* The cache *)

Cached(f) == {e \in Range(cache) : KeyOf[e.file] = KeyOf[f]}

(* The cache without the entry of the file's key, of which it has one at most. *)
Others(f) ==
    IF \E i \in DOMAIN cache : KeyOf[cache[i].file] = KeyOf[f]
    THEN LET i == CHOOSE i \in DOMAIN cache : KeyOf[cache[i].file] = KeyOf[f]
         IN  SubSeq(cache, 1, i - 1) \o SubSeq(cache, i + 1, Len(cache))
    ELSE cache

(* Mutant: the age of an entry is not looked at. *)
Usable_any(f) == Cached(f)

(* _memory_read_cache_get with allow_stale: an entry that is young enough moves
   to the end, an older one is dropped.                                        *)
Usable(f) == {e \in Cached(f) : clock - e.at <= StaleMax}

(* _memory_read_cache_set: the newest entry goes to the end and the least
   recently used one makes room for it.                                     *)
CacheSet(f, content) ==
    LET put == Append(Others(f), [file |-> f, content |-> content, at |-> clock])
    IN  IF Len(put) > MaxCachedFiles THEN Tail(put) ELSE put

(* _schedule_memory_read_cache_refresh: nothing if a refresh of this key runs or
   too many do.                                                                *)
MayRefresh(f) == KeyOf[f] \notin inflight /\ Cardinality(inflight) < MaxInflight

ScheduleRefresh(f) ==
    IF MayRefresh(f)
    THEN /\ inflight' = inflight \cup {KeyOf[f]}
         /\ \E id \in 0..MaxInflight :
               LET task == [id |-> id, file |-> f, at |-> clock, got |-> Unread]
               IN  task.id \notin {t.id : t \in runners} /\ runners' = runners \cup {task}
    ELSE UNCHANGED <<inflight, runners>>

(* The content a file loses now. *)
Replaced(f) ==
    IF bank[f] \in {Missing, Stub} THEN until[f] ELSE [until[f] EXCEPT ![bank[f]] = clock]
-----------------------------------------------------------------------------
(* read_project_file *)

StartRead(r, f, bootstrap) ==
    /\ reads[r].pc = "idle" /\ made < MaxReads
    /\ made' = made + 1
    /\ reads' = [reads EXCEPT ![r] = [pc |-> "remote", file |-> f, bootstrap |-> bootstrap,
                                      at |-> clock, got |-> Unread, from |-> ""]]
    /\ UNCHANGED <<clock, bank, until, cache, inflight, runners>>

(* The bank reads the file; its answer travels back. *)
BankReads(r) ==
    /\ reads[r].pc = "remote" /\ reads[r].got = Unread
    /\ reads' = [reads EXCEPT ![r].got = bank[reads[r].file]]
    /\ UNCHANGED <<clock, bank, until, cache, made, inflight, runners>>

Answer(r) == reads' = [reads EXCEPT ![r] = Idle]

(* Content arrives: it is cached and returned. *)
ReadOk(r) ==
    /\ reads[r].pc = "remote" /\ reads[r].got \notin {Unread, Missing}
    /\ cache' = CacheSet(reads[r].file, reads[r].got)
    /\ Answer(r)
    /\ UNCHANGED <<clock, bank, until, made, inflight, runners>>

(* A cached copy is served and a refresh started. *)
ServeCached(r) ==
    LET f == reads[r].file
    IN  \E e \in Usable(f) :
            /\ cache' = Append(Others(f), e)
            /\ ScheduleRefresh(f)
            /\ reads' = [reads EXCEPT ![r].pc = "served", ![r].got = e.content, ![r].from = e.file]

(* The bank failed or took too long.  Without a usable copy the error is raised. *)
ReadFailed(r) ==
    /\ reads[r].pc = "remote"
    /\ \/ ServeCached(r)
       \/ /\ Usable(reads[r].file) = {}
          /\ cache' = Others(reads[r].file)
          /\ Answer(r)
          /\ UNCHANGED <<inflight, runners>>
    /\ UNCHANGED <<clock, bank, until, made>>

(* Any other answer ends the read without a look at the cache: an error that is
   not transient is raised, an empty content returned.                         *)
ReadRefused(r) ==
    /\ reads[r].pc = "remote"
    /\ Answer(r)
    /\ UNCHANGED <<clock, bank, until, cache, made, inflight, runners>>

(* Not found is reported as a status 500, so a cached copy is served first;
   otherwise the placeholder is written, or the file is reported missing.     *)
ReadMissing(r) ==
    LET f == reads[r].file
    IN  /\ reads[r].pc = "remote" /\ reads[r].got = Missing
        /\ \/ ServeCached(r)
           \/ /\ Usable(f) = {}
              /\ cache' = Others(f)
              /\ IF reads[r].bootstrap /\ f \in Indexes
                 THEN reads' = [reads EXCEPT ![r].pc = "bootstrap"]
                 ELSE Answer(r)
              /\ UNCHANGED <<inflight, runners>>
        /\ UNCHANGED <<clock, bank, until, made>>

(* _bootstrap_missing_memory_file: the placeholder is returned and cached even
   when its write failed.                                                      *)
Bootstrap(r) ==
    LET f == reads[r].file
    IN  /\ reads[r].pc = "bootstrap"
        /\ \/ /\ bank' = [bank EXCEPT ![f] = Stub]
              /\ until' = [until EXCEPT ![f] = Replaced(f)]
           \/ UNCHANGED <<bank, until>>
        /\ cache' = CacheSet(f, Stub)
        /\ Answer(r)
        /\ UNCHANGED <<clock, made, inflight, runners>>

ServedEnd(r) ==
    /\ reads[r].pc = "served"
    /\ Answer(r)
    /\ UNCHANGED <<clock, bank, until, cache, made, inflight, runners>>
-----------------------------------------------------------------------------
(* The refresh task *)

RefreshReads(t) ==
    /\ t.got = Unread
    /\ runners' = (runners \ {t}) \cup {[t EXCEPT !.got = bank[t.file]]}
    /\ UNCHANGED <<clock, bank, until, cache, reads, made, inflight>>

(* Content is cached; on every path the key is released. *)
RefreshDone(t) ==
    /\ t.got \notin {Unread, Missing}
    /\ cache' = CacheSet(t.file, t.got)
    /\ inflight' = inflight \ {KeyOf[t.file]}
    /\ runners' = runners \ {t}
    /\ UNCHANGED <<clock, bank, until, reads, made>>

(* Mutant: a refresh waits for the bank without a timeout. *)
RefreshFailed_answered(t) ==
    /\ t.got # Unread
    /\ inflight' = inflight \ {KeyOf[t.file]}
    /\ runners' = runners \ {t}
    /\ UNCHANGED <<clock, bank, until, cache, reads, made>>

RefreshFailed(t) ==
    /\ inflight' = inflight \ {KeyOf[t.file]}
    /\ runners' = runners \ {t}
    /\ UNCHANGED <<clock, bank, until, cache, reads, made>>
-----------------------------------------------------------------------------
(* A client's write reaches the bank; the cache is not told. *)
Write(f) ==
    LET stored == Len(until[f])
    IN  /\ stored < MaxWrites
        /\ bank' = [bank EXCEPT ![f] = stored + 1]
        /\ until' = [until EXCEPT ![f] = Append(Replaced(f), NotYet)]
        /\ UNCHANGED <<clock, cache, reads, made, inflight, runners>>

(* A served answer is returned at once and no deadline is overrun. *)
CacheTick ==
    /\ clock < MaxReadTime
    /\ \A r \in Readers : /\ reads[r].pc # "served"
                          /\ reads[r].pc = "remote" => clock < reads[r].at + ReadTimeout
    /\ \A t \in runners : clock < t.at + RefreshTimeout
    /\ clock' = clock + 1
    /\ UNCHANGED <<bank, until, cache, reads, made, inflight, runners>>

Reader(r) ==
    \/ \E f \in Files, bootstrap \in BOOLEAN : StartRead(r, f, bootstrap)
    \/ BankReads(r) \/ ReadOk(r) \/ ReadFailed(r) \/ ReadRefused(r) \/ ReadMissing(r)
    \/ Bootstrap(r) \/ ServedEnd(r)

Refresher(t) == RefreshReads(t) \/ RefreshDone(t) \/ RefreshFailed(t)

CacheNext ==
    \/ \E r \in Readers : Reader(r)
    \/ \E t \in runners : Refresher(t)
    \/ \E f \in Files : Write(f)
    \/ CacheTick

CacheSpec == CacheInit /\ [][CacheNext]_rvars

(* What timers bring about: a read or a refresh that is not answered fails. *)
CacheDue ==
    \/ \E r \in Readers : ReadFailed(r) \/ Bootstrap(r) \/ ServedEnd(r)
    \/ \E t \in runners : RefreshFailed(t)
-----------------------------------------------------------------------------
(* A copy served from the cache was in the bank, as the content of the file that
   was asked for or of one with the same key, no longer ago than the stale bound
   plus the time one read or refresh may take, also when a slow read caches an older
   content over a newer one; the placeholder, which may never have been in the bank,
   is the exception (read_project_file, _memory_read_cache_get).                   *)
ServedAge ==
    \A r \in Readers :
        LET x == reads[r]
        IN  x.pc = "served" =>
                /\ KeyOf[x.from] = KeyOf[x.file]
                /\ x.got # Stub =>
                      clock <= until[x.from][x.got] + StaleMax
                               + (IF ReadTimeout > RefreshTimeout THEN ReadTimeout ELSE RefreshTimeout)

(* The refresh mark of a key does not stay: a failed refresh releases it too
   (_schedule_memory_read_cache_refresh, the finally of its runner).         *)
RefreshesEnd == \A f \in Files : []<>(KeyOf[f] \notin inflight)
=============================================================================
