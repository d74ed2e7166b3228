------------------------------ MODULE BcpCache ------------------------------
(***************************************************************************)
(* The in-memory cache in front of one kind of BCP call: Cache[T] of       *)
(* internal/bcp/cache.go.                                                  *)
(*                                                                         *)
(* Request goroutines (Callers) call Get; the first one to miss runs the   *)
(* fetch itself, later ones wait on it, and a stale-while-revalidate cache *)
(* hands the fetch to a background goroutine (Workers).  Every locked      *)
(* section of the code is one action.  A fetch is three steps, because the *)
(* lock is not held around it: the source answers (Respond), the outcome   *)
(* is stored under the lock (Land), and the waiters are released (Close).  *)
(*                                                                         *)
(* The code keeps instants and only ever asks how long ago they were, so   *)
(* the model keeps ages, in ticks, and Tick makes everything older.  Ages  *)
(* stop growing at MaxAge, beyond which no comparison changes.  A value is *)
(* represented by how long ago it was true at its source ("truth"), which  *)
(* is all the properties tell apart.                                       *)
(***************************************************************************)
EXTENDS Integers, FiniteSets, Functions

CONSTANTS
  Keys,            \* event ids, "event:type:round", "league:user", ...
  Callers,         \* request goroutines
  Workers,         \* background revalidation goroutines (a bound on them)
  Ttls,            \* the lifetimes ttlOf gives to values
  MaxTtl,          \* the longest of them
  GoneTTL,         \* how long a 404/410 is replayed
  Backoff,         \* how long any other failure is replayed
  MinInvalidate,   \* minManualInvalidateInterval
  FetchTimeout,    \* the deadline of one shared fetch
  RowDelay,        \* how much older than its row's cached_at a durable value may
                   \* be: its fetch, the wait for a slot, the background write
  MaxEntries,      \* maxCacheEntries
  MaxAge           \* bound on ages

ASSUME TimesAssumption ==
  /\ MaxTtl \in Nat \ {0} /\ Ttls \subseteq 1..MaxTtl
  /\ FetchTimeout \in Nat /\ FetchTimeout < MaxTtl
  /\ RowDelay \in Nat /\ FetchTimeout =< RowDelay
  /\ GoneTTL \in Nat \ {0} /\ Backoff \in Nat \ {0}
  /\ MaxAge \in Nat /\ 2 * MaxTtl + RowDelay =< MaxAge
  /\ GoneTTL =< MaxAge /\ Backoff =< MaxAge
  /\ MinInvalidate \in Nat
  /\ \A d \in Ttls \cup {GoneTTL, Backoff} : MinInvalidate =< d

ASSUME ActorsAssumption ==
  /\ Callers \cap Workers = {}
  /\ IsFiniteSet(Keys) /\ IsFiniteSet(Callers \cup Workers)
  /\ MaxEntries \in Nat \ {0}

Runners == Callers \cup Workers      \* whoever may be inside runFetch

VARIABLES
  serveStale,  \* the cache was built by NewCacheWithStaleWhileRevalidate
  entries,     \* map: key -> [truth, age, ttl], age being that of fetchedAt
  gone,        \* map: key -> [err, age, ttl], age being that of recordedAt
  inFlight,    \* map: key -> the runner of the registered fetch
  run,         \* each runner's progress through runFetch
  waiting,     \* each caller blocked in Get: the runner it waits on
  returned,    \* what Get returned in the last step, if it did
  sinceBcp     \* history: key -> how long ago BCP itself answered for it,
               \* forgotten when the key is seeded or that answer evicted

vars == <<serveStale, entries, gone, inFlight, run, waiting, returned, sinceBcp>>

----------------------------------------------------------------------------
Age == 0..MaxAge
Errors == {"gone", "fail"}           \* a 404/410 (IsGone), or any other error
Entry == [truth : Age, age : Age, ttl : Ttls]
Marker == [err : Errors, age : Age, ttl : {GoneTTL, Backoff}]

\* What a fetch returned: an error, or a value with the age its entry will
\* have.  That is how long ago the fetch returned, unless it answered from a
\* durable row and noted when that row was stored (noteStoredAt): the now() of
\* its write, by which time the data was older.
Outcome ==
  [kind : Errors] \cup [kind : {"live", "row"}, truth : Age, age : Age]

\* What a fetch gives those who wait for it, and what Get returned.
Result == [kind : Errors] \cup [kind : {"data"}, truth : Age]
Silent == [kind |-> "none"]
Returned == {Silent} \cup Result

Run ==
  [pc : {"idle"}]
    \cup [pc : {"upstream"}, key : Keys, age : Age]
    \cup [pc : {"landing"}, key : Keys, age : Age, out : Outcome]
    \cup [pc : {"closing"}, result : Result]

IsMap(m, D, S) == DOMAIN m \subseteq D /\ m \in [DOMAIN m -> S]

TypeOK ==
  /\ serveStale \in BOOLEAN
  /\ IsMap(entries, Keys, Entry)
  /\ IsMap(gone, Keys, Marker)
  /\ IsMap(inFlight, Keys, Runners)
  /\ run \in [Runners -> Run]
  /\ IsMap(waiting, Callers, Runners)
  /\ returned \in Returned
  /\ IsMap(sinceBcp, Keys, Age)

----------------------------------------------------------------------------
EmptyMap == [x \in {} |-> x]
With(m, k, v) == [x \in DOMAIN m \cup {k} |-> IF x = k THEN v ELSE m[x]]
Without(m, D) == Restrict(m, DOMAIN m \ D)

Live(m, k) == k \in DOMAIN m /\ m[k].age < m[k].ttl
Fresh(k) == Live(entries, k)
Marked(k) == Live(gone, k)
Servable(k) == /\ serveStale
               /\ k \in DOMAIN entries
               /\ entries[k].age < 2 * entries[k].ttl

\* Fault: under pressure the oldest entries go, expired or not.
OldestFirst(m) ==
  IF Cardinality(DOMAIN m) =< MaxEntries THEN {DOMAIN m}
  ELSE {S \in SUBSET DOMAIN m :
          /\ Cardinality(S) = MaxEntries
          /\ \A k \in S, d \in DOMAIN m \ S : m[k].age =< m[d].age}

\* The keys that may survive an eviction of map m: all of them up to the
\* capacity; else the unexpired ones, cut to the capacity oldest first.  Go's
\* map order breaks ties, so there may be several sets of survivors.
Survivors(m) ==
  LET live == {k \in DOMAIN m : Live(m, k)} IN
  IF Cardinality(DOMAIN m) =< MaxEntries THEN {DOMAIN m}
  ELSE IF Cardinality(live) =< MaxEntries THEN {live}
  ELSE {S \in SUBSET live :
          /\ Cardinality(S) = MaxEntries
          /\ \A k \in S, d \in live \ S : m[k].age =< m[d].age}

\* evictLocked, run after an entry was stored: it also sweeps the expired
\* markers, but only when the entries were over the capacity.
EvictEntries(es, gs) ==
  /\ \E S \in Survivors(es) : entries' = Restrict(es, S)
  /\ gone' = IF Cardinality(DOMAIN es) =< MaxEntries THEN gs
             ELSE Restrict(gs, {k \in DOMAIN gs : Live(gs, k)})

\* evictGoneLocked, run after a marker was stored.
EvictGone(gs) ==
  /\ \E S \in Survivors(gs) : gone' = Restrict(gs, S)
  /\ UNCHANGED entries

\* Fault: a success leaves the failure recorded before it.
StoreBesideMarker(k, truth, age) ==
  \E ttl \in Ttls :
    EvictEntries(With(entries, k, [truth |-> truth, age |-> age, ttl |-> ttl]), gone)

\* A value stored by runFetch or Put: it takes the lifetime ttlOf gives it,
\* and its key is no longer gone.
Store(k, truth, age) ==
  \E ttl \in Ttls :
    EvictEntries(With(entries, k, [truth |-> truth, age |-> age, ttl |-> ttl]),
                 Without(gone, {k}))

NewMarker(err) ==
  [err |-> err, age |-> 0, ttl |-> IF err = "gone" THEN GoneTTL ELSE Backoff]

\* Fault: nothing bounds the markers of ids that keep failing.
MarkGoneUnbounded(k, err) ==
  /\ gone' = With(gone, k, NewMarker(err))
  /\ UNCHANGED entries

MarkGone(k, err) == EvictGone(With(gone, k, NewMarker(err)))

----------------------------------------------------------------------------
Init ==
  /\ serveStale \in BOOLEAN
  /\ entries = EmptyMap
  /\ gone = EmptyMap
  /\ inFlight = EmptyMap
  /\ run = [r \in Runners |-> [pc |-> "idle"]]
  /\ waiting = EmptyMap
  /\ returned = Silent
  /\ sinceBcp = EmptyMap

Return(a) == returned' = a
ReturnEntry(k) == Return([kind |-> "data", truth |-> entries[k].truth])

\* inFlight registers r as the runner of k's fetch, and r enters runFetch.
StartFetch(r, k) ==
  /\ inFlight' = With(inFlight, k, r)
  /\ run' = [run EXCEPT ![r] = [pc |-> "upstream", key |-> k, age |-> 0]]

\* The history variable, after a step that stored the outcome out for k: BCP
\* answered unless the value is a row's.  A key is forgotten with the record of
\* its last answer (its marker, else its entry); that may be the one just
\* stored, since evictions go by age and the others may all be as recent.
NoteBcp(k, out) ==
  LET evicted == (DOMAIN gone \ DOMAIN gone')
                   \cup ((DOMAIN entries \ DOMAIN gone) \ DOMAIN entries')
      recorded == k \in IF out.kind \in Errors THEN DOMAIN gone' ELSE DOMAIN entries'
      others == Without(sinceBcp, evicted \cup {k})
  IN  sinceBcp' = IF out.kind = "row" \/ ~recorded THEN others
                  ELSE With(others, k, IF out.kind = "live" THEN out.age ELSE 0)

(* Get, one action per way out of its locked section, in the code's order. *)

GetFresh(k) ==
  /\ Fresh(k)
  /\ ReturnEntry(k)
  /\ UNCHANGED <<serveStale, entries, gone, inFlight, run, waiting, sinceBcp>>

\* A recorded failure is replayed; a transient one leaves a servable stale
\* entry usable.
GetMarked(k) ==
  /\ ~Fresh(k) /\ Marked(k)
  /\ IF Servable(k) /\ gone[k].err # "gone"
       THEN ReturnEntry(k)
       ELSE Return([kind |-> gone[k].err])
  /\ UNCHANGED <<serveStale, entries, gone, inFlight, run, waiting, sinceBcp>>

\* Fault: every stale answer starts a refresh of its own.
RevalidateAlways(k) == \E w \in Workers : run[w].pc = "idle" /\ StartFetch(w, k)

\* Refresh k behind the response, unless a fetch of it is already in flight.
Revalidate(k) ==
  \/ /\ k \in DOMAIN inFlight
     /\ UNCHANGED <<inFlight, run>>
  \/ /\ k \notin DOMAIN inFlight
     /\ \E w \in Workers : run[w].pc = "idle" /\ StartFetch(w, k)

\* Stale but servable.
GetStale(k) ==
  /\ ~Fresh(k) /\ ~Marked(k) /\ Servable(k)
  /\ ReturnEntry(k)
  /\ Revalidate(k)
  /\ UNCHANGED <<serveStale, entries, gone, waiting, sinceBcp>>

MustFetch(k) == ~Fresh(k) /\ ~Marked(k) /\ ~Servable(k)

GetJoin(c, k) ==
  /\ c \notin DOMAIN waiting
  /\ MustFetch(k) /\ k \in DOMAIN inFlight
  /\ waiting' = With(waiting, c, inFlight[k])
  /\ Return(Silent)
  /\ UNCHANGED <<serveStale, entries, gone, inFlight, run, sinceBcp>>

GetFetch(c, k) ==
  /\ c \notin DOMAIN waiting
  /\ MustFetch(k) /\ k \notin DOMAIN inFlight
  /\ StartFetch(c, k)
  /\ waiting' = With(waiting, c, c)
  /\ Return(Silent)
  /\ UNCHANGED <<serveStale, entries, gone, sinceBcp>>

\* How old the data of a row stored a ticks ago may be.
RowTruths(a) == {x \in Age : a =< x /\ x =< a + RowDelay}

(* runFetch *)

\* What the fetch function may return after running for age: an error (the
\* deadline gives one too), what was true at BCP at some moment since it
\* started, or a durable row, used only up to the lifetime of what it holds.
Responses(age) ==
  [kind : Errors]
    \cup {[kind |-> "live", truth |-> a, age |-> 0] : a \in 0..age}
    \cup UNION {[kind : {"row"}, truth : RowTruths(a), age : {a}] :
                  a \in {x \in Age : \E ttl \in Ttls : x =< ttl}}

Respond(r) ==
  /\ run[r].pc = "upstream"
  /\ \E out \in Responses(run[r].age) :
        run' = [run EXCEPT ![r] = [pc |-> "landing", key |-> run[r].key,
                                   age |-> run[r].age, out |-> out]]
  /\ Return(Silent)
  /\ UNCHANGED <<serveStale, entries, gone, inFlight, waiting, sinceBcp>>

\* Fault: the age a durable row reported is ignored.
StoreOutcomeUndated(k, out) ==
  \/ out.kind \in {"live", "row"} /\ Store(k, out.truth, 0)
  \/ out.kind \in Errors /\ MarkGone(k, out.kind)

StoreOutcome(k, out) ==
  \/ out.kind \in {"live", "row"} /\ Store(k, out.truth, out.age)
  \/ out.kind \in Errors /\ MarkGone(k, out.kind)

\* Fault: an early return on error skips the bookkeeping after the switch.
UnregisterSuccess(k, out) ==
  inFlight' = IF out.kind \in Errors THEN inFlight ELSE Without(inFlight, {k})

Unregister(k, out) == inFlight' = Without(inFlight, {k})

\* Fault: the error is not copied to the waiters, who get a zero value.
ResultWithoutError(out) ==
  IF out.kind \in Errors THEN [kind |-> "data"] ELSE [kind |-> "data", truth |-> out.truth]

ResultOf(out) ==
  IF out.kind \in Errors THEN [kind |-> out.kind]
  ELSE [kind |-> "data", truth |-> out.truth]

\* The locked section of runFetch: the outcome is stored, the fetch
\* unregistered, and its result left for those who wait.
Land(r) ==
  LET k == run[r].key  out == run[r].out IN
  /\ run[r].pc = "landing"
  /\ StoreOutcome(k, out)
  /\ Unregister(k, out)
  /\ run' = [run EXCEPT ![r] = [pc |-> "closing", result |-> ResultOf(out)]]
  /\ Return(Silent)
  /\ NoteBcp(k, out)
  /\ UNCHANGED <<serveStale, waiting>>

Waiters(r) == {c \in DOMAIN waiting : waiting[c] = r}

\* close(done): everyone waiting on this fetch, its own caller included,
\* returns what it returned.
Close(r) ==
  /\ run[r].pc = "closing"
  /\ run' = [run EXCEPT ![r] = [pc |-> "idle"]]
  /\ waiting' = Without(waiting, Waiters(r))
  /\ Return(IF Waiters(r) = {} THEN Silent ELSE run[r].result)
  /\ UNCHANGED <<serveStale, entries, gone, inFlight, sinceBcp>>

(* The cache's other entry points. *)

\* Fault: only an entry throttles, so a failing key has no floor.
EntryOldEnough(k) == ~(k \in DOMAIN entries /\ entries[k].age < MinInvalidate)

OldEnough(k) ==
  /\ ~(k \in DOMAIN entries /\ entries[k].age < MinInvalidate)
  /\ ~(k \in DOMAIN gone /\ gone[k].age < MinInvalidate)

\* An explicit refresh; younger than the floor, entry or marker, it does
\* nothing and reports false.
Invalidate(k) ==
  /\ OldEnough(k)
  /\ entries' = Without(entries, {k})
  /\ gone' = Without(gone, {k})
  /\ Return(Silent)
  /\ UNCHANGED <<serveStale, inFlight, run, waiting, sinceBcp>>

\* Seeding with the value of a row stored a ticks ago, as prewarm and
\* seedFromDurable do; or with one fetched just now (FetchEventLeagueIDs).
Put(k, a) ==
  /\ \E truth \in RowTruths(a) : Store(k, truth, a)
  /\ Return(Silent)
  /\ NoteBcp(k, [kind |-> "row"])
  /\ UNCHANGED <<serveStale, inFlight, run, waiting>>

\* Time passes, but no fetch outlives its deadline, and the waiters are
\* released as soon as the outcome is stored.
Older(a) == IF a < MaxAge THEN a + 1 ELSE a

Timely(r) == run[r].pc \in {"upstream", "landing"} /\ run[r].age < FetchTimeout

Tick ==
  /\ \A r \in Runners : run[r].pc = "idle" \/ Timely(r)
  /\ entries' = [k \in DOMAIN entries |->
                   [entries[k] EXCEPT !.truth = Older(@), !.age = Older(@)]]
  /\ gone' = [k \in DOMAIN gone |-> [gone[k] EXCEPT !.age = Older(@)]]
  /\ run' = [r \in Runners |->
               IF run[r].pc = "idle" THEN run[r]
               ELSE IF run[r].pc = "upstream" \/ run[r].out.kind \in Errors
                 THEN [run[r] EXCEPT !.age = Older(@)]
               ELSE [run[r] EXCEPT !.age = Older(@), !.out.truth = Older(@),
                                   !.out.age = Older(@)]]
  /\ sinceBcp' = [k \in DOMAIN sinceBcp |-> Older(sinceBcp[k])]
  /\ Return(Silent)
  /\ UNCHANGED <<serveStale, inFlight, waiting>>

Next ==
  \/ \E k \in Keys : GetFresh(k) \/ GetMarked(k) \/ GetStale(k)
  \/ \E c \in Callers, k \in Keys : GetJoin(c, k) \/ GetFetch(c, k)
  \/ \E r \in Runners : Respond(r) \/ Land(r) \/ Close(r)
  \/ \E k \in Keys : Invalidate(k) \/ \E a \in Age : Put(k, a)
  \/ Tick

\* A fetch ends: it has a deadline, and what follows it in runFetch blocks on
\* nothing but the cache's own lock.
Fairness ==
  \A r \in Runners : WF_vars(Respond(r)) /\ WF_vars(Land(r)) /\ WF_vars(Close(r))

Spec == Init /\ [][Next]_vars
FairSpec == Spec /\ Fairness

----------------------------------------------------------------------------
(* Properties. *)

Fetching(k) == {r \in Runners : run[r].pc \in {"upstream", "landing"} /\ run[r].key = k}

\* However requests and background revalidations interleave, at most one
\* goroutine at a time is asking for a key: the in-flight de-duplication
\* that keeps one answer per question in flight to a third-party API.
SingleFlight == \A k \in Keys : \A r, s \in Fetching(k) : r = s

StaleLimit ==
  RowDelay + IF serveStale THEN 2 * MaxTtl - 1 ELSE MaxTtl + FetchTimeout

\* No Get, on any path, returns data older at its source than a durable row may
\* be beyond its cached_at plus the lifetime and the fetch that read the row
\* (twice the lifetime, for a cache that serves stale): neither a replayed
\* failure, nor a seeded or durable row, nor a joined fetch restarts the clock.
StaleBound == returned.kind = "data" => returned.truth =< StaleLimit

\* A recorded failure never outlives a later success: a marker is always at
\* least as recent as the entry of its key, so replaying it hides nothing newer.
FailureIsNewest ==
  \A k \in DOMAIN entries \cap DOMAIN gone : gone[k].age =< entries[k].age

\* Explicit refreshes cannot turn into back-to-back requests: BCP is not asked
\* for a key sooner than MinInvalidate after it answered for it, with data or
\* with an error, whatever mix of Get and Invalidate calls arrives and whatever
\* else is evicted meanwhile.
Paced ==
  [][\A k \in (DOMAIN inFlight' \ DOMAIN inFlight) \cap DOMAIN sinceBcp :
       sinceBcp[k] >= MinInvalidate]_vars

\* Both maps stay within the capacity, whichever of the two a burst of
\* distinct keys grows.
WithinCapacity ==
  /\ Cardinality(DOMAIN entries) =< MaxEntries
  /\ Cardinality(DOMAIN gone) =< MaxEntries

\* Capacity never costs a fresh entry while an expired one is kept.  Lifetimes
\* differ between values, so the oldest entry need not be the expired one.
FreshOutlivesExpired ==
  [][LET stored == DOMAIN entries' \ DOMAIN entries
         lost == {k \in DOMAIN entries \ DOMAIN entries' : Fresh(k)}
     IN  stored # {} /\ lost # {} => \A k \in DOMAIN entries' : Fresh(k)']_vars

\* The cache implements its promise: see ReadThrough.
Promise == INSTANCE ReadThrough WITH
  limit <- StaleLimit,
  fetching <- [k \in Keys |-> Cardinality(Fetching(k))],
  blocked <- DOMAIN waiting
Implements == Promise!Spec

=============================================================================
