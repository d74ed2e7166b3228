# A verification development for brass-ledger-api

brass-ledger-api is a Go/Echo backend. It fronts Best Coast Pairings (BCP), a
third-party tournament API, with caches, and adds accounts, friends, follow
links and statistics of its own on Postgres (Neon). It runs as one container
that sleeps after ten idle minutes, and forgets everything it had in memory.

This directory holds TLA+ models of its stateful parts, TLC configurations
that check them on small instances, and TLAPS proofs of what matters most for
every value of the constants. `PROJECT.json` lists the runs, the properties,
the theorems, the source lines each definition models, and the hazards the
properties were chosen for.

    tlc -workers 2 -config MCBcpCache_flights.cfg MCBcpCache
    tlapm BcpCacheProofs.tla

## The system

| part | state | operations | what makes it hard, and what makes it correct |
|---|---|---|---|
| **In-memory BCP cache**, `internal/bcp/cache.go`: one generic `Cache[T]` behind every kind of BCP call | entries with a fetch time and a lifetime, failure markers, fetches in flight | `Get`, `runFetch`, `startRevalidationLocked`, `Invalidate`, `Put`, `Fresh`, `FetchedAt`, evictions | request goroutines and background ones share fetches; the lock is not held around a fetch. One fetch per key, bounded staleness, failures replayed but never over newer data, refreshes paced, bounded maps, no caller left blocked |
| **Durable BCP cache**, `bcp/durable.go`, `bcpcache/store.go` | a Postgres table of responses with `cached_at` and a schema version | background `storeDurably`, `GetFresh`, `GetMany`, `Prune`, `prewarm`, flush at shutdown | writes are asynchronous, unordered and may be lost; rows outlive the process; some are permanent. A permanent row must be final; a row never restarts the clock |
| **Event data**, `bcp/events.go`, `players.go`, `pairings.go`, `placings.go` | the caches above | `Fetch…Uncached`, `Invalidate…`, `eventInfoTTL` | whether data is final depends on another fetch, made later |
| **History feeds**, `bcp/history.go` | aged durable rows, 48 h entries | paged crawl, `seedFromDurable`, refresh | a refresh deletes a row a background write may bring back, and joins a crawl that began before it; crawls are cut at ten pages. A new record is seen in bounded time |
| **Conditional requests**, `bcp/conditional.go` | up to 256 ETags with bodies | validator, body, remember, forget | three separately locked steps of one request. An answer is never older than one asked for without a validator |
| **Leagues, ITC, search** `bcp/itc.go`, `bcp/search.go` | the caches above | cached calls | lifetimes of their own |
| **Sessions**, `api/sessioncache.go`, `user/store.go`, `api/auth.go` | `users` and `sessions` rows, a 30 s cache of lookups with a generation | lookup, sign-out, every write of a users row, flush | a lookup is three steps and writes happen between them. An approval, rejection or sign-out takes effect at once |
| **Sign-in and administration**, `api/auth.go`, `api/admin.go` | users' role and status | OAuth callback, admin bootstrap, approve, reject, set role | check-then-act between two admins; a bootstrap of two writes; guards whose refusal is no error. A bootstrap left half done is mended by the next, and a refused request changes nothing |
| **Follow links**, `api/follow.go`, `follow/store.go` | `follow_links`, `spectating`, a 30 s cache of tokens | share, revoke, look up, save, sweep | as for sessions, with a foreign key between the tables |
| **Friends**, `api/friends.go`, `user/friends.go` | `friend_requests` rows per direction | send, accept, decline, remove | requests that cross, callers rejected meanwhile. A friendship takes both |
| **My Events and statistics**, `api/me.go`, `api/stats.go` | none | classification, canonical placings, totals | pure algorithms over partial data. A failed lookup shows in its own event only, and two pages do not contradict each other |
| **Recent events, notes**, `api/sync.go` | rows per user | upsert and trim | two statements without a transaction |
| **Migrations**, `db/migrate.go`, `cmd/server/main.go` | `schema_migrations`, an advisory lock | `Migrate` before the listener starts | boots that overlap, with different binaries, and die anywhere |
| **The rest**: geocoding gate, timings ring, feedback, e-mail, cost estimates, HTTP cache headers, config, the Worker | little | | mostly I/O and request shapes |

The handlers call the BCP client and a `userStore`; the `userStore` they are
given is the session cache wrapping the Postgres store. The BCP client holds one
`Cache` per kind of call, whose fetch functions look in the durable cache
before they ask BCP. The follow-link cache stands in front of the session check
on the event routes. Nothing but Postgres survives a restart.

## Modules

| module | models | refines / extends |
|---|---|---|
| `ReadThrough` | what a handler may rely on from a cache: no entries, markers or goroutines | |
| `BcpCache` | `Cache[T]` | implements `ReadThrough` (`Implements`, `KeepsPromise`) |
| `MCBcpCache` | instances of it for TLC | extends `BcpCache` |
| `BcpCacheProofs` | theorems | extends `BcpCache`, `TLAPS` |
| `SessionRows` | what a handler may rely on from a lookup of a session: no tokens, entries or generations | |
| `SessionCache` | `CachedUserStore` over the rows of `internal/user` | implements `SessionRows` (`ImplementsSessions`, `KeepsSessionsPromise`) |
| `MCSessionCache`, `SessionCacheProofs` | instance; theorems | extend `SessionCache` |
| `FollowAccess` | `FollowAccess`, `FollowHandler` and the rows of `internal/follow` | |
| `FollowAccessProofs` | theorems | extends `FollowAccess` |
| `Migrate` | `Migrate` over several boots | |
| `MCMigrate`, `MigrateProofs` | instance; theorems | extend `Migrate` |
| `EventArchive` | the durable rows of one event and the entry of its info, over restarts | |
| `MCEventArchive`, `EventArchiveProofs` | instance; theorems | extend `EventArchive` |
| `HistoryFeed` | the registration list of one account, from BCP's pages to My Events | |
| `MCHistoryFeed` | instance | extends `HistoryFeed` |
| `HistoryFeedProofs` | theorems about the feeds and what is made of them | extends `HistoryFeed`, `PlayerStats` |
| `ConditionalRequests` | `Client.get` over the store of ETags | |
| `MCConditionalRequests`, `ConditionalRequestsProofs` | instance; theorems | extend `ConditionalRequests` |
| `Accounts` | roles and statuses: the admin routes and the sign-in callback | reads sessions through `SessionRows`, whose steps its rows take (`RowsChangeAsPromised`, `RowsKeepPromise`) |
| `Friends` | `friend_requests` and its routes | extends `Accounts` |
| `MCFriends`, `FriendsProofs` | instance; theorems about both | extend `Friends` |
| `PlayerStats`, `MCPlayerStats` | `stats.go` and `classifyMyEvents`; instance | |

Operators marked `Fault:` are the plausible bugs the properties are tested
against. Each stands next to the definition it would replace, nothing uses it,
and `PROJECT.json` ("mutants") says which property must notice it.

### BcpCache

One locked section of the code is one action. `Get` is one action per way out
of its locked section (`GetFresh`, `GetMarked`, `GetStale`, `GetJoin`,
`GetFetch`), with guards in the code's order. `runFetch` is three: the fetch
function answers (`Respond`), the outcome is stored and the fetch unregistered
under the lock (`Land`), the waiters are released (`Close`). `Callers` are
request goroutines, `Workers` background revalidations.

Time is discrete. The code only ever asks how long ago something was, so the
state holds ages, `Tick` increments them, and they stop at `MaxAge`, beyond
which no comparison changes. `Tick` does not let a fetch outlive
`fetchTimeout`; that is the context deadline. Nor does it come between `Land` and
`Close`: a goroutine that has stored its outcome has only to close a channel
(the scheduler is taken to be prompt there, and what waiters get is
dated by when it was stored).

Data is abstracted to how long ago it was true at its source. A fetch may answer
with an error, with what was true at some moment since it began, or with a
durable row and that row's age, as `noteStoredAt` reports. That age is not the
data's: a row's `cached_at` is the `now()` of a background write
(`bcpcache/store.go:85`), made after the fetch that began when the data was true,
after a wait for one of four slots that nothing bounds, and up to 15 s later still
(`durable.go:81-121`). So a row stored `a` ticks ago holds data of any age from
`a` to `a + RowDelay` (`RowTruths`), both when a fetch answers with it and when
`Put` seeds it, and `StaleLimit` is longer than the lifetimes by that much.
`RowDelay` is a parameter, since the code gives it no value. Rows of ended events
do not report their age, because what they hold no longer changes: for the model
they are answers that are still true.

`returned` and `sinceBcp` are there for the properties: what `Get` returned in
the last step, and how long ago BCP itself last answered for a key. The latter
is forgotten when the key is seeded, or when the record of that answer (its
marker, else its entry) is evicted, since the code forgets too: the pacing
`Paced` states is the one the code can keep.

Two caches of the code differ in `serveStale`; `Init` leaves it open.

### SessionCache

A lookup is `Hit`, or `Miss`, `Find`, `Remember`: the map, the query and the
store are under three different holds of the lock, or none. `DeleteSession` is
`DeleteRow`, `FinishSignOut`; each users-row write of `CachedUserStore` is
`WriteRow`, `Flush`. Either half of each may be the last thing that happens
before `Restart`. A users row is the number of writes it has seen. `Find` reads
the `sessions` and `users` rows at one instant, being one query. The age of an
entry is whether `sessionCacheTTL` has passed, which `Lapse` makes happen at
any time. So `SignOutIsFinal` says that a signed-out token stops working, and not
when; that each further lifetime costs a lookup that was past its query is
`SignOutAlwaysRunsOut`.

`SessionRows` says the same with users and rows only: a lookup answers with the
row at some moment of the lookup, or as it was before a write that no flush has
followed yet. Its `stale` is refined by the versions from `visible`, the rows as they were
when a write last returned, up to the row. That is the interface `Accounts` is written
against.

### FollowAccess

The two tables are sets of records, for one event; rows of other events share
only the token cache, and its limit is low enough here to be reached. A
link's `id` is the first token it had, so that replacing an expired token keeps
the id, as the upsert does. Its `expiry` has three values, because the statements
do not agree on the instant itself: lookups want `expires_at > now()`
(`store.go:101`), the sweep takes `expires_at <= now()`, and the upsert renews the token
only if `expires_at < now()` (`store.go:82`). `now` stands for that instant, and for
statements that began by it, `now()` being their transaction's. A token that does not
resolve may still be kept there (`TokensFor`), so `NeverRevived` and
`RevocationSettles` begin where no row has the token but one past its expiry
(`KeptBy` is empty). `lookup` is `Hit`, or `Miss`, `Find`, `Remember`;
`DeleteLink` is `DeleteRow`, `Forget`; `SaveSpectating` is a lookup (or
`Pick`), then `Save` or `NotSaved`. What the roster says in between is left
open. Deleting a link cascades to `spectating`, and saving a row for a deleted
link fails on the foreign key. `DeleteExpired` runs at start-up, in the
background; here it may run at any time.

### Migrate

A boot goes through `Start`, `Lock`, `Read`, then `Execute`, `SendCommit`,
`Committed` per migration, and `Finish`. What the database does is apart from
the boot: `DatabaseCommits` may happen after the boot that sent the COMMIT has
died, and the lock of a dead boot is released only when the database notices
(`SessionEnds`). A restart is another boot, with a binary of its own. Renaming
a migration file is the old version recorded and a new one embedded.

### EventArchive

BCP is the environment: an event lies ahead, may start at its listed start, may
end at any time, and its documents (roster, pairings, placings) change until
then. A copy of a document is `current` while BCP would send the same again,
and `whole` if the second call of a roster succeeded. That an ended event
changes no more is the code's own premise, stated in several comments; that it
does not start before its listed start is one `client.go` makes.

A fetch of the info is `FindInfo` or `AskInfo`, and `LandInfo`; `prewarm` is
`PrewarmQuery`, then `PrewarmPut` or `PrewarmReject`; a fetch of a document is
`AskDoc`, then `Judge`, which uses the info in memory. Reads of the database may
fail, and BCP is asked then; so a row of a document never *keeps* a fetch from
asking, and no action looks at it. A background write is queued when its fetch
is over and has its effect (`Set`), or none (`SetFails`), at any later time, in
any order; its `cached_at` is that time, not the fetch's. `Restart` may change
the schema version. It leaves behind any of the writes the database might
already have, no more than there are slots, and they may land in the life of
the next process.

Unlike in `BcpCache`, ticks are hours, and the 60 s lifetime is rounded up to
one of them. `endedFor` is there for the property.

### HistoryFeed

A request goes through `Refresh` and `DeleteRow` if the user asked for one, or
`Begin`; then `Look` (`Fresh` or not, an entry of any age), `Read` of the durable
row under its age limit, `Seed` (`Put`), and `GetFresh`, `GetMarked` or `GetFetch`,
in `seedFromDurable`'s and `Get`'s order. Each is under a hold of the lock of
its own, or none, so that anything may come in between. A crawl is a `Page` at a
time; the next page is asked for while BCP offers one and `AtCap` does not stop
it; an `EmptyPage` ends it whatever BCP offers, and `PageFails` throws the pages
before it away. `Land` stores what came of it. The row is written in the
background (`WriteLands`, `WriteFails`), in any order, dated by when it lands.

The list only grows: BCP's records are registrations, and those of a player who
drops out stay. A copy of the list is how many records it has. A page holds one
record. `SignUp` is the environment's, `Evict` that of the accounts with which
the entry shares its cache, which does not serve stale. `answer` and `owed` are there for
the properties: what was listed when a refresh had cleared everything.

### ConditionalRequests

A request is `Ask` (look the validator up, send), `Answered` or `Failed`, then
`Remember` a response in full, or `Confirm` a 304 from what is stored by now, or
`NoBody` and `Forget` if nothing is, or if it does not decode. The store evicts any one
entry when it is full, as a Go map's iteration does, even if the URL to be stored is in it
already. A body is the version of the URL it shows. A URL is asked for by one
request at a time, thanks to the caches above, but for those in `Shared`: the
info of an event, which `FetchEventLeagueIDs` asks for by itself. `due` is there
for the property, and says why it is only about a request that was alone.

### Accounts and Friends

An admin route is `SetStatusOrRole` (who asks, and the checks), `Update` or
`UpdateFails` (one statement, which may take effect and seem to have failed), and
`Flush`. The callback is `Callback` (upsert and flush), and, for `ADMIN_EMAILS`,
the same two writes as an admin's, one after the other, the second only if the
first seemed to succeed; then `Greet`. What a session resolves to is the row or
one of `stale`, which holds what rows were before writes that are not flushed yet. Both are
`SessionRows`': `MayResolve` is its operator, every change of a row one of its steps, and
`SessionCache` implements it, so that what is read here is what the session cache
answers with. The guards return `nil`
once their refusal is written, so a refused request goes on as `Nobody`.

`Friends` adds the table of requests: pending or accepted rows between two
accounts, one per direction. `SendRequest`, `Respond`, `RemoveFriend` find out who
asks; `Insert`, `Accept`, `Decline`, `Remove` are the statements, with what their
WHERE and the index require as guards; `Nothing` is a statement that finds
nothing or fails. Composing the two modules is what puts a rejection between the
two halves of a call. `agreed`, `out`, `late`, `disturbed` and `refused` are
history, for the properties.

### PlayerStats

Each page (`summary` for Home, `full` for /stats, `events` for My Events) is a
request: `Collapse` reads the feeds, looks the leagues up and keeps one row per
event; then `Summarise`, `Detail`, which looks events up, or `Classify`, which
looks up those without a placing. Any set of these lookups may fail. Registrations
are looked up and listed one by one: BCP may send several records of an event, and
`me.go` does not drop the repeated, so `Pending` is a set of positions. What is
computed are functions named for the code's: `Canonical`, `Figures`, `Category`,
`Lists`. The code's loops are recursive functions over the feed: what is there after
so many rows (`Groups`, `BestOf`, `PickedOf`), one step each (`Grouped`,
`Weighed`, `Taken`). The properties
compare with definitions that loop over nothing (`Counting`, `Least`). An event's listing is a constant, so the initial
states are all feeds up to a length, in the order `history.go` sorts them into.

## Runs

| run | instance | shows |
|---|---|---|
| `cache_flights` | 1 key, 2 callers, 1 worker; lifetime 2, gone 2, backoff 1, fetch ≤ 1 tick, rows up to 1 tick late | `SingleFlight`, `StaleBound`, `FailureIsNewest`, `Paced`, and `Implements`, which includes that every blocked caller returns |
| `cache_capacity` | 2 keys, capacity 1, lifetimes 1 and 2, 1 caller | `WithinCapacity`, `FreshOutlivesExpired` |
| `session` | 1 user, 2 tokens, 2 requests, a map that is full at 1 | `WritesAreSeen`, `CleanSignOut`, `SignOutIsFinal` |
| `follow` | 1 sharer, 1 spectator, 2 tokens, 2 requests, a map that is full at 1 | `SpectatorsLoseIt`, `NeverRevived`, `CleanRevocation`, `RevocationSettles` |
| `archive` | 1 document, 2 schema versions, 2 writes; lifetimes 1, 2, 2, far-off threshold 4, event 6 ticks ahead | `EndIsNoticed`, `NotHeldPastStart`, `ArchivedAfterEnd`, `PruneIsHarmless` |
| `archive_final` | the same, the document made of two calls | **violation** of `PermanentIsFinal` |
| `history` | 2 requests, pages of 1, at most 2 of them, a list of up to 3; lifetime 2, backoff and refresh interval 1, 2 background writes | `SeenInTime`, `CleanRefresh` |
| `conditional` | 3 requests, 2 URLs, one of them shared, room for 1 entry, 3 versions | `ConfirmedIsCurrent` |
| `friends` | 2 accounts; at most two requests at a time (`TwoAtOnce`), each to an admin route, the callback or a friends route | `BootstrapHeals`, `FriendsAgree`, `RejectedIsOut` |
| `accounts_refused` | 2 accounts, 2 requests | **violation** of `RefusedChangesNothing` |
| `statistics` | 4 events (teams; two days; unreadable end; no date), 2 leagues, feeds of up to 3 rows, up to 2 registrations, of one event or two | `FiguresAreOfCountedRows`, `SummaryAgrees`, `ListedByFeeds` |
| `migrate` | 3 boots of 2 binaries, 3 migrations, one of which the first binary lacks | `AppliedOnce`, `NobodyRepeats`, `InOrder`, `ServesMigrated`, `BootsFinish` |

Every passing run also checks its module's one type invariant, but for
`cache_capacity`, which has the module of `cache_flights`, and `statistics`, where
the properties say more about the only variable that changes.

**Bounds.** Keys do not interact except through capacity and eviction, so
flights are checked on one key and capacity on two. Two callers and a worker
give each pair of roles: leader and joiner, revalidation and joiner, and a
second leader. Lifetimes are the smallest that leave room for "fresh", "stale
but servable" and "too old" around a fetch of one tick. A delay of one tick for rows
is enough to tell their age from their data's, which is all `RowDelay` does; the theorem
is for any. Sessions and links need
two requests (the one that writes and the one it overtakes) and two tokens (one
that fills the map, one that finds it full). In `follow` the sharer and the
spectator are different people; that nobody saves their own link is in the
model (`Answered`) and not exercised. `MaxWrites`, `MaxFlushes`, `MaxAge`,
`Boots` are the only counters' bounds. In `archive`, two writes can be reordered
and one document is enough, since documents share only the info; the event lies
far enough ahead for a far-off row to be used one tick later and served to the
end of its doubled lifetime. The lifetimes keep the order of the code's (60 s,
6 h, 24 h; 24 h ahead) and the one ratio that matters, that the threshold is
twice the far-off lifetime. Versions are interchangeable, which the symmetry uses.

In `history`, a list of three is one longer than the cap, and two requests are
the one that refreshes and the one whose crawl, seeding or write is in its way;
two writes can land in either order. Its lifetime leaves room for a row that is
too old for the cache and young enough to be read. In `conditional`, one request gets a 304
while the other two replace and evict what it is about; three versions are what
it takes for a body to be older than the one confirmed. In `friends`, two accounts make every crossing, and two requests at a time
every overlap: of two admins or sign-ins, of two calls of friends, or of a call with the rejection
of its caller. In `statistics`, three rows are an event scored twice and one
more, or one event three times; four events are the four outcomes of `Category`,
two of one day and two in order; a longer feed repeats these, as groups do
not interact but for their order. `MaxListed`, `MaxVersion`, `MaxRows`,
`MaxRegistered` bound the data, `MaxWrites` the writes at once.

**Fairness.** A fetch has a deadline and what follows takes only the cache's
own lock, so `Respond`, `Land`, `Close` are weakly fair. Queries return or
fail, and time passes (`Lapse`). In `Migrate`, statements return or the boot
dies, and the database ends a dead client's session. No user action, failure,
crash or restart is fair, and nothing is strongly fair: with finitely many
boots, waiting for the lock needs no queue.

`EventArchive` and `HistoryFeed` have no fairness: their bounds on time are
safety. `ConditionalRequests`, `Accounts`, `Friends` and `PlayerStats` have none either,
since nothing in them waits for another.

**Deadlock** is checked everywhere but in `migrate`, where all boots may be dead,
and in `statistics`, where every page has been answered in the end.

## What the runs found

* *A permanent row need not be final* (`archive_final`), against
  `durable.go:24-28`. A roster's second call, for team names, may fail for any
  reason; `players.go:75` drops the error, and the roster without names is kept
  for good if the event has ended. And any document is fetched before the event
  is asked whether it has ended, so its last change may come in between.
  `ArchivedAfterEnd` is what holds.
* *A refused admin request is carried out all the same* (`accounts_refused`),
  against `admin.go:18`. `requireUser`, `requireApprovedUser` and `requireAdmin`
  return what writing the refusal returned, which is `nil` if it could be
  written. The handlers return only on an error, and so go on as the zero user:
  `setStatus` and `SetRole` compare its id with the account's, find them
  different, and write. The test at `admin_test.go:315` looks at the status code
  only. On the friends routes the same is harmless, which `RefusedCallsHarmless`
  proves: no row can name an account 0.

Met while modelling, with no run of their own:

* Signing out may take up to 30 s (`sessioncache.go:104-106` says the next
  request). `DeleteSession` does not bump the generation as `flush` does, so a lookup past its query
  stores the session afterwards. `CleanSignOut` and `SignOutIsFinal` are what holds.
  So it is with a revoked follow link (`follow.go:78-80`, `216-217`), where
  `CleanRevocation`, `RevocationSettles` and `SpectatorsLoseIt` are what holds.
* Sharing a link again at the very instant of its expiry keeps the token and revives it
  (`follow/store.go:82` against `:101`), which the comment at `store.go:72-73` rules out. Timestamps
  are of microseconds; `NeverRevived` is stated so that it allows this.
* An event registered for twice, in two records neither of which is dropped, is
  looked up and listed twice on My Events (`history.go:122-140` appends every record,
  `me.go:353-363` every pending one), unless it has a placing. `ListedByFeeds` is what
  holds.
* Data from a durable row is older than the row says, by its fetch and a background
  write that may have to wait for a slot (`durable.go:107-121`), so the lifetimes of
  `Cache` bound how stale an answer is only together with that delay
  (`StaleBound`, and `EndIsNoticed` and `SeenInTime`, whose modules write the rows).
* Prewarming does nothing for an event archived more than two days ago
  (`durable.go:190-202`): the row's own `cached_at` makes the entry expired on
  arrival, and each event costs a read of its own again.
* `Put` may replace a newer entry by the older row it was asked to seed
  (`history.go:203-205` says there is none), and a seeded list is served for the
  rest of its lifetime, not "served once more" (`history.go:248`). `SeenInTime`
  is what holds.
* A 304's body is the one confirmed (`conditional.go:75`) only while nobody
  else asks for the URL, and `FetchEventLeagueIDs` may.
* If two users have asked each other, one request accepted and the other still
  pending, removing the friendship leaves the pending one, and accepting it later
  makes them friends again without the remover (`friends.go:66-72`). `FriendsAgree` is stated so that it allows this.
* Entries that `evictLocked` says "can never be served again"
  (`cache.go:402-403`) can, in caches that serve stale.
* A full cache may evict the very answer it has just stored, entry or marker, if
  the others are as recent or it comes from a row that is older. The next `Get`
  asks BCP again at once. Evictions go by age alone, and the `Invalidate` floor
  has nothing left to go by.
* A fetch function that panicked would leave its key in `inFlight` for ever
  (`cache.go:334`); none is known to. `fetchRounds` (`bcp.go:196`) writes to
  records that requests share, all the same number. Logout reports success when
  deleting the session failed (`auth.go:302`). None of these has a property: nothing is promised.

## Proofs

All theorems hold for every value of the constants under the modules' named
assumptions. These are: positive lifetimes, floors no longer than the lifetimes
they guard, a fetch shorter than the longest lifetime and no longer than the delay of a row it
may be written to, and ages counted far enough to tell them apart (`TimesAssumption` of
`BcpCache`, `EventArchive`, `HistoryFeed`); finite, disjoint sets of goroutines
and keys, limits that are positive (`ActorsAssumption`, `BoundsAssumption`,
`MaxEntriesAssumption`); owners, schema versions and binaries that are what their
names say (`OwnerAssumption`, `DocsAssumption`, `SharedAssumption`,
`VersionsAssumption`, `EmbeddedAssumption`); and that the marks for "no link" and "no user" are neither a
token nor a user (`PickedAssumption`, `UsersAssumption`). For `EventArchive` they
include that the far-off threshold is at least twice the far-off lifetime (24 h and
6 h in the code) and that rows are retained for longer than any lifetime that
ends (7 days). TLC checked each inductive invariant on the instances above
before it was proved.

| module | theorem | inductive invariant |
|---|---|---|
| `BcpCacheProofs` | `TypeCorrect` | `TypeOK` itself |
| | `AlwaysSingleFlight` | `FlightInv`: whoever is asking BCP is the one `inFlight` registers, and callers wait only on runners at work. `SingleFlight` alone does not say why a new fetch is not a second one |
| | `AlwaysWithinCapacity` | inductive with `TypeOK`: each map is cut after it grows |
| | `FailureAlwaysNewest` | inductive by itself |
| | `NeverTooStale` | `DateInv`: an entry's data is at most `RowDelay` older than its age says, for landed outcomes and what waiters are about to get too, so freshness bounds staleness |
| | `AlwaysPaced` | `Remembered`: while BCP's last answer for a key is younger than the floor, its marker, or else its entry, is there and no older. So it is within its lifetime, `Get` serves or replays it, and `Invalidate` refuses |
| | `FreshAlwaysOutlives` | a step's own: only a value stored grows the entries, and what `Survivors` leaves is either everything or live |
| | `KeepsPromise` | `PromiseInv`: `FlightInv` and `DateInv`, and that whoever is registered is asking. Then `fetching` is 1 exactly for the registered keys, and each action is `Answer`, `Block`, `Finish`, `Release` or `Quiet` of `ReadThrough` |
| | `NobodyEverStranded` | `FlightInv`, `RegisteredAsk`, `WaitersHeld`: only `Close` lets a goroutine go idle, and it takes its waiters with it; a key leaves `inFlight` when its fetch lands, so that a later caller joins no fetch that is over |
| `SessionCacheProofs` | `TypeCorrect` | `TypeOK` itself |
| | `WritesAlwaysSeen` | `VersionInv`: what is cached, or in a lookup of the present generation, is no older than what the last returned write left, unless a flush is still due |
| | `SignOutClean` | `SignOutInv`: the row of a signed-out token is gone, and lookups past its query are in `overtaken` |
| | `KeepsSessionsPromise` | `RowsInv`: `VersionInv`, and that nothing cached or found is a row the table has not held; what lies between the two is what `SessionRows` lets a session resolve to |
| | `SignOutAlwaysRunsOut`, `SignOutLasts` | `SignOutInv`: with the row gone no lookup joins those past their query, and each of them stores the token once; `Quenched` (none left, entry expired) is stable |
| `FollowAccessProofs` | `TypeCorrect` | `TypeInv`: the tokens in links, and those that requests hold, have been handed out; so a fresh one is nobody's |
| | `SpectatorsAlwaysLoseIt` | inductive with `TypeInv`: the delete cascades, and a save after it has no link to refer to |
| | `NeverRevivedAction` | `TypeInv`: what a step adds to `links` has a token that was not handed out before, or renews or ages a row that was not past its expiry; so no row enters an empty `KeptBy` of a token handed out |
| | `RevocationClean` | `RevokedInv`: no row has a token whose revocation has begun, no request is about to write one, and a lookup past its query at that time is in `overtaken` |
| | `AnswersAlwaysRunOut`, `RefusalLasts` | `TypeInv`: a token without a row in `KeptBy` gets none, since tokens handed out are not handed out again; so lookups that found a row only become fewer, and `Spent` is stable. While a token does not resolve, even one that might again, no lookup joins those past their query, which is `AnswersAlwaysRunOut` |
| `HistoryFeedProofs` | `TypeCorrect` | with `PagingInv`: a crawl has read no more than BCP lists, and its next page is within the cap |
| | `AlwaysSeenInTime` | `AgeInv`: whatever holds a copy (entry, row, pending write, finished crawl, request about to seed) lacks only what was listed within its own age and one tick, or is cut at the cap |
| | `RefreshClean` | `OwedInv`: whatever holds a copy has all that any open refresh is owed, because a refresh is owed something only if nothing that predates it is left |
| (`PlayerStats`) | `SummaryAlwaysAgrees` | `PagesInv`: a page's rows are what `canonicalPlacingPerEvent` makes of the feed, and its figures or lists what is computed from those rows; then the best over all rows is one function of the feed and the leagues looked up |
| | `FiguresAlwaysOfCountedRows` | `PagesInv` with `Joined` and `BestSoFar`: what each loop holds after *n* rows, so that the rows are `Counting`'s, each once (`Ranks`, a bijection), and the best is the `Least` |
| | `AlwaysListedByFeeds` | `PagesInv` with `PickedSoFar`: a loop that appends takes as many registrations of an event as it has positions of it; a pending one is of an event without a placing, and in the one list of the phase found for it, so the lists add up to the registrations looked up |
| `FriendsProofs` | `TypeCorrect` | with `RequestInv`, `CallInv`: a sign-in promotes, then approves; nobody asks themselves |
| | `BootstrapAlwaysHeals` | `BootInv`: an undisturbed sign-in past its first write has an admin's row, past its second an approved one |
| | `FriendsAlwaysAgree` | `AgreedInv`: whoever sent a pending row has agreed, and an accepted row has two who have |
| | `RejectedAlwaysOut` | `OutInv`, `LateInv`: a rejected account resolves to rejected rows only, and a call begun since then goes on as `Nobody` |
| | `RowsKeepPromise` | `TypeInv`: an update is `SessionRows`' `Write`, the callback its `Register` or a flush, and the friends routes touch neither rows nor sessions |
| | `RefusedCallsHarmless` | `TypeInv`: every statement of a call names its own account, and no row names `Nobody` |
| `EventArchiveProofs` | `TypeCorrect` | `TypeOK` itself |
| | `AlwaysArchivedAfterEnd` | `EndInv`: every row, entry, fetch, prewarming or pending write that says "ended" is right, and a pending write of a document is of an ended event |
| | `EndAlwaysNoticed` | `AgeInv`: whatever says otherwise has ended for at most its own age and one tick, also where it is between two places |
| | `NeverHeldPastStart` | `StartInv`: the age of a far-off entry and the time left add up to the threshold |
| | `PruningAlwaysHarmless` | `TypeOK`: pruning and reading go by the same versions, and retention outlasts every lifetime |
| `ConditionalRequestsProofs` | `TypeCorrect` | with `StoreInv`: that the store is finite is what makes its size count |
| | `AlwaysCurrent` | `CurrentInv`: whoever was alone for its URL is owed what BCP had then, and every response to that URL in another's hands is as recent; so what is stored is what the validator named or as recent, and once BCP has confirmed the validator it is recent either way |
| `MigrateProofs` | `TypeCorrect` | `TypeOK` itself |
| | `AlwaysAppliedOnce`, `NeverRepeats`, `AlwaysServesMigrated`, `AlwaysInOrder` | `LockInv`: only one session holds the lock, whoever migrates holds it, and what it has pending is what its binary has and the table lacks, also across a COMMIT whose sender is dead |
| | `LockAlwaysMovesOn` | `LockInv` with `HolderInv`: who holds the lock migrates or is dead, and what it has pending when it has executed one is not empty, so there is a first one to go on with |

Two statements changed in the course of their proofs.
`SeenInTime` used to allow one tick more than the lifetime; the invariant that
proves it left that tick unused, and TLC confirms that the bound is now exact
(with one tick less it is violated). `Paced` used to forget an answer only when
its key was evicted from both maps, and never in the step that stored it. No
invariant supports that, and with two keys and room for one TLC finds the
counterexample, an answer evicted as it is stored; one key alone never shows it.

The loops of `stats.go` and `me.go` are proved about by induction over their
positions. The library's induction theorem takes a predicate as its parameter,
which the provers here cannot instantiate; a set has a least element by
`WFMin`, which takes none (`HasLeast`), so a step says which positions satisfy the loop's
invariant and that the least one that does not is impossible. The proofs are
in `HistoryFeedProofs` since the feeds they are about are `HistoryFeed`'s.

Every invariant and action property of a passing run is a theorem. Two
refinements are theorems that no run states, `KeepsSessionsPromise` and
`RowsKeepPromise`; TLC checked both formulas on the instances of `session` and
`friends` before.

Only model-checked, and why: what must eventually happen, that is the fairness part of
`Implements`, `SignOutIsFinal`, `RevocationSettles`, `BootsFinish`. They need
`ENABLED` and leads-to arguments, beyond this prover. What they rest on is
proved: nobody waits for a fetch that nobody runs (`NobodyEverStranded`), what a
revoked token still gets is finite and then over for good (`SignOutAlwaysRunsOut`,
`SignOutLasts`, `AnswersAlwaysRunOut`, `RefusalLasts`), and the lock has somebody
to let it go (`LockAlwaysMovesOn`). What is left to TLC is that fair steps are
taken until that is reached.

## Plan

1. Done: `BcpCache` with `ReadThrough`, `SessionCache`, `FollowAccess`, `Migrate`,
   `EventArchive`, `HistoryFeed`, `ConditionalRequests`, `Accounts`, `Friends`,
   `PlayerStats`.
2. Done: the proofs of every module, so that every invariant and action property
   of a run is a theorem, the refinements' steps included.
3. Done: `SessionRows`, what a session may resolve to, which `SessionCache`
   implements and `Accounts` is written against; the loops of `PlayerStats`; what the
   liveness properties rest on.
4. Left: liveness under fairness, which stays with TLC, and the parts below.

## Not modelled

Request parsing, response shapes, wording, logging and HTTP cache headers;
OAuth's exchange with Google, e-mail, Nominatim and BCP themselves, which are
sets of possible answers; feedback reports and round notes, single statements
that nothing interleaves with; recent events, an upsert and a trim that the next
call repeats; search and the refreshes of single documents, which are calls of
the cache `BcpCache` models; the gate before Nominatim, which is one lock; the ring of timings and cost estimates, formulas
nothing depends on; configuration, scripts and the Worker, which keep no state
of their own. `PROJECT.json` says the same per component.
