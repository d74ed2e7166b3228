---------------------------- MODULE HistoryFeed ----------------------------
(***************************************************************************)
(* The registration list of one BCP account, from internal/bcp/history.go: *)
(* the paged crawl, the entry of the in-memory cache, the durable row, and *)
(* the refresh a user may ask for on My Events (internal/api/me.go).  The  *)
(* placing feed of the same account is built alike and never refreshed.    *)
(*                                                                         *)
(* A request drops the entry and then the row, if it is a refresh; looks   *)
(* whether there is an entry; reads the row; seeds the entry; and gets,    *)
(* all under different holds of the lock or none.  A crawl asks for a page *)
(* at a time, and its row is written in the background.                    *)
(*                                                                         *)
(* The list only grows.  A page is one record, and a copy of the list is   *)
(* the number of records it has, from the first on.  Pages that do not     *)
(* exist yet are empty.  Time is in ticks; a crawl (fetchTimeout) or a     *)
(* write (durableWriteTimeout) may see one go by and not two.  A failure   *)
(* is remembered for Backoff, be it a 404 or not.                          *)
(***************************************************************************)
EXTENDS Integers, Sequences, FiniteSets

CONSTANTS
  Requests,
  MaxPages,        \* maxHistoryPages
  Lifetime,        \* myEventsRefetchInterval
  Backoff,         \* upstreamFailureBackoff
  MinInvalidate,   \* minManualInvalidateInterval
  MaxListed,       \* bound on the list
  MaxWrites,       \* bound on the background writes at once
  MaxAge           \* ages are counted up to here

ASSUME BoundsAssumption == {MaxPages, MaxListed, MaxWrites} \subseteq Nat \ {0}
ASSUME TimesAssumption ==
  /\ {Lifetime, Backoff, MinInvalidate, MaxAge} \subseteq Nat
  /\ 0 < MinInvalidate /\ MinInvalidate <= Backoff /\ MinInvalidate < Lifetime
  /\ Backoff <= MaxAge /\ Lifetime < MaxAge

VARIABLES
  listed,   \* BCP's list: how long ago each record was added
  entry,    \* the entry: at most one [n, age]
  marker,   \* the age of the failure marker, if there is one
  row,      \* the durable row: at most one [n, age]
  crawl,    \* the fetch in flight: at most one
  writes,   \* background writes of the row; equal ones are one
  req,      \* what each request is in the middle of
  answer    \* history: what the last step answered, if it did, with a list

vars == <<listed, entry, marker, row, crawl, writes, req, answer>>

----------------------------------------------------------------------------
Ages == 0..MaxAge
Counts == 0..MaxPages
Copy == [n : Counts, age : Ages]
Crawl == [pc : {"paging"}, n : Counts, late : 0..1]
           \cup [pc : {"over"}, got : {{}} \cup {{k} : k \in Counts}, late : 0..1]
Write == [n : Counts, late : 0..1]

\* owed: how many records there were when the request cleared everything.
Request ==
  [pc : {"idle", "deleting"}, owed : {0}]
    \cup [pc : {"looking", "reading", "getting", "waiting"}, owed : 0..MaxListed]
    \cup [pc : {"seeding"}, owed : 0..MaxListed, n : Counts, age : Ages]

AtMostOne(S) == {{}} \cup {{x} : x \in S}

TypeOK ==
  /\ listed \in UNION {[1..k -> Ages] : k \in 0..MaxListed}
  /\ entry \in AtMostOne(Copy) /\ row \in AtMostOne(Copy)
  /\ marker \in AtMostOne(Ages) /\ crawl \in AtMostOne(Crawl)
  /\ writes \subseteq Write
  /\ req \in [Requests -> Request]
  /\ answer \subseteq [n : Counts, owed : 0..MaxListed]

Idle == [pc |-> "idle", owed |-> 0]

Init ==
  /\ listed \in {[k \in 1..n |-> MaxAge] : n \in 0..MaxListed}
  /\ entry = {} /\ marker = {} /\ row = {} /\ crawl = {} /\ writes = {}
  /\ req = [r \in Requests |-> Idle]
  /\ answer = {}

Become(r, state) == req' = [req EXCEPT ![r] = state]
Continue(r, pc) == Become(r, [pc |-> pc, owed |-> req[r].owed])
Silent == answer' = {}
Memory == <<entry, marker, crawl>>

\* What a crawl shows of a list that long, or of a longer one.
Capped(k) == IF k < MaxPages THEN k ELSE MaxPages

Known == Len(listed)

----------------------------------------------------------------------------
(* A request *)

\* Invalidate leaves a recent fetch, or failure, alone.
Throttled == (\E e \in entry : e.age < MinInvalidate) \/ (\E a \in marker : a < MinInvalidate)

Begin(r) ==
  /\ req[r].pc = "idle"
  /\ Become(r, [pc |-> "looking", owed |-> 0])
  /\ Silent
  /\ UNCHANGED <<listed, Memory, row, writes>>

Refresh(r) ==
  /\ req[r].pc = "idle" /\ ~Throttled
  /\ entry' = {} /\ marker' = {}
  /\ Become(r, [pc |-> "deleting", owed |-> 0])
  /\ Silent
  /\ UNCHANGED <<listed, row, crawl, writes>>

\* Nothing else holds an older copy.
NothingInTheWay ==
  /\ entry = {} /\ crawl = {} /\ writes = {}
  /\ \A q \in Requests : req[q].pc # "seeding"

\* Fault: only the entry is dropped.
RowKept == row

RowDeleted == {}

\* The row may be gone whatever the database said; what it said is ignored.
DeleteRow(r) ==
  /\ req[r].pc = "deleting"
  /\ row' = RowDeleted
  /\ Become(r, [pc |-> "looking", owed |-> IF NothingInTheWay THEN Known ELSE 0])
  /\ Silent
  /\ UNCHANGED <<listed, Memory, writes>>

DeleteFails(r) ==
  /\ req[r].pc = "deleting"
  /\ Continue(r, "looking")
  /\ Silent
  /\ UNCHANGED <<listed, Memory, row, writes>>

\* An entry of any age keeps the row from being read.
Look(r) ==
  /\ req[r].pc = "looking"
  /\ Continue(r, IF entry = {} THEN "reading" ELSE "getting")
  /\ Silent
  /\ UNCHANGED <<listed, Memory, row, writes>>

\* A row may be as old as the lifetime, an entry may not.
Readable == {c \in row : c.age <= Lifetime}

Read(r) ==
  /\ req[r].pc = "reading"
  /\ \/ \E c \in Readable :
          Become(r, [pc |-> "seeding", owed |-> req[r].owed, n |-> c.n, age |-> c.age])
     \/ Continue(r, "getting")   \* too old, none, or the read failed
  /\ Silent
  /\ UNCHANGED <<listed, Memory, row, writes>>

\* Fault: the seeded entry starts a new lifetime.
SeededAnew(age) == 0

SeededAge(age) == age

\* Put asks nothing of what is there by now.
Seed(r) ==
  /\ req[r].pc = "seeding"
  /\ entry' = {[n |-> req[r].n, age |-> SeededAge(req[r].age)]}
  /\ marker' = {}
  /\ Continue(r, "getting")
  /\ Silent
  /\ UNCHANGED <<listed, crawl, row, writes>>

Fresh == {e \in entry : e.age < Lifetime}
Marked == \E a \in marker : a < Backoff

GetFresh(r) ==
  /\ req[r].pc = "getting"
  /\ \E e \in Fresh : answer' = {[n |-> e.n, owed |-> req[r].owed]}
  /\ Become(r, Idle)
  /\ UNCHANGED <<listed, Memory, row, writes>>

GetMarked(r) ==
  /\ req[r].pc = "getting" /\ Fresh = {} /\ Marked
  /\ Become(r, Idle)
  /\ Silent
  /\ UNCHANGED <<listed, Memory, row, writes>>

\* A fetch is joined whenever it started; without one the request crawls.
GetFetch(r) ==
  /\ req[r].pc = "getting" /\ Fresh = {} /\ ~Marked
  /\ crawl' = IF crawl = {} THEN {[pc |-> "paging", n |-> 0, late |-> 0]} ELSE crawl
  /\ Continue(r, "waiting")
  /\ Silent
  /\ UNCHANGED <<listed, entry, marker, row, writes>>

----------------------------------------------------------------------------
(* The crawl *)

\* The row is written in the background.
Finish(c, n) ==
  /\ crawl' = {[pc |-> "over", got |-> {n}, late |-> c.late]}
  /\ Cardinality(writes) < MaxWrites
  /\ writes' = writes \cup {[n |-> n, late |-> 0]}

\* Fault: the crawl goes on for as long as BCP offers another page.
Uncapped(n) == FALSE

AtCap(n) == n = MaxPages

\* A page with a record.  BCP offers another page if there is one, and may if
\* there is none.
Page ==
  \E c \in crawl :
    /\ c.pc = "paging" /\ c.n < Known
    /\ \/ ~AtCap(c.n + 1) /\ crawl' = {[c EXCEPT !.n = c.n + 1]} /\ UNCHANGED writes
       \/ (AtCap(c.n + 1) \/ c.n + 1 = Known) /\ Finish(c, c.n + 1)
    /\ Silent
    /\ UNCHANGED <<listed, entry, marker, row, req>>

\* An empty page is the end, whatever it offers.
EmptyPage ==
  \E c \in crawl :
    /\ c.pc = "paging" /\ c.n = Known
    /\ Finish(c, c.n)
    /\ Silent
    /\ UNCHANGED <<listed, entry, marker, row, req>>

\* Whatever the pages before it had is gone with it.
PageFails ==
  \E c \in crawl :
    /\ c.pc = "paging"
    /\ crawl' = {[pc |-> "over", got |-> {}, late |-> c.late]}
    /\ Silent
    /\ UNCHANGED <<listed, entry, marker, row, req, writes>>

Waiting == {r \in Requests : req[r].pc = "waiting"}

\* The outcome is stored, and everyone who waits has it.
Land ==
  \E c \in crawl :
    /\ c.pc = "over"
    /\ IF c.got = {} THEN marker' = {0} /\ UNCHANGED entry
       ELSE marker' = {} /\ entry' = {[n |-> n, age |-> 0] : n \in c.got}
    /\ crawl' = {}
    /\ answer' = {[n |-> n, owed |-> req[r].owed] : n \in c.got, r \in Waiting}
    /\ req' = [r \in Requests |-> IF r \in Waiting THEN Idle ELSE req[r]]
    /\ UNCHANGED <<listed, row, writes>>

\* Writes land in any order, and date the row by when they do.
WriteLands ==
  \E w \in writes :
    /\ row' = {[n |-> w.n, age |-> 0]}
    /\ writes' = writes \ {w}
    /\ Silent
    /\ UNCHANGED <<listed, Memory, req>>

WriteFails ==
  \E w \in writes :
    /\ writes' = writes \ {w}
    /\ Silent
    /\ UNCHANGED <<listed, Memory, row, req>>

----------------------------------------------------------------------------
(* The environment *)

SignUp ==
  /\ Known < MaxListed
  /\ listed' = Append(listed, 0)
  /\ Silent
  /\ UNCHANGED <<Memory, row, writes, req>>

\* The cache is shared by all accounts, and bounded.
Evict ==
  /\ entry # {} /\ entry' = {}
  /\ Silent
  /\ UNCHANGED <<listed, marker, crawl, row, writes, req>>

Older(a) == IF a < MaxAge THEN a + 1 ELSE a
Aged(copies) == {[c EXCEPT !.age = Older(c.age)] : c \in copies}
Later(pending) == {[p EXCEPT !.late = 1] : p \in pending}

Tick ==
  /\ \A p \in crawl \cup writes : p.late = 0
  /\ listed' = [k \in DOMAIN listed |-> Older(listed[k])]
  /\ entry' = Aged(entry) /\ row' = Aged(row)
  /\ marker' = {Older(a) : a \in marker}
  /\ crawl' = Later(crawl) /\ writes' = Later(writes)
  /\ req' = [r \in Requests |->
       IF req[r].pc = "seeding" THEN [req[r] EXCEPT !.age = Older(req[r].age)] ELSE req[r]]
  /\ Silent

\* Writes the database already has may land in the life of the next process.
Restart ==
  /\ entry' = {} /\ marker' = {} /\ crawl' = {}
  /\ writes' \in SUBSET writes
  /\ req' = [r \in Requests |-> Idle]
  /\ Silent
  /\ UNCHANGED <<listed, row>>

Step(r) ==
  \/ DeleteRow(r) \/ DeleteFails(r) \/ Look(r) \/ Read(r) \/ Seed(r)
  \/ GetFresh(r) \/ GetMarked(r) \/ GetFetch(r)

CrawlStep == Page \/ EmptyPage \/ PageFails \/ Land

Next ==
  \/ \E r \in Requests : Begin(r) \/ Refresh(r) \/ Step(r)
  \/ CrawlStep \/ WriteLands \/ WriteFails
  \/ SignUp \/ Evict \/ Tick \/ Restart

Spec == Init /\ [][Next]_vars

----------------------------------------------------------------------------
(* Properties *)

\* A record that has been listed for longer than the lifetime is in every list
\* that is answered, unless the crawl may not go that far: a copy is served for
\* less than the lifetime, counted through the row it was seeded from, and is
\* behind its date by the tick its crawl or its write took (seedFromDurable, Put).
SeenInTime ==
  \A a \in answer :
    a.n >= Capped(Cardinality({k \in DOMAIN listed : listed[k] > Lifetime}))

\* InvalidatePlayerEventHistory: what was listed when the refresh deleted the
\* row is in its answer, provided that nothing in the process, and no
\* background write, held an older copy at that moment.
CleanRefresh == \A a \in answer : a.n >= Capped(a.owed)

=============================================================================
