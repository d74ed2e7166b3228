---------------------------- MODULE EventArchive ----------------------------
(***************************************************************************)
(* What is kept of one event, and for how long: the bcp_durable_cache rows *)
(* of internal/bcpcache, written in the background by internal/bcp, and    *)
(* the in-memory entry of the event's info above them, over restarts.      *)
(*                                                                         *)
(* BCP is the environment.  An event lies ahead, is live, then ended; its  *)
(* documents (roster, pairings, placings) change until it ends.  Info rows *)
(* are kept for good once they say "ended", and for eventInfoTTL           *)
(* otherwise; documents are kept, for good, only if the info, asked for    *)
(* after the document was, says "ended".  A copy of a document is          *)
(* "current" as long as BCP would send the same again.                     *)
(*                                                                         *)
(* Info goes through BcpCache, of which this module keeps what matters     *)
(* here: one fetch at a time, entries with an age and a lifetime, served   *)
(* while stale.  Documents' own entries last a minute and are left out: a  *)
(* fetch of a document may start whenever none is running.  A read of the  *)
(* database may always fail, and then BCP is asked; a request to BCP that  *)
(* fails changes nothing here.                                             *)
(*                                                                         *)
(* Time is in ticks of hours.  A request to BCP or a background write,     *)
(* which take seconds, may see one tick go by and not two; what a row said *)
(* is used in the tick it was read in.                                     *)
(***************************************************************************)
EXTENDS Integers, FiniteSets

CONSTANTS
  Docs,              \* the documents of the event
  TwoCalls,          \* those put together from two calls, like the roster
  Versions,          \* CacheSchemaVersion of the binaries that may run
  ShortTTL,          \* minRefetchInterval
  FarTTL, FarOff,    \* eventInfoFarOffTTL, eventInfoFarOffThreshold
  EndedTTL,          \* eventInfoEndedTTL
  Retention,         \* durableCacheRetention
  Lead,              \* how far ahead the event is, at the beginning
  Slots,             \* maxConcurrentDurableWrites
  MaxWrites,         \* bound on the background writes at once
  MaxAge             \* ages are counted up to here

ASSUME DocsAssumption == TwoCalls \subseteq Docs /\ "info" \notin Docs
ASSUME TimesAssumption ==
  /\ {ShortTTL, FarTTL, FarOff, EndedTTL, Retention, Lead, MaxAge} \subseteq Nat
  /\ 0 < ShortTTL /\ ShortTTL < FarTTL /\ ShortTTL < EndedTTL
  /\ 2 * FarTTL <= FarOff
  /\ FarTTL <= Retention /\ Retention <= MaxAge
  /\ 2 * FarTTL < MaxAge /\ 2 * EndedTTL <= MaxAge
ASSUME BoundsAssumption == {Slots, MaxWrites} \subseteq Nat

VARIABLES
  stage,          \* BCP: "ahead", "live" or "ended"
  until,          \* ticks until the listed start
  endedFor,       \* ticks since BCP said "ended" first
  version,        \* CacheSchemaVersion of the running binary
  infoRow,        \* the durable row of the event's info
  docRow,         \* the durable rows of its documents
  writes,         \* background writes that have not ended
  info,           \* the in-memory entry of the info
  infoFetch,      \* the one fetch of it that may be in flight
  docFetch,       \* for each document, likewise
  prewarm         \* a call of PrewarmEventInfo

bcp == <<stage, until, endedFor>>
rows == <<infoRow, docRow>>
vars == <<bcp, version, rows, writes, info, infoFetch, docFetch, prewarm>>

----------------------------------------------------------------------------
Stages == {"ahead", "live", "ended"}
Ages == 0..MaxAge

Nothing == [kind |-> "none"]

InfoRow == [kind : {"row"}, says : Stages, age : Ages, version : Versions]
DocRow == [kind : {"row"}, current : BOOLEAN, whole : BOOLEAN, version : Versions]

\* A write has waited for a slot, and for the database, for "late" ticks.
Write ==
  [key : {"info"}, says : Stages, late : 0..1, version : Versions]
    \cup [key : Docs, current : BOOLEAN, whole : BOOLEAN, version : Versions]

Entry == [kind : {"entry"}, says : Stages, age : Ages, ttl : {ShortTTL, FarTTL, EndedTTL}]

InfoFetch ==
  [pc : {"idle"}]
    \cup [pc : {"answered"}, says : Stages, late : 0..1]
    \cup [pc : {"found"}, says : Stages, age : Ages]

DocFetch ==
  [pc : {"idle"}]
    \cup [pc : {"judging"}, current : BOOLEAN, whole : BOOLEAN]

Prewarm == [pc : {"idle"}] \cup [pc : {"loaded"}, says : Stages, age : Ages]

TypeOK ==
  /\ stage \in Stages /\ until \in 0..Lead /\ endedFor \in Ages
  /\ version \in Versions
  /\ infoRow \in InfoRow \cup {Nothing}
  /\ docRow \in [Docs -> DocRow \cup {Nothing}]
  /\ writes \subseteq Write
  /\ info \in Entry \cup {Nothing}
  /\ infoFetch \in InfoFetch
  /\ docFetch \in [Docs -> DocFetch]
  /\ prewarm \in Prewarm

Idle == [pc |-> "idle"]

Init ==
  /\ stage = "ahead" /\ until = Lead /\ endedFor = 0
  /\ version \in Versions
  /\ infoRow = Nothing /\ docRow = [d \in Docs |-> Nothing]
  /\ writes = {}
  /\ info = Nothing /\ infoFetch = Idle /\ docFetch = [d \in Docs |-> Idle]
  /\ prewarm = Idle

----------------------------------------------------------------------------
(* How long an event's info is good for. *)

\* Fault: 0 for an event that has ended, which means "no bound" to GetFresh.
TTLUnbounded(says) == IF says = "ended" THEN 0 ELSE ShortTTL

\* Fault: only what the info says counts, not how near the start has come.
TTLWithoutStart(says) ==
  CASE says = "ended" -> EndedTTL [] says = "live" -> ShortTTL [] OTHER -> FarTTL

eventInfoTTL(says) ==
  CASE says = "ended" -> EndedTTL
    [] says = "live" -> ShortTTL
    [] says = "ahead" -> IF until >= FarOff THEN FarTTL ELSE ShortTTL

Fresh == info.kind = "entry" /\ info.age < info.ttl
Servable == info.kind = "entry" /\ info.age < 2 * info.ttl

\* Whether info of this age, from a row, may be used.
StillTrue(says, age) == says = "ended" \/ age < eventInfoTTL(says)

Seed(says, age) ==
  info' = [kind |-> "entry", says |-> says, age |-> age, ttl |-> eventInfoTTL(says)]

(* The fetch of the info: fetchEventInfoUncached, run by runFetch. *)

Readable(row) == row.kind = "row" /\ row.version = version
UsableRow == Readable(infoRow) /\ StillTrue(infoRow.says, infoRow.age)

FindInfo ==
  /\ infoFetch.pc = "idle" /\ ~Fresh
  /\ UsableRow
  /\ infoFetch' = [pc |-> "found", says |-> infoRow.says, age |-> infoRow.age]
  /\ UNCHANGED <<bcp, version, rows, writes, info, docFetch, prewarm>>

Queue(w) == Cardinality(writes) < MaxWrites /\ writes' = writes \cup {w}

\* There was no such row, or the read failed, so BCP is asked.  What is good for
\* longer than the minimum is stored in the background.
AskInfo ==
  /\ infoFetch.pc = "idle" /\ ~Fresh
  /\ infoFetch' = [pc |-> "answered", says |-> stage, late |-> 0]
  /\ IF eventInfoTTL(stage) > ShortTTL
       THEN Queue([key |-> "info", says |-> stage, late |-> 0, version |-> version])
       ELSE UNCHANGED writes
  /\ UNCHANGED <<bcp, version, rows, info, docFetch, prewarm>>

\* Fault: the fetch does not report the age of the row it answered from.
FetchedJustNow == 0

\* noteStoredAt, which is not called for an event that has ended.
FetchedAge ==
  IF infoFetch.pc = "found" /\ infoFetch.says # "ended" THEN infoFetch.age ELSE 0

LandInfo ==
  /\ infoFetch.pc \in {"answered", "found"}
  /\ Seed(infoFetch.says, FetchedAge)
  /\ infoFetch' = Idle
  /\ UNCHANGED <<bcp, version, rows, writes, docFetch, prewarm>>

\* Invalidated by a refresh, or evicted.
DropInfo ==
  /\ info # Nothing
  /\ info' = Nothing
  /\ UNCHANGED <<bcp, version, rows, writes, infoFetch, docFetch, prewarm>>

(* PrewarmEventInfo. *)

\* The entry is looked at, and GetMany finds a row.
PrewarmQuery ==
  /\ prewarm.pc = "idle" /\ ~Fresh
  /\ Readable(infoRow)
  /\ prewarm' = [pc |-> "loaded", says |-> infoRow.says, age |-> infoRow.age]
  /\ UNCHANGED <<bcp, version, rows, writes, info, infoFetch, docFetch>>

\* Put seeds the entry with the row's own age, whatever is there by now.
PrewarmPut ==
  /\ prewarm.pc = "loaded"
  /\ StillTrue(prewarm.says, prewarm.age)
  /\ Seed(prewarm.says, prewarm.age)
  /\ prewarm' = Idle
  /\ UNCHANGED <<bcp, version, rows, writes, infoFetch, docFetch>>

PrewarmReject ==
  /\ prewarm.pc = "loaded"
  /\ ~StillTrue(prewarm.says, prewarm.age)
  /\ prewarm' = Idle
  /\ UNCHANGED <<bcp, version, rows, writes, info, infoFetch, docFetch>>

(* The fetch of a document: roster, pairings of a round, or placings. *)

Become(d, state) == docFetch' = [docFetch EXCEPT ![d] = state]

\* BCP is asked: there is no row, whose age would not matter, or reading it
\* failed.  The second call, for the names of a roster's teams, may fail unnoticed.
AskDoc(d) ==
  /\ docFetch[d].pc = "idle"
  /\ \E whole \in IF d \in TwoCalls THEN BOOLEAN ELSE {TRUE} :
       Become(d, [pc |-> "judging", current |-> TRUE, whole |-> whole])
  /\ UNCHANGED <<bcp, version, rows, writes, info, infoFetch, prewarm>>

\* Fault: whatever the info says, the document is stored.
AnyVerdict == info.says \in Stages

Ended == info.says = "ended"

\* FetchEventInfo, answered from its entry or by a fetch that has just landed,
\* says whether the document is stored; if it fails, the document is not.
Judge(d) ==
  /\ docFetch[d].pc = "judging"
  /\ \/ /\ Servable /\ Ended
        /\ Queue([key |-> d, current |-> docFetch[d].current, whole |-> docFetch[d].whole,
                  version |-> version])
     \/ UNCHANGED writes
  /\ Become(d, Idle)
  /\ UNCHANGED <<bcp, version, rows, info, infoFetch, prewarm>>

(* The database. *)

\* Set, of a background write: in whatever order they get their turn.
Set(w) ==
  /\ w \in writes
  /\ writes' = writes \ {w}
  /\ IF w.key = "info"
       THEN /\ infoRow' = [kind |-> "row", says |-> w.says, age |-> 0, version |-> w.version]
            /\ UNCHANGED docRow
       ELSE /\ docRow' = [docRow EXCEPT ![w.key] =
                            [kind |-> "row", current |-> w.current, whole |-> w.whole,
                             version |-> w.version]]
            /\ UNCHANGED infoRow
  /\ UNCHANGED <<bcp, version, info, infoFetch, docFetch, prewarm>>

\* Its error is dropped.
SetFails(w) ==
  /\ w \in writes
  /\ writes' = writes \ {w}
  /\ UNCHANGED <<bcp, version, rows, info, infoFetch, docFetch, prewarm>>

\* Fault: every info row that is old enough goes.
OldInfo(row) == row.age >= Retention

Prunable(row) == row.age >= Retention /\ row.says # "ended"

\* Prune, in the background after a start.
Prune ==
  LET outdated(row) == row.kind = "row" /\ row.version # version IN
  /\ infoRow' = IF outdated(infoRow) \/ (infoRow.kind = "row" /\ Prunable(infoRow))
                  THEN Nothing ELSE infoRow
  /\ docRow' = [d \in Docs |-> IF outdated(docRow[d]) THEN Nothing ELSE docRow[d]]
  /\ rows' # rows
  /\ UNCHANGED <<bcp, version, writes, info, infoFetch, docFetch, prewarm>>

(* The process, the clock, and BCP. *)

\* Shutdown waits for the background writes, but not for long.  What it leaves
\* behind is lost, but for statements the database already has.
Restart(v) ==
  /\ version' = v
  /\ writes' \in {W \in SUBSET writes : Cardinality(W) <= Slots}
  /\ info' = Nothing /\ infoFetch' = Idle /\ prewarm' = Idle
  /\ docFetch' = [d \in Docs |-> Idle]
  /\ UNCHANGED <<bcp, rows>>

Older(age) == IF age < MaxAge THEN age + 1 ELSE age
Aged(x) == IF x.kind = "none" THEN x ELSE [x EXCEPT !.age = Older(@)]

InTime ==
  /\ infoFetch.pc = "idle" \/ (infoFetch.pc = "answered" /\ infoFetch.late = 0)
  /\ prewarm.pc = "idle"
  /\ \A w \in writes : w.key = "info" => w.late = 0

Tick ==
  /\ InTime
  /\ until' = IF until > 0 THEN until - 1 ELSE 0
  /\ endedFor' = IF stage = "ended" THEN Older(endedFor) ELSE 0
  /\ infoRow' = Aged(infoRow) /\ info' = Aged(info)
  /\ infoFetch' = IF infoFetch.pc = "answered" THEN [infoFetch EXCEPT !.late = 1] ELSE infoFetch
  /\ writes' = {IF w.key = "info" THEN [w EXCEPT !.late = 1] ELSE w : w \in writes}
  /\ UNCHANGED <<stage, version, docRow, docFetch, prewarm>>

\* Not before its listed start.
EventStarts ==
  /\ stage = "ahead" /\ until = 0
  /\ stage' = "live"
  /\ UNCHANGED <<until, endedFor, version, rows, writes, info, infoFetch, docFetch, prewarm>>

\* Copies of the documents made so far are no longer what BCP says.
Outdated(x) == IF "current" \in DOMAIN x THEN [x EXCEPT !.current = FALSE] ELSE x

EventChanges ==
  /\ stage # "ended"
  /\ docRow' = [d \in Docs |-> Outdated(docRow[d])]
  /\ docFetch' = [d \in Docs |-> Outdated(docFetch[d])]
  /\ writes' = {Outdated(w) : w \in writes}
  /\ UNCHANGED <<bcp, version, infoRow, info, infoFetch, prewarm>>

\* Also if it never started.
EventEnds ==
  /\ stage # "ended"
  /\ stage' = "ended"
  /\ UNCHANGED <<until, endedFor, version, rows, writes, info, infoFetch, docFetch, prewarm>>

Next ==
  \/ FindInfo \/ AskInfo \/ LandInfo \/ DropInfo
  \/ PrewarmQuery \/ PrewarmPut \/ PrewarmReject
  \/ \E d \in Docs : AskDoc(d) \/ Judge(d)
  \/ \E w \in writes : Set(w) \/ SetFails(w)
  \/ Prune
  \/ \E v \in Versions : Restart(v)
  \/ Tick \/ EventStarts \/ EventChanges \/ EventEnds

Spec == Init /\ [][Next]_vars

----------------------------------------------------------------------------
(* Properties. *)

\* Nobody is told that an event has not ended for longer than twice the lifetime
\* of that answer, and one fetch or write, after it has: not over restarts, late
\* or reordered background writes, rows written by other processes, prewarming,
\* or stale-while-revalidate on top of them.
EndIsNoticed == Servable /\ info.says # "ended" => endedFor <= 2 * info.ttl

\* client.go of eventInfoFarOffTTL: a "hasn't started" answer that was kept for
\* the long lifetime is never served past the listed start, although it may be
\* served for twice that lifetime and may come from a row.
NotHeldPastStart ==
  Servable /\ info.says = "ahead" /\ info.ttl = FarTTL => until > 0

\* A document is kept for good only if its event has ended, whichever of entry,
\* row, prewarming or fetch the verdict came from, and whenever it was stored.
ArchivedAfterEnd == \A d \in Docs : docRow[d] # Nothing => stage = "ended"

\* Pruning never removes a row that a read of the running binary would use, and
\* so never an answer that was to be kept for good.
PruneIsHarmless ==
  [][Prune =>
       /\ infoRow' # infoRow => ~UsableRow
       /\ \A d \in Docs : docRow'[d] # docRow[d] => ~Readable(docRow[d])]_vars

\* What durable.go says of permanent rows: they hold data that cannot change
\* again, so another fetch from BCP would find nothing else.
PermanentIsFinal ==
  \A d \in Docs : docRow[d] # Nothing => docRow[d].current /\ docRow[d].whole

=============================================================================
