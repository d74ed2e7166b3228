------------------------- MODULE EventArchiveProofs -------------------------
(***************************************************************************)
(* Safety of EventArchive, for every set of documents and of versions, and *)
(* all lifetimes that stand to each other as TimesAssumption says.         *)
(***************************************************************************)
EXTENDS EventArchive, TLAPS

(* What the records of each kind hold. *)

LEMMA RowFields ==
  ASSUME NEW r \in InfoRow \cup {Nothing}
  PROVE  /\ r.kind \in {"row", "none"}
         /\ r.kind = "row" => r \in InfoRow /\ r.says \in Stages /\ r.age \in Ages /\ r.version \in Versions
         /\ r.kind = "none" => r = Nothing
  BY DEF InfoRow, Nothing

LEMMA EntryFields ==
  ASSUME NEW e \in Entry \cup {Nothing}
  PROVE  /\ e.kind \in {"entry", "none"}
         /\ e.kind = "entry" => /\ e \in Entry /\ e.says \in Stages /\ e.age \in Ages
                                /\ e.ttl \in {ShortTTL, FarTTL, EndedTTL}
         /\ e.kind = "none" => e = Nothing
  BY DEF Entry, Nothing

LEMMA FetchFields ==
  ASSUME NEW f \in InfoFetch
  PROVE  /\ f.pc \in {"idle", "answered", "found"}
         /\ f.pc # "idle" => f.says \in Stages
         /\ f.pc = "answered" => f.late \in 0..1
         /\ f.pc = "found" => f.age \in Ages
  BY DEF InfoFetch

LEMMA PrewarmFields ==
  ASSUME NEW p \in Prewarm, p.pc = "loaded"
  PROVE  p.says \in Stages /\ p.age \in Ages
  BY DEF Prewarm

LEMMA WriteFields ==
  ASSUME NEW w \in Write
  PROVE  /\ w.key = "info" => w.says \in Stages /\ w.late \in 0..1 /\ w.version \in Versions
         /\ w.key # "info" => /\ w.key \in Docs /\ w.current \in BOOLEAN
                              /\ w.whole \in BOOLEAN /\ w.version \in Versions
  BY DocsAssumption DEF Write

\* An answer's lifetime, and when it is the long one.
LEMMA Lifetimes ==
  ASSUME TypeOK, NEW says \in Stages
  PROVE  /\ eventInfoTTL(says) \in {ShortTTL, FarTTL, EndedTTL}
         /\ says = "ahead" /\ eventInfoTTL(says) = FarTTL => until >= FarOff
<1>1. CASE says = "ended"
  BY <1>1 DEF eventInfoTTL
<1>2. CASE says = "live"
  BY <1>2 DEF eventInfoTTL
<1>3. CASE says = "ahead"
  BY <1>3, TimesAssumption DEF eventInfoTTL
<1> QED BY <1>1, <1>2, <1>3 DEF Stages

LEMMA SeedType ==
  ASSUME TypeOK, NEW says \in Stages, NEW age \in Ages, Seed(says, age)
  PROVE  info' \in Entry
  BY Lifetimes DEF Seed, Entry

LEMMA OlderType ==
  ASSUME NEW age \in Ages
  PROVE  Older(age) \in Ages /\ Older(age) >= age /\ Older(age) <= age + 1
         /\ (age < MaxAge => Older(age) = age + 1)
  BY TimesAssumption DEF Older, Ages

LEMMA AgedRow ==
  ASSUME NEW r \in InfoRow \cup {Nothing}
  PROVE  /\ Aged(r) \in InfoRow \cup {Nothing}
         /\ r.kind = "none" => Aged(r) = r
         /\ r.kind = "row" => /\ Aged(r).kind = "row" /\ Aged(r).says = r.says
                              /\ Aged(r).age = Older(r.age)
<1>1. CASE r.kind = "row"
  <2>1. r \in InfoRow /\ r.age \in Ages
    BY <1>1, RowFields
  <2>2. Older(r.age) \in Ages
    BY <2>1, OlderType
  <2> QED BY <1>1, <2>1, <2>2 DEF Aged, InfoRow
<1>2. CASE r.kind = "none"
  BY <1>2 DEF Aged
<1> QED BY <1>1, <1>2, RowFields

LEMMA AgedEntry ==
  ASSUME NEW e \in Entry \cup {Nothing}
  PROVE  /\ Aged(e) \in Entry \cup {Nothing}
         /\ e.kind = "none" => Aged(e) = e
         /\ e.kind = "entry" => /\ Aged(e).kind = "entry" /\ Aged(e).says = e.says
                                /\ Aged(e).age = Older(e.age) /\ Aged(e).ttl = e.ttl
<1>1. CASE e.kind = "entry"
  <2>1. e \in Entry /\ e.age \in Ages
    BY <1>1, EntryFields
  <2>2. Older(e.age) \in Ages
    BY <2>1, OlderType
  <2> QED BY <1>1, <2>1, <2>2 DEF Aged, Entry
<1>2. CASE e.kind = "none"
  BY <1>2 DEF Aged
<1> QED BY <1>1, <1>2, EntryFields

\* What becomes of a copy of a document when BCP changes it.
LEMMA OutdatedDoc ==
  /\ \A r \in DocRow \cup {Nothing} :
       Outdated(r) \in DocRow \cup {Nothing} /\ (r = Nothing => Outdated(r) = Nothing)
  /\ \A f \in DocFetch : Outdated(f) \in DocFetch
  /\ \A w \in Write : /\ Outdated(w) \in Write /\ Outdated(w).key = w.key
                      /\ w.key = "info" => Outdated(w) = w
<1>1. ASSUME NEW r \in DocRow \cup {Nothing}
      PROVE  Outdated(r) \in DocRow \cup {Nothing} /\ (r = Nothing => Outdated(r) = Nothing)
  BY DEF DocRow, Nothing, Outdated
<1>2. ASSUME NEW f \in DocFetch PROVE Outdated(f) \in DocFetch
  BY DEF DocFetch, Outdated
<1>3. ASSUME NEW w \in Write
      PROVE  /\ Outdated(w) \in Write /\ Outdated(w).key = w.key
             /\ w.key = "info" => Outdated(w) = w
  <2>1. CASE w.key = "info"
    <3>1. w \in [key : {"info"}, says : Stages, late : 0..1, version : Versions]
      BY <2>1, DocsAssumption DEF Write
    <3>2. "current" \notin DOMAIN w
      BY <3>1
    <3> QED BY <3>2 DEF Outdated
  <2>2. CASE w.key # "info"
    <3>1. w \in [key : Docs, current : BOOLEAN, whole : BOOLEAN, version : Versions]
      BY <2>2 DEF Write
    <3> QED BY <3>1, <2>2 DEF Outdated, Write
  <2> QED BY <2>1, <2>2
<1> QED BY <1>1, <1>2, <1>3

\* A write that is queued is added to those there are.
LEMMA QueueType ==
  ASSUME TypeOK, NEW w \in Write, Queue(w) \/ UNCHANGED writes
  PROVE  writes' \subseteq Write /\ writes' \subseteq writes \cup {w}
  BY DEF TypeOK, Queue

----------------------------------------------------------------------------
\* Every step keeps every variable's type.
LEMMA TypeStep == TypeOK /\ [Next]_vars => TypeOK'
<1> SUFFICES ASSUME TypeOK, [Next]_vars PROVE TypeOK'
  OBVIOUS
<1>1. CASE FindInfo
  <2>1. infoRow.says \in Stages /\ infoRow.age \in Ages
    BY <1>1, RowFields DEF FindInfo, UsableRow, Readable, TypeOK
  <2> QED BY <1>1, <2>1 DEF FindInfo, TypeOK, InfoFetch, bcp, rows
<1>2. CASE AskInfo
  <2> DEFINE w == [key |-> "info", says |-> stage, late |-> 0, version |-> version]
  <2>1. w \in Write
    BY DEF TypeOK, Write
  <2>2. writes' \subseteq Write
    BY <1>2, <2>1, QueueType DEF AskInfo
  <2>3. infoFetch' \in InfoFetch
    BY <1>2 DEF AskInfo, InfoFetch, TypeOK
  <2> QED BY <1>2, <2>2, <2>3 DEF AskInfo, TypeOK, bcp, rows
<1>3. CASE LandInfo
  <2>1. infoFetch.says \in Stages /\ FetchedAge \in Ages
    BY <1>3, FetchFields, TimesAssumption DEF LandInfo, FetchedAge, TypeOK, Ages
  <2>2. info' \in Entry
    BY <1>3, <2>1, SeedType DEF LandInfo
  <2> QED BY <1>3, <2>2 DEF LandInfo, TypeOK, InfoFetch, Idle, bcp, rows
<1>4. CASE DropInfo
  BY <1>4 DEF DropInfo, TypeOK, bcp, rows
<1>5. CASE PrewarmQuery
  <2>1. infoRow.says \in Stages /\ infoRow.age \in Ages
    BY <1>5, RowFields DEF PrewarmQuery, Readable, TypeOK
  <2> QED BY <1>5, <2>1 DEF PrewarmQuery, TypeOK, Prewarm, bcp, rows
<1>6. CASE PrewarmPut
  <2>1. info' \in Entry
    BY <1>6, PrewarmFields, SeedType DEF PrewarmPut, TypeOK
  <2> QED BY <1>6, <2>1 DEF PrewarmPut, TypeOK, Prewarm, Idle, bcp, rows
<1>7. CASE PrewarmReject
  BY <1>7 DEF PrewarmReject, TypeOK, Prewarm, Idle, bcp, rows
<1>8. ASSUME NEW d \in Docs, AskDoc(d) PROVE TypeOK'
  <2>1. PICK whole \in BOOLEAN :
          Become(d, [pc |-> "judging", current |-> TRUE, whole |-> whole])
    BY <1>8 DEF AskDoc
  <2>2. docFetch' \in [Docs -> DocFetch]
    BY <2>1 DEF Become, TypeOK, DocFetch
  <2> QED BY <1>8, <2>2 DEF AskDoc, TypeOK, bcp, rows
<1>9. ASSUME NEW d \in Docs, Judge(d) PROVE TypeOK'
  <2> DEFINE w == [key |-> d, current |-> docFetch[d].current, whole |-> docFetch[d].whole,
                   version |-> version]
  <2>1. w \in Write
    BY <1>9 DEF Judge, TypeOK, DocFetch, Write
  <2>2. Queue(w) \/ UNCHANGED writes
    BY <1>9 DEF Judge
  <2>3. writes' \subseteq Write
    BY <2>1, <2>2, QueueType
  <2>4. docFetch' \in [Docs -> DocFetch]
    BY <1>9 DEF Judge, Become, TypeOK, DocFetch, Idle
  <2> QED BY <1>9, <2>3, <2>4 DEF Judge, TypeOK, bcp, rows
<1>10. ASSUME NEW w \in writes, Set(w) PROVE TypeOK'
  <2>1. w \in Write
    BY DEF TypeOK
  <2>2. CASE w.key = "info"
    <3>1. infoRow' \in InfoRow
      BY <1>10, <2>1, <2>2, WriteFields, TimesAssumption DEF Set, InfoRow, Ages
    <3> QED BY <1>10, <2>2, <3>1 DEF Set, TypeOK, bcp
  <2>3. CASE w.key # "info"
    <3>1. docRow' \in [Docs -> DocRow \cup {Nothing}]
      BY <1>10, <2>1, <2>3, WriteFields DEF Set, DocRow, TypeOK
    <3> QED BY <1>10, <2>3, <3>1 DEF Set, TypeOK, bcp
  <2> QED BY <2>2, <2>3
<1>11. ASSUME NEW w \in writes, SetFails(w) PROVE TypeOK'
  BY <1>11 DEF SetFails, TypeOK, bcp, rows
<1>12. CASE Prune
  BY <1>12 DEF Prune, TypeOK, bcp
<1>13. ASSUME NEW v \in Versions, Restart(v) PROVE TypeOK'
  BY <1>13 DEF Restart, TypeOK, Idle, InfoFetch, DocFetch, Prewarm, bcp, rows
<1>14. CASE Tick
  <2>1. until' \in 0..Lead /\ endedFor' \in Ages
    BY <1>14, OlderType, TimesAssumption DEF Tick, TypeOK, Ages
  <2>2. infoRow' \in InfoRow \cup {Nothing} /\ info' \in Entry \cup {Nothing}
    BY <1>14, AgedRow, AgedEntry DEF Tick, TypeOK
  <2>3. infoFetch' \in InfoFetch
    BY <1>14, FetchFields DEF Tick, TypeOK, InfoFetch
  <2>4. \A w \in writes : (IF w.key = "info" THEN [w EXCEPT !.late = 1] ELSE w) \in Write
    BY DocsAssumption DEF TypeOK, Write
  <2>5. writes' \subseteq Write
    BY <1>14, <2>4 DEF Tick
  <2> QED BY <1>14, <2>1, <2>2, <2>3, <2>5 DEF Tick, TypeOK
<1>15. CASE EventStarts
  BY <1>15 DEF EventStarts, TypeOK, Stages, rows
<1>16. CASE EventChanges
  BY <1>16, OutdatedDoc DEF EventChanges, TypeOK, bcp
<1>17. CASE EventEnds
  BY <1>17 DEF EventEnds, TypeOK, Stages, rows
<1>18. CASE UNCHANGED vars
  BY <1>18 DEF vars, bcp, rows, TypeOK
<1> QED BY <1>1, <1>2, <1>3, <1>4, <1>5, <1>6, <1>7, <1>8, <1>9, <1>10, <1>11, <1>12,
          <1>13, <1>14, <1>15, <1>16, <1>17, <1>18 DEF Next

\* Every variable always has its type: rows, writes, entries and fetches hold what
\* the code puts in them.
THEOREM TypeCorrect == Spec => []TypeOK
<1>1. Init => TypeOK
  BY TimesAssumption
  DEF Init, TypeOK, Stages, Ages, Idle, InfoFetch, DocFetch, Prewarm
<1> QED BY <1>1, TypeStep, PTL DEF Spec

----------------------------------------------------------------------------
\* Whatever says "ended", and every document kept or about to be, is of an event
\* that has ended.
EndInv ==
  /\ infoRow.kind = "row" /\ infoRow.says = "ended" => stage = "ended"
  /\ info.kind = "entry" /\ info.says = "ended" => stage = "ended"
  /\ infoFetch.pc # "idle" /\ infoFetch.says = "ended" => stage = "ended"
  /\ prewarm.pc = "loaded" /\ prewarm.says = "ended" => stage = "ended"
  /\ \A w \in writes : (w.key = "info" => w.says = "ended") => stage = "ended"
  /\ ArchivedAfterEnd

\* Whatever says otherwise is as old, by its own account, as the end of the event,
\* but for the tick that a request or a write may take.
AgeInv ==
  /\ stage # "ended" => endedFor = 0
  /\ infoRow.kind = "row" /\ infoRow.says # "ended" => endedFor <= infoRow.age + 1
  /\ info.kind = "entry" /\ info.says # "ended" => endedFor <= info.age + 1
  /\ infoFetch.pc = "answered" /\ infoFetch.says # "ended" => endedFor <= infoFetch.late
  /\ infoFetch.pc = "found" /\ infoFetch.says # "ended" => endedFor <= infoFetch.age + 1
  /\ prewarm.pc = "loaded" /\ prewarm.says # "ended" => endedFor <= prewarm.age + 1
  /\ \A w \in writes : w.key = "info" /\ w.says # "ended" => endedFor <= w.late

\* An entry got the long lifetime when the start was far enough away.
StartInv ==
  info.kind = "entry" /\ info.says = "ahead" /\ info.ttl = FarTTL /\ info.age < 2 * FarTTL
    => until + info.age >= FarOff

LEMMA EndStep == TypeOK /\ EndInv /\ [Next]_vars => EndInv'
<1> SUFFICES ASSUME TypeOK, EndInv, [Next]_vars PROVE EndInv'
  OBVIOUS
<1> USE DEF ArchivedAfterEnd
<1>1. CASE FindInfo
  BY <1>1 DEF FindInfo, UsableRow, Readable, EndInv, bcp, rows
<1>2. CASE AskInfo
  <2> DEFINE w == [key |-> "info", says |-> stage, late |-> 0, version |-> version]
  <2>1. w \in Write
    BY DEF TypeOK, Write
  <2>2. writes' \subseteq writes \cup {w}
    BY <1>2, <2>1, QueueType DEF AskInfo
  <2>3. \A x \in writes' : (x.key = "info" => x.says = "ended") => stage' = "ended"
    BY <1>2, <2>2 DEF AskInfo, EndInv, bcp
  <2> QED BY <1>2, <2>3 DEF AskInfo, EndInv, bcp, rows
<1>3. CASE LandInfo
  BY <1>3 DEF LandInfo, Seed, EndInv, Idle, bcp, rows
<1>4. CASE DropInfo
  BY <1>4 DEF DropInfo, Nothing, EndInv, bcp, rows
<1>5. CASE PrewarmQuery
  BY <1>5 DEF PrewarmQuery, Readable, EndInv, bcp, rows
<1>6. CASE PrewarmPut
  BY <1>6 DEF PrewarmPut, Seed, EndInv, Idle, bcp, rows
<1>7. CASE PrewarmReject
  BY <1>7 DEF PrewarmReject, EndInv, Idle, bcp, rows
<1>8. ASSUME NEW d \in Docs, AskDoc(d) PROVE EndInv'
  BY <1>8 DEF AskDoc, EndInv, bcp, rows
<1>9. ASSUME NEW d \in Docs, Judge(d) PROVE EndInv'
  <2> DEFINE w == [key |-> d, current |-> docFetch[d].current, whole |-> docFetch[d].whole,
                   version |-> version]
  <2>1. w \in Write
    BY <1>9 DEF Judge, TypeOK, DocFetch, Write
  <2>2. CASE Servable /\ Ended /\ Queue(w)
    <3>1. stage = "ended"
      BY <2>2 DEF Servable, Ended, EndInv
    <3> QED BY <1>9, <3>1 DEF Judge, EndInv, bcp, rows
  <2>3. CASE UNCHANGED writes
    BY <1>9, <2>3 DEF Judge, EndInv, bcp, rows
  <2> QED BY <1>9, <2>2, <2>3 DEF Judge
<1>10. ASSUME NEW w \in writes, Set(w) PROVE EndInv'
  <2>1. CASE w.key = "info"
    BY <1>10, <2>1 DEF Set, EndInv, bcp
  <2>2. CASE w.key # "info"
    <3>1. stage = "ended"
      BY <2>2 DEF EndInv
    <3> QED BY <1>10, <2>2, <3>1 DEF Set, EndInv, bcp
  <2> QED BY <2>1, <2>2
<1>11. ASSUME NEW w \in writes, SetFails(w) PROVE EndInv'
  BY <1>11 DEF SetFails, EndInv, bcp, rows
<1>12. CASE Prune
  <2>1. infoRow' \in {infoRow, Nothing} /\ \A d \in Docs : docRow'[d] \in {docRow[d], Nothing}
    BY <1>12 DEF Prune
  <2> QED BY <1>12, <2>1 DEF Prune, Nothing, EndInv, bcp
<1>13. ASSUME NEW v \in Versions, Restart(v) PROVE EndInv'
  <2>1. writes' \subseteq writes
    BY <1>13 DEF Restart
  <2> QED BY <1>13, <2>1 DEF Restart, Idle, Nothing, EndInv, bcp, rows
<1>14. CASE Tick
  <2>1. /\ infoRow'.kind = "row" => infoRow.kind = "row" /\ infoRow'.says = infoRow.says
        /\ info'.kind = "entry" => info.kind = "entry" /\ info'.says = info.says
    BY <1>14, AgedRow, AgedEntry, RowFields, EntryFields DEF Tick, TypeOK
  <2>2. /\ infoFetch'.pc # "idle" => infoFetch.pc # "idle" /\ infoFetch'.says = infoFetch.says
        /\ prewarm' = prewarm
    BY <1>14, FetchFields DEF Tick, TypeOK, InfoFetch
  <2>3. ASSUME NEW x \in writes', x.key = "info" => x.says = "ended" PROVE stage' = "ended"
    <3>1. PICK w \in writes : x = IF w.key = "info" THEN [w EXCEPT !.late = 1] ELSE w
      BY <1>14 DEF Tick
    <3>2. x.key = w.key /\ (w.key = "info" => x.says = w.says)
      BY <3>1, DocsAssumption DEF TypeOK, Write
    <3> QED BY <1>14, <2>3, <3>2 DEF Tick, EndInv
  <2> QED BY <1>14, <2>1, <2>2, <2>3 DEF Tick, EndInv
<1>15. CASE EventStarts
  BY <1>15 DEF EventStarts, EndInv, rows
<1>16. CASE EventChanges
  <2>1. \A d \in Docs : docRow'[d] # Nothing => docRow[d] # Nothing
    BY <1>16, OutdatedDoc DEF EventChanges, TypeOK
  <2>2. ASSUME NEW x \in writes', x.key = "info" => x.says = "ended" PROVE stage' = "ended"
    <3>1. PICK w \in writes : x = Outdated(w)
      BY <1>16 DEF EventChanges
    <3>2. w \in Write
      BY DEF TypeOK
    <3>3. x.key = w.key /\ (w.key = "info" => x = w)
      BY <3>1, <3>2, OutdatedDoc
    <3> QED BY <1>16, <2>2, <3>3 DEF EventChanges, EndInv, bcp
  <2> QED BY <1>16, <2>1, <2>2 DEF EventChanges, EndInv, bcp
<1>17. CASE EventEnds
  BY <1>17 DEF EventEnds, EndInv, rows
<1>18. CASE UNCHANGED vars
  BY <1>18 DEF vars, bcp, rows, EndInv
<1> QED BY <1>1, <1>2, <1>3, <1>4, <1>5, <1>6, <1>7, <1>8, <1>9, <1>10, <1>11, <1>12,
          <1>13, <1>14, <1>15, <1>16, <1>17, <1>18 DEF Next

\* A document is kept for good only if its event has ended, whatever restarts,
\* prewarming, other binaries and late writes do.
THEOREM AlwaysArchivedAfterEnd == Spec => []ArchivedAfterEnd
<1>1. Init => EndInv
  BY DEF Init, EndInv, ArchivedAfterEnd, Nothing, Idle
<1>2. EndInv => ArchivedAfterEnd
  BY DEF EndInv
<1> QED BY <1>1, <1>2, EndStep, TypeCorrect, PTL DEF Spec

----------------------------------------------------------------------------
LEMMA AgeStep == TypeOK /\ AgeInv /\ [Next]_vars => AgeInv'
<1> SUFFICES ASSUME TypeOK, AgeInv, [Next]_vars PROVE AgeInv'
  OBVIOUS
<1> USE TimesAssumption
<1>1. CASE FindInfo
  BY <1>1 DEF FindInfo, UsableRow, Readable, AgeInv, bcp, rows
<1>2. CASE AskInfo
  <2> DEFINE w == [key |-> "info", says |-> stage, late |-> 0, version |-> version]
  <2>1. w \in Write
    BY DEF TypeOK, Write
  <2>2. writes' \subseteq writes \cup {w}
    BY <1>2, <2>1, QueueType DEF AskInfo
  <2>3. \A x \in writes' : x.key = "info" /\ x.says # "ended" => endedFor' <= x.late
    BY <1>2, <2>2 DEF AskInfo, AgeInv, bcp
  <2> QED BY <1>2, <2>3 DEF AskInfo, AgeInv, bcp, rows
<1>3. CASE LandInfo
  <2>1. infoFetch.says # "ended" => endedFor <= FetchedAge + 1
    BY <1>3, FetchFields DEF LandInfo, FetchedAge, AgeInv, TypeOK, Ages
  <2> QED BY <1>3, <2>1 DEF LandInfo, Seed, AgeInv, Idle, bcp, rows
<1>4. CASE DropInfo
  BY <1>4 DEF DropInfo, Nothing, AgeInv, bcp, rows
<1>5. CASE PrewarmQuery
  BY <1>5 DEF PrewarmQuery, Readable, AgeInv, bcp, rows
<1>6. CASE PrewarmPut
  BY <1>6 DEF PrewarmPut, Seed, AgeInv, Idle, bcp, rows
<1>7. CASE PrewarmReject
  BY <1>7 DEF PrewarmReject, AgeInv, Idle, bcp, rows
<1>8. ASSUME NEW d \in Docs, AskDoc(d) PROVE AgeInv'
  BY <1>8 DEF AskDoc, AgeInv, bcp, rows
<1>9. ASSUME NEW d \in Docs, Judge(d) PROVE AgeInv'
  <2> DEFINE w == [key |-> d, current |-> docFetch[d].current, whole |-> docFetch[d].whole,
                   version |-> version]
  <2>1. w \in Write /\ w.key # "info"
    BY <1>9, DocsAssumption DEF Judge, TypeOK, DocFetch, Write
  <2>2. writes' \subseteq writes \cup {w}
    BY <1>9, <2>1, QueueType DEF Judge
  <2> QED BY <1>9, <2>1, <2>2 DEF Judge, AgeInv, bcp, rows
<1>10. ASSUME NEW w \in writes, Set(w) PROVE AgeInv'
  <2>1. w \in Write
    BY DEF TypeOK
  <2>2. CASE w.key = "info"
    <3>1. w.says # "ended" => endedFor <= 0 + 1
      BY <2>1, <2>2, WriteFields DEF AgeInv, TypeOK, Ages
    <3> QED BY <1>10, <2>2, <3>1 DEF Set, AgeInv, bcp
  <2>3. CASE w.key # "info"
    BY <1>10, <2>3 DEF Set, AgeInv, bcp
  <2> QED BY <2>2, <2>3
<1>11. ASSUME NEW w \in writes, SetFails(w) PROVE AgeInv'
  BY <1>11 DEF SetFails, AgeInv, bcp, rows
<1>12. CASE Prune
  <2>1. infoRow' \in {infoRow, Nothing}
    BY <1>12 DEF Prune
  <2> QED BY <1>12, <2>1 DEF Prune, Nothing, AgeInv, bcp
<1>13. ASSUME NEW v \in Versions, Restart(v) PROVE AgeInv'
  <2>1. writes' \subseteq writes
    BY <1>13 DEF Restart
  <2> QED BY <1>13, <2>1 DEF Restart, Idle, Nothing, AgeInv, bcp, rows
<1>14. CASE Tick
  <2>1. /\ endedFor \in Ages /\ endedFor' \in Ages /\ endedFor' <= endedFor + 1
        /\ stage' = stage /\ (stage' # "ended" => endedFor' = 0)
    BY <1>14, OlderType DEF Tick, TypeOK, Ages
  <2>2. ASSUME NEW age \in Ages, endedFor <= age + 1 PROVE endedFor' <= Older(age) + 1
    BY <2>1, <2>2, OlderType DEF Ages
  <2>3. infoRow'.kind = "row" /\ infoRow'.says # "ended" => endedFor' <= infoRow'.age + 1
    <3>1. infoRow' = Aged(infoRow) /\ infoRow \in InfoRow \cup {Nothing}
      BY <1>14 DEF Tick, TypeOK
    <3> QED BY <2>2, <3>1, AgedRow, RowFields DEF AgeInv
  <2>4. info'.kind = "entry" /\ info'.says # "ended" => endedFor' <= info'.age + 1
    <3>1. info' = Aged(info) /\ info \in Entry \cup {Nothing}
      BY <1>14 DEF Tick, TypeOK
    <3> QED BY <2>2, <3>1, AgedEntry, EntryFields DEF AgeInv
  <2>5. infoFetch'.pc # "idle" =>
          /\ infoFetch'.pc = "answered" /\ infoFetch'.late = 1
          /\ infoFetch'.says # "ended" => endedFor' <= infoFetch'.late
    <3>1. CASE infoFetch.pc = "idle"
      BY <1>14, <3>1 DEF Tick
    <3>2. CASE infoFetch.pc = "answered" /\ infoFetch.late = 0
      <4>1. infoFetch' = [infoFetch EXCEPT !.late = 1]
        BY <1>14, <3>2 DEF Tick
      <4>2. infoFetch \in [pc : {"answered"}, says : Stages, late : 0..1]
        BY <3>2 DEF TypeOK, InfoFetch
      <4>3. infoFetch'.pc = "answered" /\ infoFetch'.late = 1 /\ infoFetch'.says = infoFetch.says
        BY <4>1, <4>2
      <4>4. infoFetch.says # "ended" => endedFor <= 0
        BY <3>2 DEF AgeInv
      <4> QED BY <2>1, <4>3, <4>4 DEF Ages
    <3> QED BY <1>14, <3>1, <3>2 DEF Tick, InTime
  <2>6. prewarm'.pc # "loaded"
    BY <1>14 DEF Tick, InTime
  <2>7. ASSUME NEW x \in writes', x.key = "info", x.says # "ended" PROVE endedFor' <= x.late
    <3>1. PICK w \in writes : x = IF w.key = "info" THEN [w EXCEPT !.late = 1] ELSE w
      BY <1>14 DEF Tick
    <3>2. w \in Write /\ w.key = "info"
      BY <2>7, <3>1 DEF TypeOK
    <3>3. w \in [key : {"info"}, says : Stages, late : 0..1, version : Versions]
      BY <3>2, DocsAssumption DEF Write
    <3>4. x.says = w.says /\ x.late = 1
      BY <3>1, <3>2, <3>3
    <3>5. endedFor <= w.late /\ w.late = 0
      BY <1>14, <2>7, <3>2, <3>4 DEF Tick, InTime, AgeInv
    <3> QED BY <2>1, <3>4, <3>5 DEF Ages
  <2> QED BY <2>1, <2>3, <2>4, <2>5, <2>6, <2>7 DEF AgeInv
<1>15. CASE EventStarts
  BY <1>15 DEF EventStarts, AgeInv, rows
<1>16. CASE EventChanges
  <2>1. ASSUME NEW x \in writes', x.key = "info" PROVE x \in writes
    BY <1>16, <2>1, OutdatedDoc DEF EventChanges, TypeOK
  <2> QED BY <1>16, <2>1 DEF EventChanges, AgeInv, bcp
<1>17. CASE EventEnds
  BY <1>17 DEF EventEnds, AgeInv, rows
<1>18. CASE UNCHANGED vars
  BY <1>18 DEF vars, bcp, rows, AgeInv
<1> QED BY <1>1, <1>2, <1>3, <1>4, <1>5, <1>6, <1>7, <1>8, <1>9, <1>10, <1>11, <1>12,
          <1>13, <1>14, <1>15, <1>16, <1>17, <1>18 DEF Next

\* Nobody is told that an event has not ended for longer than twice the lifetime of
\* the answer after it has: an answer's age bounds how long the event has ended.
THEOREM EndAlwaysNoticed == Spec => []EndIsNoticed
<1>1. Init => AgeInv
  BY DEF Init, AgeInv, Nothing, Idle
<1>2. TypeOK /\ AgeInv => EndIsNoticed
  <2> SUFFICES ASSUME TypeOK, AgeInv, Servable, info.says # "ended"
               PROVE  endedFor <= 2 * info.ttl
    BY DEF EndIsNoticed
  <2>1. info.age \in Nat /\ info.ttl \in Nat /\ endedFor \in Nat
    BY EntryFields, TimesAssumption DEF Servable, TypeOK, Ages
  <2>2. endedFor <= info.age + 1 /\ info.age < 2 * info.ttl
    BY DEF AgeInv, Servable
  <2> QED BY <2>1, <2>2
<1> QED BY <1>1, <1>2, AgeStep, TypeCorrect, PTL DEF Spec

----------------------------------------------------------------------------
\* Only seeding makes entries, and only the clock makes them older.
LEMMA EntrySteps ==
  ASSUME TypeOK, [Next]_vars
  PROVE  \/ info' = Nothing
         \/ info' = info /\ until' = until
         \/ until' = until /\ \E says \in Stages, age \in Ages : Seed(says, age)
         \/ Tick
<1>1. CASE LandInfo
  <2>1. infoFetch.says \in Stages /\ FetchedAge \in Ages
    BY <1>1, FetchFields, TimesAssumption DEF LandInfo, FetchedAge, TypeOK, Ages
  <2> QED BY <1>1, <2>1 DEF LandInfo, bcp
<1>2. CASE PrewarmPut
  BY <1>2, PrewarmFields DEF PrewarmPut, TypeOK, bcp
<1>3. CASE FindInfo \/ AskInfo \/ PrewarmQuery \/ PrewarmReject \/ Prune
  BY <1>3 DEF FindInfo, AskInfo, PrewarmQuery, PrewarmReject, Prune, bcp
<1>4. CASE EventStarts \/ EventChanges \/ EventEnds \/ UNCHANGED vars
  BY <1>4 DEF EventStarts, EventChanges, EventEnds, vars, bcp
<1>5. CASE \E d \in Docs : AskDoc(d) \/ Judge(d)
  BY <1>5 DEF AskDoc, Judge, bcp
<1>6. CASE \E w \in writes : Set(w) \/ SetFails(w)
  BY <1>6 DEF Set, SetFails, bcp
<1>7. CASE DropInfo \/ \E v \in Versions : Restart(v)
  BY <1>7 DEF DropInfo, Restart
<1> QED BY <1>1, <1>2, <1>3, <1>4, <1>5, <1>6, <1>7 DEF Next

LEMMA StartStep == TypeOK /\ StartInv /\ [Next]_vars => StartInv'
<1> SUFFICES ASSUME TypeOK, StartInv, [Next]_vars,
                    info'.kind = "entry", info'.says = "ahead", info'.ttl = FarTTL,
                    info'.age < 2 * FarTTL
             PROVE  until' + info'.age >= FarOff
  BY DEF StartInv
<1> USE TimesAssumption
<1>1. CASE info' = Nothing
  BY <1>1 DEF Nothing
<1>2. CASE info' = info /\ until' = until
  BY <1>2 DEF StartInv
<1>3. CASE until' = until /\ \E says \in Stages, age \in Ages : Seed(says, age)
  <2>1. PICK says \in Stages, age \in Ages : Seed(says, age)
    BY <1>3
  <2>2. says = "ahead" /\ eventInfoTTL(says) = FarTTL /\ info'.age = age
    BY <2>1 DEF Seed
  <2>3. until >= FarOff
    BY <2>2, Lifetimes
  <2> QED BY <1>3, <2>2, <2>3 DEF Ages, TypeOK
<1>4. CASE Tick
  <2>1. info' = Aged(info) /\ info \in Entry \cup {Nothing}
    BY <1>4 DEF Tick, TypeOK
  <2>2. info.kind = "entry"
    BY <2>1, EntryFields, AgedEntry DEF Nothing
  <2>3. /\ info.says = "ahead" /\ info.ttl = FarTTL /\ info.age \in Ages
        /\ info'.age = Older(info.age)
    BY <2>1, <2>2, AgedEntry, EntryFields
  <2>4. info.age < MaxAge /\ info.age < 2 * FarTTL /\ info'.age = info.age + 1
    BY <2>3, OlderType DEF Older, Ages
  <2>5. until + info.age >= FarOff
    BY <2>2, <2>3, <2>4 DEF StartInv
  <2>6. until' >= until - 1 /\ until \in Nat /\ until' \in Nat
    BY <1>4 DEF Tick, TypeOK
  <2> QED BY <2>3, <2>4, <2>5, <2>6 DEF Ages
<1> QED BY <1>1, <1>2, <1>3, <1>4, EntrySteps

\* A "hasn't started" answer kept for the long lifetime is never served past the
\* listed start: the threshold is at least twice that lifetime.
THEOREM NeverHeldPastStart == Spec => []NotHeldPastStart
<1>1. Init => StartInv
  BY DEF Init, StartInv, Nothing
<1>2. TypeOK /\ StartInv => NotHeldPastStart
  <2> SUFFICES ASSUME TypeOK, StartInv, Servable, info.says = "ahead", info.ttl = FarTTL
               PROVE  until > 0
    BY DEF NotHeldPastStart
  <2>1. info.age \in Nat /\ until \in Nat /\ info.age < 2 * FarTTL
    BY EntryFields, TimesAssumption DEF Servable, TypeOK, Ages
  <2>2. until + info.age >= FarOff
    BY <2>1 DEF StartInv, Servable
  <2> QED BY <2>1, <2>2, TimesAssumption
<1> QED BY <1>1, <1>2, StartStep, TypeCorrect, PTL DEF Spec

----------------------------------------------------------------------------
\* Pruning never removes a row that a read of the running binary would use: it goes
\* by the same versions, and waits longer than any lifetime.
THEOREM PruningAlwaysHarmless == Spec => PruneIsHarmless
<1> DEFINE Harmless ==
      Prune => /\ infoRow' # infoRow => ~UsableRow
               /\ \A d \in Docs : docRow'[d] # docRow[d] => ~Readable(docRow[d])
<1>1. ASSUME TypeOK, Prune
      PROVE  /\ infoRow' # infoRow => ~UsableRow
             /\ \A d \in Docs : docRow'[d] # docRow[d] => ~Readable(docRow[d])
  <2>1. ASSUME infoRow' # infoRow, UsableRow PROVE FALSE
    <3>1. infoRow.kind = "row" /\ infoRow.version = version
      BY <2>1 DEF UsableRow, Readable
    <3>2. infoRow.age >= Retention /\ infoRow.says # "ended"
      BY <1>1, <2>1, <3>1 DEF Prune, Prunable
    <3>3. infoRow.age < eventInfoTTL(infoRow.says)
      BY <2>1, <3>2 DEF UsableRow, StillTrue
    <3>4. infoRow.says \in Stages /\ infoRow.age \in Nat
      BY <1>1, <3>1, RowFields, TimesAssumption DEF TypeOK, Ages
    <3>5. eventInfoTTL(infoRow.says) \in {ShortTTL, FarTTL}
      BY <3>2, <3>4 DEF eventInfoTTL, Stages
    <3> QED BY <3>2, <3>3, <3>4, <3>5, TimesAssumption
  <2>2. ASSUME NEW d \in Docs, docRow'[d] # docRow[d], Readable(docRow[d]) PROVE FALSE
    BY <1>1, <2>2 DEF Prune, Readable
  <2> QED BY <2>1, <2>2
<1>2. TypeOK => [Harmless]_vars
  BY <1>1
<1> QED BY <1>2, TypeCorrect, PTL DEF PruneIsHarmless

=============================================================================
