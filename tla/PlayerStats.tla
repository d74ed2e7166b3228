---------------------------- MODULE PlayerStats ----------------------------
(***************************************************************************)
(* What a player is shown of their record: the figures of                  *)
(* internal/api/stats.go, in a summary (Home) and in full (/stats), and    *)
(* the three lists of My Events, from internal/api/me.go.                  *)
(*                                                                         *)
(* All three begin with the placing feed, which has a row per league an    *)
(* event is scored under, and keep one row per event.  The first to be of  *)
(* the flagship ITC league wins, and the lookup of a league may fail.  The *)
(* full figures and My Events then look events up, and any of these        *)
(* lookups may fail, which only that event should show.                    *)
(*                                                                         *)
(* HistoryFeed is where the feeds come from.  Requests share them, and     *)
(* nothing else.  Names, points, factions and team names are left out.     *)
(***************************************************************************)
EXTENDS Integers, SequencesExt

CONSTANTS
  Events,
  About,        \* event -> [team, start, periods], its listing at BCP
  Leagues,
  Flagship,     \* those with gw_itc that are not for hobbyists
  Places,
  None,         \* no placing or date, or one that cannot be read
  MaxRows,      \* bound on the placing feed
  MaxRegistered,
  Views         \* which pages are open together

ASSUME FlagshipAssumption == Flagship \subseteq Leagues
ASSUME PlacesAssumption == Places \subseteq Nat \ {0} /\ None \notin Places

\* periods: whole spans of 24 hours from start to end.
ASSUME AboutAssumption ==
  \A e \in Events :
    /\ About[e].team \in BOOLEAN
    /\ About[e].start \in Nat \cup {None} /\ About[e].periods \in Nat \cup {None}

VARIABLES
  feed,         \* what FetchPlacingHistory returns
  registered,   \* what FetchPlayerEventHistory returns
  page          \* what each page that is open has got to

pageVars == <<feed, registered, page>>

----------------------------------------------------------------------------
(* The feeds *)

Row == [event : Events, league : Leagues, placing : Places \cup {None}]
Registration == [event : Events, dropped : BOOLEAN]

Start(h) == About[h.event].start

\* Most recent first, and unreadable dates last.
MoreRecent(g, h) == Start(g) # None /\ (Start(h) = None \/ Start(g) > Start(h))
Sorted(rows) == \A i, j \in DOMAIN rows : i < j => ~MoreRecent(rows[j], rows[i])

Feeds == {rows \in BoundedSeq(Row, MaxRows) : Sorted(rows)}

\* A record each time BCP sends one: of an event there may be several, dropped
\* or not, and no one drops the repeated.
Registrations == BoundedSeq(Registration, MaxRegistered)

PagesInit ==
  /\ feed \in Feeds
  /\ \E view \in Views :
       /\ page = [p \in view |-> [pc |-> "asked"]]
       /\ registered \in IF "events" \in view THEN Registrations ELSE {<<>>}

----------------------------------------------------------------------------
(* One row per event: canonicalPlacingPerEvent *)

NoGroups == [order |-> <<>>, of |-> [e \in {} |-> e]]

\* Row h joins the group of its event.  answered: the leagues that could be
\* looked up.
Grouped(groups, h, answered) ==
  LET known == h.event \in DOMAIN groups.of
      g == IF known THEN groups.of[h.event] ELSE [fallback |-> h, flagship |-> {}]
      wins == g.flagship = {} /\ h.league \in Flagship \cap answered
      joined == IF wins THEN [fallback |-> g.fallback, flagship |-> {h}] ELSE g
  IN [order |-> IF known THEN groups.order ELSE Append(groups.order, h.event),
      of |-> [e \in DOMAIN groups.of \cup {h.event} |->
                IF e = h.event THEN joined ELSE groups.of[e]]]

\* The groups after so many rows of the feed.
Groups(answered) ==
  LET after[n \in 0..Len(feed)] ==
        IF n = 0 THEN NoGroups ELSE Grouped(after[n - 1], feed[n], answered)
  IN after

Winner(g) == IF g.flagship = {} THEN g.fallback ELSE CHOOSE h \in g.flagship : TRUE

Canonical(answered) ==
  LET groups == Groups(answered)[Len(feed)]
  IN [k \in DOMAIN groups.order |-> Winner(groups.of[groups.order[k]])]

----------------------------------------------------------------------------
(* The figures: computePlayerStats *)

\* Fault: what could not be looked up is taken for no team event.
Guessed(e, infos) == TRUE

Resolved(e, infos) == e \in infos

\* A team event whatever its dates, else by its span.
Category(e, infos) ==
  IF e \in infos /\ About[e].team THEN "team"
  ELSE IF About[e].start = None THEN None
  ELSE IF About[e].periods = None \/ About[e].periods + 1 < 2 THEN "rtt"
  ELSE "gt"

\* Only a better placing replaces one, and a missing one does not count.  The
\* field is the event's, if that could be looked up.
KeepBest(best, h, infos) ==
  IF h.placing # None /\ \A b \in best : h.placing < b.placing
  THEN {[placing |-> h.placing, field |-> {h.event} \cap infos]}
  ELSE best

\* A step of the loop, which weighs the rows at positions K alone.
Weighed(best, rows, n, K, infos) == IF n \in K THEN KeepBest(best, rows[n], infos) ELSE best

\* The best after so many steps.
BestOf(rows, K, infos) ==
  LET after[n \in 0..Len(rows)] ==
        IF n = 0 THEN {} ELSE Weighed(after[n - 1], rows, n, K, infos)
  IN after

Best(rows, K, infos) == BestOf(rows, K, infos)[Len(rows)]

InCategory(rows, infos, category) ==
  {k \in DOMAIN rows : Resolved(rows[k].event, infos) /\ Category(rows[k].event, infos) = category}

Split(rows, infos, detail) ==
  [category \in {"team", "gt", "rtt"} |->
     IF detail THEN Best(rows, InCategory(rows, infos, category), infos) ELSE {}]

\* Placed and dated, oldest first; of one day, in the order of the feed.
Trend(rows) ==
  LET Points == {k \in DOMAIN rows : rows[k].placing # None /\ Start(rows[k]) # None}
      Before(k, l) == \/ Start(rows[k]) < Start(rows[l])
                      \/ Start(rows[k]) = Start(rows[l]) /\ k < l
      order == SetToSortSeq(Points, Before)
  IN [n \in DOMAIN order |-> rows[order[n]]]

Dates(rows) == {Start(rows[k]) : k \in DOMAIN rows} \ {None}

Figures(rows, infos, detail) ==
  [total  |-> Len(rows),
   best   |-> Best(rows, DOMAIN rows, infos),
   split  |-> Split(rows, infos, detail),
   since  |-> {d \in Dates(rows) : \A f \in Dates(rows) : d <= f},
   recent |-> {rows[k].event : k \in DOMAIN rows \cap {1}},
   trend  |-> Trend(rows)]

----------------------------------------------------------------------------
(* The lists: classifyMyEvents *)

\* Fault: an event with a placing is looked up again.
NeverConcluded(e, rows) == FALSE

Concluded(e, rows) == \E k \in DOMAIN rows : rows[k].event = e

\* A step of a loop over s that appends the values at positions K.
Taken(picked, s, n, K) == IF n \in K THEN Append(picked, s[n]) ELSE picked

\* What it has taken after so many steps.
PickedOf(s, K) ==
  LET after[n \in 0..Len(s)] == IF n = 0 THEN <<>> ELSE Taken(after[n - 1], s, n, K)
  IN after

Picked(s, K) == PickedOf(s, K)[Len(s)]

EventsOf(s) == [k \in DOMAIN s |-> s[k].event]

\* The pending: the registrations whose events are looked up, each for itself.
Pending(rows) ==
  {k \in DOMAIN registered : ~registered[k].dropped /\ ~Concluded(registered[k].event, rows)}

\* over: it has ended, or should have long ago.
Phases == {"ahead", "running", "over"}

\* found: what the event of each pending registration was found to be, unless
\* that lookup failed.  In the order of the registrations.
InPhase(found, phase) == EventsOf(Picked(registered, {k \in DOMAIN found : found[k] = phase}))

Lists(rows, found) ==
  [past    |-> EventsOf(rows) \o InPhase(found, "over"),
   present |-> InPhase(found, "running"),
   future  |-> InPhase(found, "ahead")]

----------------------------------------------------------------------------
(* A page *)

Show(p, state) ==
  /\ page' = [page EXCEPT ![p] = state]
  /\ UNCHANGED <<feed, registered>>

\* Fault: the summary spares the lookups of the leagues too.
LookupsOfFull(p) == IF p = "summary" THEN {} ELSE Leagues

Lookups(p) == Leagues

\* lost is history: the leagues that could not be looked up.  Of a league that
\* is not the flagship the lookup may as well fail, and a row without a league
\* fares as one of those.  That a lookup fails and another of the same league
\* does not, within a request, is left out: both outcomes are remembered.
Collapse(p) ==
  /\ page[p].pc = "asked"
  /\ \E lost \in SUBSET Flagship :
       Show(p, [pc |-> "collapsed", rows |-> Canonical(Lookups(p) \ lost), lost |-> lost])

\* Either feed may fail, and the page with it.
Fail(p) == page[p].pc = "asked" /\ Show(p, [pc |-> "failed"])

\* Only the full figures look events up.
Summarise(p) ==
  /\ p = "summary" /\ page[p].pc = "collapsed"
  /\ Show(p, [pc |-> "figures", lost |-> page[p].lost, infos |-> {},
              shown |-> Figures(page[p].rows, {}, FALSE)])

Detail(p) ==
  /\ p = "full" /\ page[p].pc = "collapsed"
  /\ \E infos \in SUBSET {page[p].rows[k].event : k \in DOMAIN page[p].rows} :
       Show(p, [pc |-> "figures", lost |-> page[p].lost, infos |-> infos,
                shown |-> Figures(page[p].rows, infos, TRUE)])

Classify(p) ==
  /\ p = "events" /\ page[p].pc = "collapsed"
  /\ \E known \in SUBSET Pending(page[p].rows) : \E found \in [known -> Phases] :
       Show(p, [pc |-> "lists", known |-> known, shown |-> Lists(page[p].rows, found)])

PagesNext ==
  \E p \in DOMAIN page : Collapse(p) \/ Fail(p) \/ Summarise(p) \/ Detail(p) \/ Classify(p)

PagesSpec == PagesInit /\ [][PagesNext]_pageVars

----------------------------------------------------------------------------
(* Properties *)

With(pc) == {p \in DOMAIN page : page[p].pc = pc}

\* The rows that count, said without a loop: of each event the first row of
\* a flagship league that was looked up, or the first row if there is none.
First(i, S) == i \in S /\ \A j \in S : feed[j].event = feed[i].event => i <= j
Counting(lost) ==
  LET flagship == {i \in DOMAIN feed : feed[i].league \in Flagship \ lost}
      without == {i \in DOMAIN feed : \A j \in flagship : feed[j].event # feed[i].event}
  IN {i \in DOMAIN feed : First(i, flagship) \/ First(i, without)}

\* What is unknown stays unknown (computePlayerStats): each figure is that of
\* a row that counts, and the split leaves out what could not be looked up, and
\* nothing else.
KindOf(e) == Category(e, Events)
FiguresAreOfCountedRows ==
  \A p \in With("figures") :
    LET shown == page[p].shown
        rows == Counting(page[p].lost)
        placed == {i \in rows : feed[i].placing # None}
        known(kind) ==
          {i \in placed : feed[i].event \in page[p].infos /\ KindOf(feed[i].event) = kind}
        Least(best, S) ==
          {b.placing : b \in best}
            = {feed[i].placing : i \in {j \in S : \A l \in S : feed[j].placing <= feed[l].placing}}
    IN /\ Cardinality(rows) = shown.total
       /\ Least(shown.best, placed)
       /\ \A kind \in DOMAIN shown.split : Least(shown.split[kind], known(kind))

\* Home and /stats give the same player the same figures, wherever both give
\* one, unless a league's lookup failed (statsForBcpUser: two pages, two
\* answers, no way for a reader to know which is right).
SummaryAgrees ==
  {"summary", "full"} \subseteq With("figures")
    /\ page["summary"].lost = {} /\ page["full"].lost = {}
  => LET home == page["summary"].shown
         full == page["full"].shown
     IN /\ <<home.total, home.since, home.recent, home.trend>>
             = <<full.total, full.since, full.recent, full.trend>>
        /\ {b.placing : b \in home.best} = {b.placing : b \in full.best}

\* My Events lists an event with a placing once, however often it is signed up
\* for, and any other once for each of its registrations, the dropped ones and
\* those whose lookup failed apart (classifyMyEvents: an event is concluded by
\* one feed and pending by the other, and the feeds may be of different times).
Listings(lists, e) ==
  UNION {{<<part, k>> : k \in {i \in DOMAIN lists[part] : lists[part][i] = e}} : part \in DOMAIN lists}
Standing(p, e) == {k \in page[p].known : registered[k] = [event |-> e, dropped |-> FALSE]}
ListedByFeeds ==
  \A p \in With("lists"), e \in Events :
    Cardinality(Listings(page[p].shown, e)) = IF Concluded(e, feed) THEN 1 ELSE Cardinality(Standing(p, e))

=============================================================================
