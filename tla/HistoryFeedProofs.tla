-------------------------- MODULE HistoryFeedProofs --------------------------
(***************************************************************************)
(* Safety of HistoryFeed, for any number of requests, every length of the  *)
(* list and every cap, and all lifetimes that stand to each other as       *)
(* TimesAssumption says, and of PlayerStats, for every feed, list of       *)
(* registrations, event and league.  The loops over the feeds are          *)
(* recursive functions; what they compute is proved by induction, from the *)
(* fact that a set of numbers that is not empty has a least one.           *)
(***************************************************************************)
EXTENDS HistoryFeed, PlayerStats, FiniteSetTheorems, WellFoundedInduction, TLAPS

(* The inductive invariants *)

\* A crawl has read no more than there is, and its next page is within the cap.
PagingInv == \A c \in crawl : c.pc = "paging" => c.n < MaxPages /\ c.n =< Known

Seeding(r) == req[r].pc = "seeding"

\* The first n records are all that were listed more than b ago, as far as a
\* crawl may go.
Covers(n, b) == n < MaxPages => \A k \in DOMAIN listed : k > n => listed[k] =< b

\* Whatever holds a copy is as far behind as it is old, and one tick: the one
\* that the crawl or the write may have seen.
AgeInv ==
  /\ \A c \in entry \cup row : Covers(c.n, c.age + 1)
  /\ \A w \in writes : Covers(w.n, w.late)
  /\ \A c \in crawl : c.pc = "over" => \A n \in c.got : Covers(n, c.late)
  /\ \A r \in Requests : Seeding(r) => Covers(req[r].n, req[r].age + 1)
  /\ \A a \in answer : Covers(a.n, Lifetime)

\* A copy of n records has what any request is owed.
Reaches(n) == \A r \in Requests : n >= Capped(req[r].owed)

\* Whatever holds a copy has that, and nobody is owed what is not there.
OwedInv ==
  /\ \A r \in Requests : req[r].owed =< Known
  /\ \A c \in entry \cup row \cup writes : Reaches(c.n)
  /\ \A c \in crawl : c.pc = "over" => \A n \in c.got : Reaches(n)
  /\ \A r \in Requests : Seeding(r) => Reaches(req[r].n)

----------------------------------------------------------------------------
(* Operators *)

LEMMA Bounds ==
  /\ MaxPages \in Nat /\ MaxPages > 0 /\ MaxListed \in Nat
  /\ Lifetime \in Nat /\ MaxAge \in Nat /\ 1 < Lifetime /\ Lifetime < MaxAge
  BY BoundsAssumption, TimesAssumption

LEMMA CappedRange ==
  ASSUME NEW k \in Nat
  PROVE  Capped(k) \in Counts /\ Capped(k) =< k /\ Capped(k) =< MaxPages
  BY Bounds DEF Capped, Counts

LEMMA OlderRange ==
  ASSUME NEW a \in Ages
  PROVE  /\ Older(a) \in Ages /\ a =< Older(a) /\ Older(a) =< a + 1
         /\ Older(a) = a + 1 \/ Older(a) = MaxAge
  BY Bounds DEF Older, Ages

\* What the records of each kind hold.
LEMMA CrawlFields ==
  ASSUME NEW c \in Crawl
  PROVE  /\ c.pc \in {"paging", "over"} /\ c.late \in 0..1
         /\ c.pc = "paging" => c.n \in Counts
         /\ c.pc = "over" => c.got = {} \/ \E n \in Counts : c.got = {n}
  BY DEF Crawl

LEMMA RequestFields ==
  ASSUME NEW r \in Request
  PROVE  /\ r.pc \in {"idle", "deleting", "looking", "reading", "seeding", "getting", "waiting"}
         /\ r.owed \in 0..MaxListed
         /\ r.pc = "seeding" => r.n \in Counts /\ r.age \in Ages
  BY Bounds DEF Request

\* The list and how long it is.
LEMMA ListedType ==
  ASSUME TypeOK
  PROVE  /\ Known \in 0..MaxListed
         /\ listed \in [1..Known -> Ages]
         /\ \A k \in 1..Known : listed[k] \in Ages
<1>1. PICK k \in 0..MaxListed : listed \in [1..k -> Ages]
  BY DEF TypeOK
<1>2. k \in Nat /\ DOMAIN listed = 1..k
  BY <1>1, Bounds
<1>3. listed \in Seq(Ages)
  BY <1>1, <1>2
<1>4. Len(listed) = k
  BY <1>2, <1>3
<1> QED BY <1>1, <1>2, <1>4 DEF Known

\* Each state a request may come to is one.
LEMMA States ==
  ASSUME NEW owed \in 0..MaxListed
  PROVE  /\ Idle \in Request
         /\ [pc |-> "deleting", owed |-> 0] \in Request
         /\ \A pc \in {"looking", "reading", "getting", "waiting"} :
              [pc |-> pc, owed |-> owed] \in Request
         /\ \A n \in Counts, age \in Ages :
              [pc |-> "seeding", owed |-> owed, n |-> n, age |-> age] \in Request
  BY DEF Request, Idle

LEMMA FirstStates ==
  /\ Idle \in Request /\ Idle.pc = "idle" /\ Idle.owed = 0
  /\ [pc |-> "deleting", owed |-> 0] \in Request
  /\ [pc |-> "looking", owed |-> 0] \in Request
<1>1. 0 \in 0..MaxListed
  BY Bounds
<1> QED BY <1>1, States DEF Idle

\* One request moves to another of its states.
LEMMA BecomeType ==
  ASSUME TypeOK, NEW r \in Requests, NEW state \in Request, Become(r, state)
  PROVE  /\ req' \in [Requests -> Request]
         /\ req'[r] = state
         /\ \A q \in Requests \ {r} : req'[q] = req[q]
  BY DEF TypeOK, Become

\* A request goes on and is owed what it was.
LEMMA ContinueType ==
  ASSUME TypeOK, NEW r \in Requests,
         NEW pc \in {"looking", "reading", "getting", "waiting"}, Continue(r, pc)
  PROVE  /\ req' \in [Requests -> Request]
         /\ req'[r].pc = pc /\ req'[r].owed = req[r].owed
         /\ \A q \in Requests \ {r} : req'[q] = req[q]
<1>1. req[r].owed \in 0..MaxListed
  BY RequestFields DEF TypeOK
<1> DEFINE state == [pc |-> pc, owed |-> req[r].owed]
<1>2. state \in Request /\ state.pc = pc /\ state.owed = req[r].owed
  BY <1>1, States
<1>3. Become(r, state)
  BY DEF Continue
<1> HIDE DEF state
<1> QED BY <1>2, <1>3, BecomeType

\* A copy that ages is the copy it was.
LEMMA AgedCopies ==
  ASSUME NEW S \in AtMostOne(Copy)
  PROVE  /\ Aged(S) \in AtMostOne(Copy)
         /\ \A c \in Aged(S) : \E d \in S : c.n = d.n /\ c.age = Older(d.age)
<1>1. CASE S = {}
  BY <1>1 DEF Aged, AtMostOne
<1>2. CASE S # {}
  <2>1. PICK d \in Copy : S = {d}
    BY <1>2 DEF AtMostOne
  <2> DEFINE c == [d EXCEPT !.age = Older(d.age)]
  <2>2. Older(d.age) \in Ages
    BY OlderRange DEF Copy
  <2>3. c \in Copy /\ c.n = d.n /\ c.age = Older(d.age)
    BY <2>2 DEF Copy
  <2>4. Aged(S) = {c}
    BY <2>1 DEF Aged
  <2> HIDE DEF c
  <2> QED BY <2>1, <2>3, <2>4 DEF AtMostOne
<1> QED BY <1>1, <1>2

\* So is a pending crawl or write.
LEMMA LaterCrawl ==
  ASSUME NEW c \in Crawl
  PROVE  /\ [c EXCEPT !.late = 1] \in Crawl
         /\ [c EXCEPT !.late = 1].pc = c.pc /\ [c EXCEPT !.late = 1].late = 1
         /\ c.pc = "paging" => [c EXCEPT !.late = 1].n = c.n
         /\ c.pc = "over" => [c EXCEPT !.late = 1].got = c.got
<1>1. CASE c.pc = "paging"
  <2>1. c \in [pc : {"paging"}, n : Counts, late : 0..1]
    BY <1>1 DEF Crawl
  <2> QED BY <2>1 DEF Crawl
<1>2. CASE c.pc = "over"
  <2>1. c \in [pc : {"over"}, got : {{}} \cup {{k} : k \in Counts}, late : 0..1]
    BY <1>2 DEF Crawl
  <2> QED BY <2>1 DEF Crawl
<1> QED BY <1>1, <1>2, CrawlFields

LEMMA LaterWrite ==
  ASSUME NEW w \in Write
  PROVE  /\ [w EXCEPT !.late = 1] \in Write
         /\ [w EXCEPT !.late = 1].n = w.n /\ [w EXCEPT !.late = 1].late = 1
  BY DEF Write

\* A crawl that ends has read everything, or as far as it may, and its row is
\* to be written.
LEMMA FinishEffect ==
  ASSUME NEW c \in Crawl, NEW n \in Counts, Finish(c, n)
  PROVE  \E o \in Crawl, w \in Write :
           /\ crawl' = {o} /\ o.pc = "over" /\ o.got = {n} /\ o.late = c.late
           /\ writes' = writes \cup {w} /\ w.n = n /\ w.late = 0
<1> DEFINE o == [pc |-> "over", got |-> {n}, late |-> c.late]
           w == [n |-> n, late |-> 0]
<1>1. o \in Crawl /\ o.pc = "over" /\ o.got = {n} /\ o.late = c.late
  BY CrawlFields DEF Crawl
<1>2. w \in Write /\ w.n = n /\ w.late = 0
  BY DEF Write
<1>3. crawl' = {o} /\ writes' = writes \cup {w}
  BY DEF Finish
<1> HIDE DEF o, w
<1> QED BY <1>1, <1>2, <1>3

\* The states of a page that a crawl has read.
LEMMA PageEffect ==
  ASSUME TypeOK, PagingInv, Page
  PROVE  \/ \E c, d \in Crawl :
              /\ crawl = {c} /\ c.pc = "paging"
              /\ crawl' = {d} /\ d.pc = "paging" /\ d.n = c.n + 1
              /\ d.n < MaxPages /\ d.n =< Known /\ UNCHANGED writes
         \/ \E c \in Crawl, n \in Counts :
              /\ crawl = {c} /\ Finish(c, n)
              /\ n = MaxPages \/ n = Known
<1>1. PICK c \in crawl :
        /\ c.pc = "paging" /\ c.n < Known
        /\ \/ ~AtCap(c.n + 1) /\ crawl' = {[c EXCEPT !.n = c.n + 1]} /\ UNCHANGED writes
           \/ (AtCap(c.n + 1) \/ c.n + 1 = Known) /\ Finish(c, c.n + 1)
  BY DEF Page
<1>2. c \in Crawl /\ crawl = {c}
  BY <1>1 DEF TypeOK, AtMostOne
<1>3. c.n \in Nat /\ c.n < MaxPages /\ c \in [pc : {"paging"}, n : Counts, late : 0..1]
  BY <1>1, <1>2 DEF Crawl, Counts, PagingInv
<1>4. c.n + 1 \in Counts
  BY <1>3, Bounds DEF Counts
<1>5. CASE ~AtCap(c.n + 1) /\ crawl' = {[c EXCEPT !.n = c.n + 1]} /\ UNCHANGED writes
  <2> DEFINE d == [c EXCEPT !.n = c.n + 1]
  <2>1. d \in Crawl /\ d.pc = "paging" /\ d.n = c.n + 1
    BY <1>3, <1>4 DEF Crawl
  <2>2. c.n + 1 < MaxPages /\ c.n + 1 =< Known
    BY <1>1, <1>3, <1>5, Bounds, ListedType DEF AtCap
  <2>3. crawl' = {d}
    BY <1>5
  <2> HIDE DEF d
  <2> QED BY <1>1, <1>2, <1>5, <2>1, <2>2, <2>3
<1>6. CASE (AtCap(c.n + 1) \/ c.n + 1 = Known) /\ Finish(c, c.n + 1)
  BY <1>2, <1>4, <1>6 DEF AtCap
<1> QED BY <1>1, <1>5, <1>6

\* An empty page ends the crawl where the list does.
LEMMA EmptyPageEffect ==
  ASSUME TypeOK, EmptyPage
  PROVE  \E c \in Crawl : crawl = {c} /\ Known \in Counts /\ Finish(c, Known)
<1>1. PICK c \in crawl : c.pc = "paging" /\ c.n = Known /\ Finish(c, c.n)
  BY DEF EmptyPage
<1>2. c \in Crawl /\ crawl = {c}
  BY <1>1 DEF TypeOK, AtMostOne
<1> QED BY <1>1, <1>2, CrawlFields

----------------------------------------------------------------------------
(* Types *)

\* What Land answers is a list that came, to whoever waited.
LEMMA LandAnswers ==
  ASSUME TypeOK, NEW c \in Crawl, c.pc = "over",
         answer' = {[n |-> n, owed |-> req[r].owed] : n \in c.got, r \in Waiting}
  PROVE  answer' \subseteq [n : Counts, owed : 0..MaxListed]
<1>1. ASSUME NEW a \in answer' PROVE a \in [n : Counts, owed : 0..MaxListed]
  <2>1. PICK n \in c.got, r \in Waiting : a = [n |-> n, owed |-> req[r].owed]
    OBVIOUS
  <2>2. n \in Counts
    BY <2>1, CrawlFields
  <2>3. r \in Requests /\ req[r] \in Request
    BY <2>1 DEF Waiting, TypeOK
  <2>4. req[r].owed \in 0..MaxListed
    BY <2>3, RequestFields
  <2> QED BY <2>1, <2>2, <2>4
<1> QED BY <1>1

\* Every step keeps every variable's type and the crawl within the list.
LEMMA TypeStep == TypeOK /\ PagingInv /\ [Next]_vars => TypeOK' /\ PagingInv'
<1> SUFFICES ASSUME TypeOK, PagingInv, [Next]_vars PROVE TypeOK' /\ PagingInv'
  OBVIOUS
<1> USE DEF Silent, Memory
<1>t. /\ \A r \in Requests : req[r] \in Request /\ req[r].owed \in 0..MaxListed
      /\ Known \in 0..MaxListed
  BY RequestFields, ListedType DEF TypeOK
<1>1. ASSUME req' \in [Requests -> Request], answer' \subseteq [n : Counts, owed : 0..MaxListed],
             entry' \in AtMostOne(Copy), row' \in AtMostOne(Copy), marker' \in AtMostOne(Ages),
             UNCHANGED <<listed, crawl, writes>>
      PROVE  TypeOK' /\ PagingInv'
  BY <1>1 DEF TypeOK, PagingInv, Known
<1>2. {} \in AtMostOne(Copy) /\ {} \in AtMostOne(Ages) /\ {} \in AtMostOne(Crawl) /\ {0} \in AtMostOne(Ages)
  BY Bounds DEF AtMostOne, Ages
<1>3. ASSUME NEW r \in Requests, Begin(r) PROVE TypeOK' /\ PagingInv'
  <2>1. req' \in [Requests -> Request]
    BY <1>3, BecomeType, Bounds DEF Begin, Request
  <2> QED BY <1>1, <1>3, <2>1 DEF Begin, TypeOK
<1>4. ASSUME NEW r \in Requests, Refresh(r) PROVE TypeOK' /\ PagingInv'
  <2>1. req' \in [Requests -> Request]
    BY <1>4, BecomeType DEF Refresh, Request
  <2> QED BY <1>1, <1>2, <1>4, <2>1 DEF Refresh, TypeOK
<1>5. ASSUME NEW r \in Requests, DeleteRow(r) PROVE TypeOK' /\ PagingInv'
  <2> DEFINE owed == IF NothingInTheWay THEN Known ELSE 0
  <2>1. owed \in 0..MaxListed /\ Become(r, [pc |-> "looking", owed |-> owed])
    BY <1>5, <1>t, Bounds DEF DeleteRow
  <2> HIDE DEF owed
  <2>2. req' \in [Requests -> Request]
    BY <2>1, BecomeType, States
  <2> QED BY <1>1, <1>2, <1>5, <2>2 DEF DeleteRow, RowDeleted, TypeOK
<1>6. ASSUME NEW r \in Requests, DeleteFails(r) PROVE TypeOK' /\ PagingInv'
  <2>1. req' \in [Requests -> Request]
    BY <1>6, ContinueType DEF DeleteFails
  <2> QED BY <1>1, <1>6, <2>1 DEF DeleteFails, TypeOK
<1>7. ASSUME NEW r \in Requests, Look(r) PROVE TypeOK' /\ PagingInv'
  <2>1. req' \in [Requests -> Request]
    BY <1>7, ContinueType DEF Look
  <2> QED BY <1>1, <1>7, <2>1 DEF Look, TypeOK
<1>8. ASSUME NEW r \in Requests, Read(r) PROVE TypeOK' /\ PagingInv'
  <2>1. ASSUME NEW c \in Readable,
               Become(r, [pc |-> "seeding", owed |-> req[r].owed, n |-> c.n, age |-> c.age])
        PROVE  req' \in [Requests -> Request]
    <3>1. c.n \in Counts /\ c.age \in Ages
      BY DEF Readable, TypeOK, AtMostOne, Copy
    <3> QED BY <2>1, <3>1, <1>t, BecomeType, States
  <2>2. req' \in [Requests -> Request]
    BY <1>8, <2>1, ContinueType DEF Read
  <2> QED BY <1>1, <1>8, <2>2 DEF Read, TypeOK
<1>9. ASSUME NEW r \in Requests, Seed(r) PROVE TypeOK' /\ PagingInv'
  <2>1. req' \in [Requests -> Request]
    BY <1>9, ContinueType DEF Seed
  <2>2. req[r].n \in Counts /\ req[r].age \in Ages
    BY <1>9, <1>t, RequestFields DEF Seed
  <2>3. entry' \in AtMostOne(Copy)
    BY <1>9, <2>2 DEF Seed, SeededAge, AtMostOne, Copy
  <2> QED BY <1>1, <1>2, <1>9, <2>1, <2>3 DEF Seed, TypeOK
<1>10. ASSUME NEW r \in Requests, GetFresh(r) PROVE TypeOK' /\ PagingInv'
  <2>1. req' \in [Requests -> Request]
    BY <1>10, BecomeType, States, <1>t DEF GetFresh
  <2>2. PICK e \in entry : answer' = {[n |-> e.n, owed |-> req[r].owed]}
    BY <1>10 DEF GetFresh, Fresh
  <2>3. e.n \in Counts
    BY DEF TypeOK, AtMostOne, Copy
  <2>4. answer' \subseteq [n : Counts, owed : 0..MaxListed]
    BY <1>t, <2>2, <2>3
  <2> QED BY <1>1, <1>10, <2>1, <2>4 DEF GetFresh, TypeOK
<1>11. ASSUME NEW r \in Requests, GetMarked(r) PROVE TypeOK' /\ PagingInv'
  <2>1. req' \in [Requests -> Request]
    BY <1>11, BecomeType, States, <1>t DEF GetMarked
  <2> QED BY <1>1, <1>11, <2>1 DEF GetMarked, TypeOK
<1>12. ASSUME NEW r \in Requests, GetFetch(r) PROVE TypeOK' /\ PagingInv'
  <2>1. req' \in [Requests -> Request]
    BY <1>12, ContinueType DEF GetFetch
  <2> DEFINE first == [pc |-> "paging", n |-> 0, late |-> 0]
  <2>2. first \in Crawl /\ first.n = 0
    BY Bounds DEF Crawl, Counts
  <2>3. crawl' = IF crawl = {} THEN {first} ELSE crawl
    BY <1>12 DEF GetFetch
  <2> HIDE DEF first
  <2>4. crawl' \in AtMostOne(Crawl) /\ PagingInv'
    <3>1. UNCHANGED listed
      BY <1>12 DEF GetFetch
    <3> QED BY <1>t, <2>2, <2>3, <3>1, Bounds DEF AtMostOne, TypeOK, PagingInv, Known
  <2> QED BY <1>12, <2>1, <2>4 DEF GetFetch, TypeOK
<1>13. ASSUME NEW c \in Crawl, NEW n \in Counts, Finish(c, n), answer' = {},
              UNCHANGED <<listed, entry, marker, row, req>>
       PROVE  TypeOK' /\ PagingInv'
  <2>1. PICK o \in Crawl, w \in Write :
           /\ crawl' = {o} /\ o.pc = "over" /\ o.got = {n} /\ o.late = c.late
           /\ writes' = writes \cup {w} /\ w.n = n /\ w.late = 0
    BY <1>13, FinishEffect
  <2> QED BY <1>13, <2>1 DEF TypeOK, PagingInv, AtMostOne
<1>14. CASE Page
  <2>1. answer' = {} /\ UNCHANGED <<listed, entry, marker, row, req>>
    BY <1>14 DEF Page
  <2>2. ASSUME NEW d \in Crawl, crawl' = {d}, d.n < MaxPages, d.n =< Known, UNCHANGED writes
        PROVE  TypeOK' /\ PagingInv'
    BY <2>1, <2>2 DEF TypeOK, PagingInv, AtMostOne, Known
  <2> QED BY <1>13, <1>14, <2>1, <2>2, PageEffect
<1>15. CASE EmptyPage
  <2>1. answer' = {} /\ UNCHANGED <<listed, entry, marker, row, req>>
    BY <1>15 DEF EmptyPage
  <2> QED BY <1>13, <1>15, <2>1, EmptyPageEffect
<1>16. CASE PageFails
  <2>1. PICK c \in crawl : crawl' = {[pc |-> "over", got |-> {}, late |-> c.late]}
    BY <1>16 DEF PageFails
  <2>2. c.late \in 0..1
    BY CrawlFields DEF TypeOK, AtMostOne
  <2>3. [pc |-> "over", got |-> {}, late |-> c.late] \in Crawl
    BY <2>2 DEF Crawl
  <2>4. crawl' \in AtMostOne(Crawl) /\ PagingInv'
    BY <2>1, <2>3 DEF AtMostOne, PagingInv
  <2> QED BY <1>16, <2>4 DEF PageFails, TypeOK
<1>17. CASE Land
  <2>1. PICK c \in crawl :
           /\ c.pc = "over"
           /\ IF c.got = {} THEN marker' = {0} /\ UNCHANGED entry
              ELSE marker' = {} /\ entry' = {[n |-> n, age |-> 0] : n \in c.got}
           /\ answer' = {[n |-> n, owed |-> req[r].owed] : n \in c.got, r \in Waiting}
    BY <1>17 DEF Land
  <2>2. c \in Crawl
    BY DEF TypeOK, AtMostOne
  <2>3. answer' \subseteq [n : Counts, owed : 0..MaxListed]
    BY <2>1, <2>2, LandAnswers
  <2>4. marker' \in AtMostOne(Ages) /\ entry' \in AtMostOne(Copy)
    <3>1. CASE c.got = {}
      BY <1>2, <2>1, <3>1 DEF TypeOK
    <3>2. CASE c.got # {}
      <4>1. PICK n \in Counts : c.got = {n}
        BY <2>1, <2>2, <3>2, CrawlFields
      <4>2. entry' = {[n |-> n, age |-> 0]}
        BY <2>1, <4>1
      <4>3. [n |-> n, age |-> 0] \in Copy
        BY Bounds DEF Copy, Ages
      <4> QED BY <1>2, <2>1, <3>2, <4>2, <4>3 DEF AtMostOne
    <3> QED BY <3>1, <3>2
  <2>5. req' \in [Requests -> Request]
    <3>1. req' = [r \in Requests |-> IF r \in Waiting THEN Idle ELSE req[r]]
      BY <1>17 DEF Land
    <3>2. Idle \in Request
      BY FirstStates
    <3> QED BY <1>t, <3>1, <3>2
  <2>6. crawl' = {} /\ UNCHANGED <<listed, row, writes>>
    BY <1>17 DEF Land
  <2> QED BY <1>2, <2>3, <2>4, <2>5, <2>6 DEF TypeOK, PagingInv
<1>18. CASE WriteLands
  <2>1. PICK w \in writes : row' = {[n |-> w.n, age |-> 0]} /\ writes' = writes \ {w}
    BY <1>18 DEF WriteLands
  <2>2. [n |-> w.n, age |-> 0] \in Copy
    BY Bounds DEF TypeOK, Write, Copy, Ages
  <2>3. row' \in AtMostOne(Copy)
    BY <2>1, <2>2 DEF AtMostOne
  <2> QED BY <1>18, <2>1, <2>3 DEF WriteLands, TypeOK, PagingInv, Known
<1>19. CASE WriteFails
  BY <1>19 DEF WriteFails, TypeOK, PagingInv, Known
<1>20. CASE SignUp
  <2>1. listed \in Seq(Ages) /\ Known + 1 \in 0..MaxListed
    BY <1>t, <1>20, ListedType, Bounds DEF SignUp, Known
  <2>2. listed' \in Seq(Ages) /\ Len(listed') = Known + 1
    BY <1>20, <2>1, Bounds DEF SignUp, Known, Ages
  <2>3. listed' \in [1..(Known + 1) -> Ages]
    BY <2>2
  <2>4. PagingInv'
    BY <1>20, <1>t, <2>2, CrawlFields, Bounds DEF SignUp, PagingInv, Known, TypeOK, AtMostOne, Counts
  <2> QED BY <1>20, <2>1, <2>3, <2>4 DEF SignUp, TypeOK
<1>21. CASE Evict
  BY <1>1, <1>2, <1>21 DEF Evict, TypeOK
<1>22. CASE Tick
  <2>1. Known' = Known /\ listed' \in [1..Known -> Ages]
    <3>1. DOMAIN listed = 1..Known
      BY ListedType
    <3>2. listed' = [k \in 1..Known |-> Older(listed[k])]
      BY <1>22, <3>1 DEF Tick
    <3>3. listed' \in [1..Known -> Ages]
      BY <3>2, ListedType, OlderRange
    <3>4. Len(listed') = Known
      BY <1>t, <3>3, Bounds
    <3> QED BY <3>3, <3>4 DEF Known
  <2>2. entry' \in AtMostOne(Copy) /\ row' \in AtMostOne(Copy)
    BY <1>22, AgedCopies DEF Tick, TypeOK
  <2>3. marker' \in AtMostOne(Ages)
    <3>1. CASE marker = {}
      BY <1>2, <1>22, <3>1 DEF Tick
    <3>2. CASE marker # {}
      <4>1. PICK a \in Ages : marker = {a}
        BY <3>2 DEF TypeOK, AtMostOne
      <4>2. marker' = {Older(a)}
        BY <1>22, <4>1 DEF Tick
      <4> QED BY <4>2, OlderRange DEF AtMostOne
    <3> QED BY <3>1, <3>2
  <2>4. crawl' \in AtMostOne(Crawl) /\ PagingInv'
    <3>1. CASE crawl = {}
      <4>1. crawl' = {}
        BY <1>22, <3>1 DEF Tick, Later
      <4> QED BY <1>2, <4>1 DEF PagingInv
    <3>2. CASE crawl # {}
      <4>1. PICK c \in Crawl : crawl = {c}
        BY <3>2 DEF TypeOK, AtMostOne
      <4> DEFINE d == [c EXCEPT !.late = 1]
      <4>2. crawl' = {d}
        BY <1>22, <4>1 DEF Tick, Later
      <4>3. d \in Crawl /\ d.pc = c.pc /\ (c.pc = "paging" => d.n = c.n)
        BY LaterCrawl
      <4> HIDE DEF d
      <4> QED BY <2>1, <4>1, <4>2, <4>3 DEF AtMostOne, PagingInv
    <3> QED BY <3>1, <3>2
  <2>5. writes' \subseteq Write
    BY <1>22, LaterWrite DEF Tick, Later, TypeOK
  <2>6. req' \in [Requests -> Request]
    <3>1. ASSUME NEW r \in Requests, req[r].pc = "seeding"
          PROVE  [req[r] EXCEPT !.age = Older(req[r].age)] \in Request
      <4>1. req[r] \in [pc : {"seeding"}, owed : 0..MaxListed, n : Counts, age : Ages]
        BY <1>t, <3>1 DEF Request
      <4>2. Older(req[r].age) \in Ages
        BY <4>1, OlderRange
      <4> QED BY <4>1, <4>2 DEF Request
    <3> QED BY <1>22, <1>t, <3>1 DEF Tick
  <2> QED BY <1>22, <1>t, <2>1, <2>2, <2>3, <2>4, <2>5, <2>6 DEF Tick, TypeOK
<1>23. CASE Restart
  <2>1. req' \in [Requests -> Request]
    BY <1>23, <1>t, States, Bounds DEF Restart
  <2> QED BY <1>2, <1>23, <2>1 DEF Restart, TypeOK, PagingInv
<1>24. CASE UNCHANGED vars
  BY <1>24 DEF vars, TypeOK, PagingInv, Known
<1> QED BY <1>3, <1>4, <1>5, <1>6, <1>7, <1>8, <1>9, <1>10, <1>11, <1>12, <1>14, <1>15, <1>16,
          <1>17, <1>18, <1>19, <1>20, <1>21, <1>22, <1>23, <1>24 DEF Next, Step, CrawlStep

LEMMA InitType == Init => TypeOK /\ PagingInv
<1> SUFFICES ASSUME Init PROVE TypeOK /\ PagingInv
  OBVIOUS
<1>1. PICK n \in 0..MaxListed : listed = [k \in 1..n |-> MaxAge]
  BY DEF Init
<1>2. listed \in [1..n -> Ages]
  BY <1>1, Bounds DEF Ages
<1>3. req \in [Requests -> Request]
  BY States, Bounds DEF Init
<1> QED BY <1>1, <1>2, <1>3 DEF Init, TypeOK, PagingInv, AtMostOne

LEMMA Typed == Spec => [](TypeOK /\ PagingInv)
  BY InitType, TypeStep, PTL DEF Spec

\* Every variable keeps its type: no crawl goes beyond maxHistoryPages, nor
\* does a list that is held or answered.
THEOREM TypeCorrect == Spec => []TypeOK
  BY Typed, PTL

----------------------------------------------------------------------------
(* The age of what is held *)

\* Where the list stays and nothing new is held, what is held stays true.
LEMMA AgeQuiet ==
  ASSUME AgeInv, UNCHANGED listed, answer' = {},
         entry' \subseteq entry, row' \subseteq row, writes' \subseteq writes,
         \A c \in crawl' : c \in crawl \/ c.pc = "paging" \/ c.got = {},
         \A r \in Requests : req'[r] = req[r] \/ req'[r].pc # "seeding"
  PROVE  AgeInv'
<1>1. \A n, b : Covers(n, b)' <=> Covers(n, b)
  BY DEF Covers
<1> QED BY <1>1 DEF AgeInv, Seeding

\* What a crawl ends with is all there is, or all it may read.
LEMMA FinishCovers ==
  ASSUME TypeOK, NEW n \in Counts, n = MaxPages \/ n = Known, NEW b \in Nat
  PROVE  Covers(n, b)
<1>1. DOMAIN listed = 1..Known /\ Known \in Nat
  BY ListedType, Bounds
<1> QED BY <1>1 DEF Covers, Counts

\* A bound may be relaxed.
LEMMA CoversMore ==
  ASSUME TypeOK, NEW n, NEW b \in Int, NEW d \in Int, b =< d, Covers(n, b)
  PROVE  Covers(n, d)
<1>1. \A k \in DOMAIN listed : listed[k] \in Int
  BY ListedType, Bounds DEF Ages
<1> QED BY <1>1 DEF Covers

\* The list ages by a tick, and so does what is known of it, but never beyond
\* the oldest age there is.
LEMMA CoversAged ==
  ASSUME TypeOK, NEW n, NEW b \in Int, NEW d \in Int, Covers(n, b),
         d >= b + 1 \/ d >= MaxAge,
         listed' = [k \in DOMAIN listed |-> Older(listed[k])]
  PROVE  Covers(n, d)'
<1>1. \A k \in DOMAIN listed : listed[k] \in Ages /\ listed'[k] = Older(listed[k])
  BY ListedType
<1>2. ASSUME NEW k \in DOMAIN listed, listed[k] =< b PROVE listed'[k] =< d
  <2>1. Older(listed[k]) =< listed[k] + 1 /\ Older(listed[k]) =< MaxAge
    BY <1>1, OlderRange, Bounds DEF Ages
  <2>2. listed[k] \in Int /\ Older(listed[k]) \in Int
    BY <1>1, OlderRange, Bounds DEF Ages
  <2> QED BY <1>1, <1>2, <2>1, <2>2, Bounds
<1>3. DOMAIN listed' = DOMAIN listed
  OBVIOUS
<1> QED BY <1>2, <1>3 DEF Covers

\* A copy of this age, one tick on.
LEMMA CopyAged ==
  ASSUME TypeOK, NEW n, NEW a \in Ages, Covers(n, a + 1),
         listed' = [k \in DOMAIN listed |-> Older(listed[k])]
  PROVE  Covers(n, Older(a) + 1)'
<1>1. a \in Int /\ Older(a) \in Int /\ (Older(a) = a + 1 \/ Older(a) = MaxAge)
  BY OlderRange, Bounds DEF Ages
<1> DEFINE b == a + 1
           d == Older(a) + 1
<1>2. b \in Int /\ d \in Int /\ (d >= b + 1 \/ d >= MaxAge)
  BY <1>1, Bounds
<1>3. Covers(n, b)
  OBVIOUS
<1> HIDE DEF b, d
<1>4. Covers(n, d)'
  BY <1>2, <1>3, CoversAged
<1> QED BY <1>4 DEF d, Covers

\* A record that is new is in no copy, and nobody misses it yet.
LEMMA CoversSignUp ==
  ASSUME TypeOK, NEW n, NEW b \in Nat, Covers(n, b), SignUp
  PROVE  Covers(n, b)'
<1>1. listed \in Seq(Ages) /\ Known \in Nat /\ DOMAIN listed = 1..Known
  BY ListedType, Bounds DEF Known
<1>2. /\ DOMAIN listed' = 1..(Known + 1)
      /\ listed'[Known + 1] = 0
      /\ \A k \in 1..Known : listed'[k] = listed[k]
  BY <1>1 DEF SignUp, Known
<1> QED BY <1>1, <1>2 DEF Covers

\* Every step keeps each copy as far behind as it is old.
LEMMA AgeStep == TypeOK /\ PagingInv /\ AgeInv /\ [Next]_vars => AgeInv'
<1> SUFFICES ASSUME TypeOK, PagingInv, AgeInv, [Next]_vars PROVE AgeInv'
  OBVIOUS
<1> USE DEF Silent, Memory
<1>t. /\ \A r \in Requests : req[r] \in Request
      /\ entry \subseteq Copy /\ row \subseteq Copy /\ crawl \subseteq Crawl
  BY DEF TypeOK, AtMostOne
<1>1. ASSUME NEW r \in Requests, NEW state \in Request, Become(r, state), state.pc # "seeding",
             UNCHANGED listed, answer' = {}, entry' \subseteq entry, row' \subseteq row,
             UNCHANGED <<crawl, writes>>
      PROVE  AgeInv'
  <2>1. req'[r] = state /\ \A q \in Requests \ {r} : req'[q] = req[q]
    BY <1>1, BecomeType
  <2> QED BY <1>1, <2>1, AgeQuiet
<1>2. ASSUME NEW r \in Requests, NEW pc \in {"looking", "reading", "getting", "waiting"},
             Continue(r, pc), UNCHANGED listed, answer' = {}, entry' \subseteq entry,
             row' \subseteq row, writes' \subseteq writes,
             \A c \in crawl' : c \in crawl \/ c.pc = "paging" \/ c.got = {}
      PROVE  AgeInv'
  <2>1. req'[r].pc = pc /\ \A q \in Requests \ {r} : req'[q] = req[q]
    BY <1>2, ContinueType
  <2> QED BY <1>2, <2>1, AgeQuiet
<1>3. ASSUME NEW r \in Requests, Begin(r) PROVE AgeInv'
  <2>1. [pc |-> "looking", owed |-> 0] \in Request
    BY FirstStates
  <2> QED BY <1>1, <1>3, <2>1 DEF Begin
<1>4. ASSUME NEW r \in Requests, Refresh(r) PROVE AgeInv'
  <2>1. [pc |-> "deleting", owed |-> 0] \in Request
    BY FirstStates
  <2> QED BY <1>1, <1>4, <2>1 DEF Refresh
<1>5. ASSUME NEW r \in Requests, DeleteRow(r) PROVE AgeInv'
  <2> DEFINE owed == IF NothingInTheWay THEN Known ELSE 0
  <2>1. owed \in 0..MaxListed /\ Become(r, [pc |-> "looking", owed |-> owed])
    BY <1>5, ListedType, Bounds DEF DeleteRow
  <2> HIDE DEF owed
  <2>2. [pc |-> "looking", owed |-> owed] \in Request
    BY <2>1, States
  <2> QED BY <1>1, <1>5, <2>1, <2>2 DEF DeleteRow, RowDeleted
<1>6. ASSUME NEW r \in Requests, DeleteFails(r) \/ Look(r) PROVE AgeInv'
  BY <1>2, <1>6 DEF DeleteFails, Look
<1>7. ASSUME NEW r \in Requests, Read(r) PROVE AgeInv'
  <2>1. UNCHANGED <<listed, entry, marker, crawl, row, writes>> /\ answer' = {}
    BY <1>7 DEF Read
  <2>2. CASE Continue(r, "getting")
    BY <1>2, <2>1, <2>2
  <2>3. ASSUME NEW c \in Readable,
               Become(r, [pc |-> "seeding", owed |-> req[r].owed, n |-> c.n, age |-> c.age])
        PROVE  AgeInv'
    <3>1. req'[r].n = c.n /\ req'[r].age = c.age /\ \A q \in Requests \ {r} : req'[q] = req[q]
      BY <1>t, <2>3 DEF Become, TypeOK
    <3>2. \A n, b : Covers(n, b)' <=> Covers(n, b)
      BY <2>1 DEF Covers
    <3>3. Covers(c.n, c.age + 1)
      BY DEF Readable, AgeInv
    <3>4. \A q \in Requests : Seeding(q)' => Covers(req'[q].n, req'[q].age + 1)
      BY <3>1, <3>3 DEF AgeInv, Seeding
    <3> QED BY <2>1, <3>2, <3>4 DEF AgeInv
  <2> QED BY <1>7, <2>2, <2>3 DEF Read
<1>8. ASSUME NEW r \in Requests, Seed(r) PROVE AgeInv'
  <2>1. req'[r].pc = "getting" /\ \A q \in Requests \ {r} : req'[q] = req[q]
    BY <1>8, ContinueType DEF Seed
  <2>2. Covers(req[r].n, req[r].age + 1)
    BY <1>8 DEF Seed, Seeding, AgeInv
  <2>3. \A n, b : Covers(n, b)' <=> Covers(n, b)
    BY <1>8 DEF Seed, Covers
  <2>4. \A c \in entry' : c.n = req[r].n /\ c.age = req[r].age
    BY <1>8 DEF Seed, SeededAge
  <2>5. UNCHANGED <<listed, crawl, row, writes>> /\ answer' = {}
    BY <1>8 DEF Seed
  <2> QED BY <2>1, <2>2, <2>3, <2>4, <2>5 DEF AgeInv, Seeding
<1>9. ASSUME NEW r \in Requests, GetFresh(r) PROVE AgeInv'
  <2>1. PICK e \in entry : e.age < Lifetime /\ answer' = {[n |-> e.n, owed |-> req[r].owed]}
    BY <1>9 DEF GetFresh, Fresh
  <2>2. Covers(e.n, Lifetime)
    <3>1. e.age \in Nat /\ Covers(e.n, e.age + 1)
      BY <1>t, Bounds DEF AgeInv, Copy, Ages
    <3> QED BY <2>1, <3>1, CoversMore, Bounds
  <2>3. UNCHANGED <<listed, entry, crawl, row, writes>>
    BY <1>9 DEF GetFresh
  <2>4. \A n, b : Covers(n, b)' <=> Covers(n, b)
    BY <2>3 DEF Covers
  <2>5. req'[r].pc # "seeding" /\ \A q \in Requests \ {r} : req'[q] = req[q]
    BY <1>9, BecomeType, FirstStates DEF GetFresh
  <2>6. \A a \in answer' : a.n = e.n
    BY <2>1
  <2> QED BY <2>2, <2>3, <2>4, <2>5, <2>6 DEF AgeInv, Seeding
<1>10. ASSUME NEW r \in Requests, GetMarked(r) PROVE AgeInv'
  <2>1. Idle \in Request /\ Idle.pc # "seeding"
    BY FirstStates
  <2> QED BY <1>1, <1>10, <2>1 DEF GetMarked
<1>11. ASSUME NEW r \in Requests, GetFetch(r) PROVE AgeInv'
  BY <1>2, <1>11 DEF GetFetch
<1>12. ASSUME NEW c \in Crawl, NEW n \in Counts, Finish(c, n), n = MaxPages \/ n = Known,
              answer' = {}, UNCHANGED <<listed, entry, marker, row, req>>
       PROVE  AgeInv'
  <2>1. PICK o \in Crawl, w \in Write :
           /\ crawl' = {o} /\ o.pc = "over" /\ o.got = {n} /\ o.late = c.late
           /\ writes' = writes \cup {w} /\ w.n = n /\ w.late = 0
    BY <1>12, FinishEffect
  <2>2. Covers(n, o.late) /\ Covers(n, w.late)
    BY <1>12, <2>1, FinishCovers, CrawlFields
  <2>3. \A m, b : Covers(m, b)' <=> Covers(m, b)
    BY <1>12 DEF Covers
  <2> QED BY <1>12, <2>1, <2>2, <2>3 DEF AgeInv, Seeding
<1>13. CASE Page
  <2>1. answer' = {} /\ UNCHANGED <<listed, entry, marker, row, req>>
    BY <1>13 DEF Page
  <2> QED BY <1>12, <1>13, <2>1, PageEffect, AgeQuiet
<1>14. CASE EmptyPage
  <2>1. answer' = {} /\ UNCHANGED <<listed, entry, marker, row, req>>
    BY <1>14 DEF EmptyPage
  <2> QED BY <1>12, <1>14, <2>1, EmptyPageEffect
<1>15. CASE PageFails
  BY <1>15, AgeQuiet DEF PageFails
<1>16. CASE Land
  <2>1. PICK c \in crawl :
           /\ c.pc = "over"
           /\ IF c.got = {} THEN marker' = {0} /\ UNCHANGED entry
              ELSE marker' = {} /\ entry' = {[n |-> n, age |-> 0] : n \in c.got}
           /\ answer' = {[n |-> n, owed |-> req[r].owed] : n \in c.got, r \in Waiting}
    BY <1>16 DEF Land
  <2>2. \A n \in c.got : Covers(n, 1) /\ Covers(n, Lifetime)
    <3>1. c.late \in Int /\ c.late =< 1 /\ \A n \in c.got : Covers(n, c.late)
      BY <1>t, <2>1, CrawlFields DEF AgeInv
    <3> QED BY <3>1, CoversMore, Bounds
  <2>3. \A e \in entry' : e \in entry \/ (e.n \in c.got /\ e.age = 0)
    BY <2>1
  <2>4. \A a \in answer' : a.n \in c.got
    BY <2>1
  <2>5. crawl' = {} /\ UNCHANGED <<listed, row, writes>>
    BY <1>16 DEF Land
  <2>6. \A r \in Requests : req'[r] = req[r] \/ req'[r].pc # "seeding"
    BY <1>16 DEF Land, Idle
  <2>7. \A m, b : Covers(m, b)' <=> Covers(m, b)
    BY <2>5 DEF Covers
  <2>8. \A e \in entry' : Covers(e.n, e.age + 1)
    BY <2>2, <2>3 DEF AgeInv
  <2>9. \A a \in answer' : Covers(a.n, Lifetime)
    BY <2>2, <2>4
  <2> QED BY <2>5, <2>6, <2>7, <2>8, <2>9 DEF AgeInv, Seeding
<1>17. CASE WriteLands
  <2>1. PICK w \in writes : row' = {[n |-> w.n, age |-> 0]} /\ writes' = writes \ {w}
    BY <1>17 DEF WriteLands
  <2>2. Covers(w.n, 1)
    <3>1. w.late \in Int /\ w.late =< 1 /\ Covers(w.n, w.late)
      BY DEF AgeInv, TypeOK, Write
    <3> QED BY <3>1, CoversMore
  <2>3. \A c \in row' : c.n = w.n /\ c.age + 1 = 1
    BY <2>1
  <2>4. UNCHANGED <<listed, entry, crawl, req>> /\ answer' = {}
    BY <1>17 DEF WriteLands
  <2>5. \A m, b : Covers(m, b)' <=> Covers(m, b)
    BY <2>4 DEF Covers
  <2> QED BY <2>1, <2>2, <2>3, <2>4, <2>5 DEF AgeInv, Seeding
<1>18. CASE WriteFails
  BY <1>18, AgeQuiet DEF WriteFails
<1>19. CASE SignUp
  <2>1. UNCHANGED <<entry, marker, crawl, row, writes, req>> /\ answer' = {}
    BY <1>19 DEF SignUp
  <2>2. /\ \A c \in entry \cup row : c.age + 1 \in Nat
        /\ \A w \in writes : w.late \in Nat
        /\ \A c \in crawl : c.late \in Nat
        /\ \A r \in Requests : Seeding(r) => req[r].age + 1 \in Nat
    BY <1>t, CrawlFields, RequestFields, Bounds DEF TypeOK, Copy, Ages, Write, Seeding
  <2>3. /\ \A c \in entry \cup row : Covers(c.n, c.age + 1)'
        /\ \A w \in writes : Covers(w.n, w.late)'
        /\ \A c \in crawl : c.pc = "over" => \A n \in c.got : Covers(n, c.late)'
    BY <1>19, <2>1, <2>2, CoversSignUp DEF AgeInv
  <2>4. \A r \in Requests : Seeding(r) => Covers(req[r].n, req[r].age + 1)'
    BY <1>19, <2>1, <2>2, CoversSignUp DEF AgeInv
  <2> QED BY <2>1, <2>3, <2>4 DEF AgeInv, Seeding
<1>20. CASE Evict
  BY <1>20, AgeQuiet DEF Evict
<1>21. CASE Tick
  <2>1. listed' = [k \in DOMAIN listed |-> Older(listed[k])]
    BY <1>21 DEF Tick
  <2>2. ASSUME NEW S \in {entry, row}, NEW d \in Aged(S) PROVE Covers(d.n, d.age + 1)'
    <3>1. S \in AtMostOne(Copy)
      BY DEF TypeOK
    <3>2. PICK c \in S : d.n = c.n /\ d.age = Older(c.age)
      BY <3>1, AgedCopies
    <3>3. c.age \in Ages /\ Covers(c.n, c.age + 1)
      BY <1>t DEF AgeInv, Copy
    <3>4. Covers(c.n, Older(c.age) + 1)'
      BY <2>1, <3>3, CopyAged
    <3> QED BY <3>2, <3>4
  <2>3. \A d \in entry' \cup row' : Covers(d.n, d.age + 1)'
    BY <1>21, <2>2 DEF Tick
  <2>4. ASSUME NEW d \in writes' PROVE Covers(d.n, d.late)'
    <3>1. PICK w \in writes : d = [w EXCEPT !.late = 1]
      BY <1>21 DEF Tick, Later
    <3>2. w \in Write /\ w.late = 0 /\ Covers(w.n, 0)
      BY <1>21 DEF Tick, TypeOK, AgeInv
    <3>3. d.n = w.n /\ d.late = 1
      BY <3>1, <3>2, LaterWrite
    <3>4. Covers(w.n, 1)'
      BY <2>1, <3>2, CoversAged
    <3> QED BY <3>3, <3>4
  <2>5. ASSUME NEW d \in crawl', d.pc = "over", NEW n \in d.got PROVE Covers(n, d.late)'
    <3>1. PICK c \in crawl : d = [c EXCEPT !.late = 1]
      BY <1>21 DEF Tick, Later
    <3>2. c \in Crawl /\ c.late = 0
      BY <1>21, <1>t DEF Tick
    <3>3. d.pc = c.pc /\ d.late = 1 /\ (c.pc = "over" => d.got = c.got)
      BY <3>1, <3>2, LaterCrawl
    <3>4. Covers(n, 0)
      BY <2>5, <3>2, <3>3 DEF AgeInv
    <3>5. Covers(n, 1)'
      BY <2>1, <3>4, CoversAged
    <3> QED BY <3>3, <3>5
  <2>6. ASSUME NEW r \in Requests, req'[r].pc = "seeding"
        PROVE  Covers(req[r].n, req[r].age + 1)'
    <3>1. req'[r] = IF req[r].pc = "seeding" THEN [req[r] EXCEPT !.age = Older(req[r].age)] ELSE req[r]
      BY <1>21 DEF Tick
    <3>2. req[r].pc = "seeding"
      BY <2>6, <3>1
    <3>3. req[r] \in [pc : {"seeding"}, owed : 0..MaxListed, n : Counts, age : Ages]
      BY <1>t, <3>2 DEF Request
    <3>4. PICK n \in Counts, age \in Ages : req[r].n = n /\ req[r].age = age
      BY <3>3
    <3>5. req'[r].n = n /\ req'[r].age = Older(age)
      BY <3>1, <3>2, <3>3, <3>4
    <3>6. Covers(n, age + 1)
      BY <3>2, <3>4 DEF AgeInv, Seeding
    <3>7. Covers(n, Older(age) + 1)'
      BY <2>1, <3>4, <3>6, CopyAged
    <3> QED BY <3>5, <3>7
  <2>7. answer' = {}
    BY <1>21 DEF Tick
  <2> QED BY <2>3, <2>4, <2>5, <2>6, <2>7 DEF AgeInv, Seeding
<1>22. CASE Restart
  <2>1. \A r \in Requests : req'[r].pc # "seeding"
    BY <1>22 DEF Restart, Idle
  <2> QED BY <1>22, <2>1, AgeQuiet DEF Restart
<1>23. CASE UNCHANGED vars
  BY <1>23 DEF vars, AgeInv, Covers, Seeding
<1> QED BY <1>3, <1>4, <1>5, <1>6, <1>7, <1>8, <1>9, <1>10, <1>11, <1>13, <1>14, <1>15, <1>16,
          <1>17, <1>18, <1>19, <1>20, <1>21, <1>22, <1>23 DEF Next, Step, CrawlStep

\* A copy that has all but the recent records has as many as there are others.
LEMMA CoversCounts ==
  ASSUME TypeOK, NEW n \in Counts, NEW b \in Int, Covers(n, b)
  PROVE  n >= Capped(Cardinality({k \in DOMAIN listed : listed[k] > b}))
<1> DEFINE seen == {k \in DOMAIN listed : listed[k] > b}
<1>1. DOMAIN listed = 1..Known /\ Known \in Nat /\ \A k \in 1..Known : listed[k] \in Int
  BY ListedType, Bounds DEF Ages
<1>2. n \in Nat /\ n =< MaxPages
  BY Bounds DEF Counts
<1>3. IsFiniteSet(seen)
  <2>1. IsFiniteSet(1..Known)
    BY <1>1, FS_Interval
  <2>2. seen \in SUBSET (1..Known)
    BY <1>1
  <2> HIDE DEF seen
  <2> QED BY <2>1, <2>2, FS_Subset
<1>4. CASE n < MaxPages
  <2>1. seen \in SUBSET (1..n)
    BY <1>1, <1>2, <1>4 DEF Covers
  <2> HIDE DEF seen
  <2>2. IsFiniteSet(1..n) /\ Cardinality(1..n) = n
    BY <1>2, FS_Interval
  <2>3. Cardinality(seen) =< n
    BY <2>1, <2>2, FS_Subset
  <2>4. Cardinality(seen) \in Nat
    BY <1>3, FS_CardinalityType
  <2>5. Capped(Cardinality(seen)) =< n
    BY <1>2, <2>3, <2>4, CappedRange, Bounds DEF Counts
  <2>6. Capped(Cardinality(seen)) \in Int
    BY <2>4, CappedRange, Bounds DEF Counts
  <2>7. n >= Capped(Cardinality(seen))
    BY <1>2, <2>5, <2>6
  <2> QED BY <2>7 DEF seen
<1>5. CASE ~(n < MaxPages)
  <2> HIDE DEF seen
  <2>1. Cardinality(seen) \in Nat
    BY <1>3, FS_CardinalityType
  <2>2. n >= Capped(Cardinality(seen))
    BY <1>2, <1>5, <2>1, CappedRange, Bounds DEF Counts
  <2> QED BY <2>2 DEF seen
<1> QED BY <1>4, <1>5

LEMMA AgeHolds == Spec => []AgeInv
<1>1. Init => AgeInv
  BY DEF Init, AgeInv, Seeding, Idle
<1> QED BY <1>1, Typed, AgeStep, PTL DEF Spec

\* A record that has been listed for longer than the lifetime is in every list
\* that is answered, through whatever entries, rows, processes and late writes
\* the list came.
THEOREM AlwaysSeenInTime == Spec => []SeenInTime
<1>1. TypeOK /\ AgeInv => SeenInTime
  <2> SUFFICES ASSUME TypeOK, AgeInv, NEW a \in answer
               PROVE  a.n >= Capped(Cardinality({k \in DOMAIN listed : listed[k] > Lifetime}))
    BY DEF SeenInTime
  <2>1. a.n \in Counts /\ Covers(a.n, Lifetime)
    BY DEF TypeOK, AgeInv
  <2> QED BY <2>1, CoversCounts, Bounds
<1> QED BY <1>1, Typed, AgeHolds, PTL

----------------------------------------------------------------------------
(* What a refresh is owed *)

\* More is owed of a longer list.
LEMMA CappedMonotone ==
  ASSUME NEW j \in Nat, NEW k \in Nat, j =< k
  PROVE  Capped(j) =< Capped(k)
  BY Bounds DEF Capped

\* All there is, or all a crawl may read, is enough for everyone.
LEMMA FinishReaches ==
  ASSUME TypeOK, OwedInv, NEW n \in Counts, n = MaxPages \/ n = Known
  PROVE  Reaches(n)
<1> SUFFICES ASSUME NEW r \in Requests PROVE n >= Capped(req[r].owed)
  BY DEF Reaches
<1>1. /\ req[r].owed \in Nat /\ Known \in Nat
      /\ req[r].owed =< Known /\ n \in Nat
  BY RequestFields, ListedType, Bounds DEF TypeOK, OwedInv, Counts
<1>2. Capped(req[r].owed) =< req[r].owed /\ Capped(req[r].owed) =< MaxPages
      /\ Capped(req[r].owed) \in Int
  BY <1>1, CappedRange, Bounds DEF Counts
<1> QED BY <1>1, <1>2, Bounds

LEMMA NothingOwed ==
  ASSUME NEW n \in Nat
  PROVE  n >= Capped(0)
  BY Bounds DEF Capped

\* Where nothing new is held and nobody is owed more, nothing is missing.
LEMMA OwedQuiet ==
  ASSUME TypeOK, OwedInv, Known' >= Known, Known' \in Nat,
         entry' \subseteq entry, row' \subseteq row, writes' \subseteq writes,
         \A c \in crawl' : c \in crawl \/ c.pc = "paging" \/ c.got = {},
         \A r \in Requests :
           /\ req'[r] = req[r] \/ req'[r].pc # "seeding"
           /\ req'[r].owed = req[r].owed \/ req'[r].owed = 0
  PROVE  OwedInv'
<1>1. \A r \in Requests : req[r].owed \in Nat
  BY RequestFields, Bounds DEF TypeOK
<1>2. \A n \in Nat : Reaches(n) => Reaches(n)'
  BY NothingOwed DEF Reaches
<1>3. /\ \A c \in entry \cup row \cup writes : c.n \in Nat
      /\ \A c \in crawl : c.pc = "over" => \A n \in c.got : n \in Nat
      /\ \A r \in Requests : Seeding(r) => req[r].n \in Nat
  <2>1. entry \subseteq Copy /\ row \subseteq Copy /\ writes \subseteq Write /\ crawl \subseteq Crawl
        /\ \A r \in Requests : req[r] \in Request
    BY DEF TypeOK, AtMostOne
  <2> QED BY <2>1, CrawlFields, RequestFields, Bounds DEF Copy, Write, Counts, Seeding
<1>4. \A r \in Requests : req'[r].owed =< Known'
  BY <1>1, ListedType, Bounds DEF OwedInv
<1>5. ASSUME NEW r \in Requests, Seeding(r)' PROVE Reaches(req[r].n)'
  <2>1. req'[r] = req[r] /\ Seeding(r)
    BY <1>5 DEF Seeding
  <2>2. PICK n \in Nat : req[r].n = n
    BY <2>1, <1>3
  <2>3. Reaches(n)'
    BY <1>2, <2>1, <2>2 DEF OwedInv
  <2> QED BY <2>1, <2>2, <2>3
<1> QED BY <1>2, <1>3, <1>4, <1>5 DEF OwedInv

\* Every step keeps each copy long enough for whoever it may be answered to.
LEMMA OwedStep == TypeOK /\ PagingInv /\ OwedInv /\ [Next]_vars => OwedInv'
<1> SUFFICES ASSUME TypeOK, PagingInv, OwedInv, [Next]_vars PROVE OwedInv'
  OBVIOUS
<1> USE DEF Memory
<1>t. /\ \A r \in Requests : req[r] \in Request
      /\ entry \subseteq Copy /\ row \subseteq Copy /\ crawl \subseteq Crawl
      /\ Known \in Nat
  BY ListedType, Bounds DEF TypeOK, AtMostOne
<1>1. ASSUME NEW r \in Requests, NEW state \in Request, Become(r, state), state.pc # "seeding",
             state.owed = 0, UNCHANGED listed, entry' \subseteq entry, row' \subseteq row,
             UNCHANGED <<crawl, writes>>
      PROVE  OwedInv'
  <2>1. req'[r] = state /\ \A q \in Requests \ {r} : req'[q] = req[q]
    BY <1>1, BecomeType
  <2>2. Known' = Known
    BY <1>1 DEF Known
  <2> QED BY <1>1, <1>t, <2>1, <2>2, OwedQuiet
<1>2. ASSUME NEW r \in Requests, NEW pc \in {"looking", "reading", "getting", "waiting"},
             Continue(r, pc), UNCHANGED listed, entry' \subseteq entry,
             row' \subseteq row, writes' \subseteq writes,
             \A c \in crawl' : c \in crawl \/ c.pc = "paging" \/ c.got = {}
      PROVE  OwedInv'
  <2>1. /\ req'[r].pc = pc /\ req'[r].owed = req[r].owed
        /\ \A q \in Requests \ {r} : req'[q] = req[q]
    BY <1>2, ContinueType
  <2>2. Known' = Known
    BY <1>2 DEF Known
  <2> QED BY <1>2, <1>t, <2>1, <2>2, OwedQuiet
<1>3. ASSUME NEW r \in Requests, Begin(r) PROVE OwedInv'
  BY <1>1, <1>3, FirstStates DEF Begin
<1>4. ASSUME NEW r \in Requests, Refresh(r) PROVE OwedInv'
  BY <1>1, <1>4, FirstStates DEF Refresh
<1>5. ASSUME NEW r \in Requests, DeleteRow(r) PROVE OwedInv'
  <2>1. CASE ~NothingInTheWay
    BY <1>1, <1>5, <2>1, FirstStates DEF DeleteRow, RowDeleted
  <2>2. CASE NothingInTheWay
    <3>1. Become(r, [pc |-> "looking", owed |-> Known]) /\ [pc |-> "looking", owed |-> Known] \in Request
      BY <1>5, <2>2, States, ListedType DEF DeleteRow
    <3>2. /\ req'[r].pc = "looking" /\ req'[r].owed = Known
          /\ \A q \in Requests \ {r} : req'[q] = req[q]
      BY <3>1, BecomeType
    <3>3. entry' = {} /\ crawl' = {} /\ writes' = {} /\ row' = {} /\ Known' = Known
      BY <1>5, <2>2 DEF DeleteRow, RowDeleted, NothingInTheWay, Known
    <3>4. \A q \in Requests : ~Seeding(q)'
      BY <2>2, <3>2 DEF NothingInTheWay, Seeding
    <3> QED BY <1>t, <3>2, <3>3, <3>4 DEF OwedInv
  <2> QED BY <2>1, <2>2
<1>6. ASSUME NEW r \in Requests, DeleteFails(r) \/ Look(r) PROVE OwedInv'
  BY <1>2, <1>6 DEF DeleteFails, Look
<1>7. ASSUME NEW r \in Requests, Read(r) PROVE OwedInv'
  <2>1. UNCHANGED <<listed, entry, marker, crawl, row, writes>> /\ Known' = Known
    BY <1>7 DEF Read, Known
  <2>2. CASE Continue(r, "getting")
    BY <1>2, <2>1, <2>2
  <2>3. ASSUME NEW c \in Readable,
               Become(r, [pc |-> "seeding", owed |-> req[r].owed, n |-> c.n, age |-> c.age])
        PROVE  OwedInv'
    <3>1. /\ req'[r].n = c.n /\ req'[r].owed = req[r].owed
          /\ \A q \in Requests \ {r} : req'[q] = req[q]
      BY <1>t, <2>3 DEF Become, TypeOK
    <3>2. \A q \in Requests : req'[q].owed = req[q].owed
      BY <3>1
    <3>3. \A n : Reaches(n)' <=> Reaches(n)
      BY <3>2 DEF Reaches
    <3>4. Reaches(c.n)
      BY DEF Readable, OwedInv
    <3>5. ASSUME NEW q \in Requests, Seeding(q)' PROVE Reaches(req[q].n)'
      <4>1. CASE q = r
        BY <3>1, <3>3, <3>4, <4>1
      <4>2. CASE q # r
        <5>1. req'[q] = req[q] /\ Seeding(q)
          BY <3>1, <3>5, <4>2 DEF Seeding
        <5> QED BY <3>3, <5>1 DEF OwedInv
      <4> QED BY <4>1, <4>2
    <3>6. \A q \in Requests : req'[q].owed =< Known'
      BY <2>1, <3>2 DEF OwedInv
    <3> QED BY <2>1, <3>3, <3>5, <3>6 DEF OwedInv
  <2> QED BY <1>7, <2>2, <2>3 DEF Read
<1>8. ASSUME NEW r \in Requests, Seed(r) PROVE OwedInv'
  <2>1. /\ req'[r].pc = "getting" /\ req'[r].owed = req[r].owed
        /\ \A q \in Requests \ {r} : req'[q] = req[q]
    BY <1>8, ContinueType DEF Seed
  <2>2. Reaches(req[r].n)
    BY <1>8 DEF Seed, Seeding, OwedInv
  <2>3. \A n : Reaches(n)' <=> Reaches(n)
    BY <2>1 DEF Reaches
  <2>4. \A c \in entry' : c.n = req[r].n
    BY <1>8 DEF Seed, SeededAge
  <2>5. UNCHANGED <<listed, crawl, row, writes>> /\ Known' = Known
    BY <1>8 DEF Seed, Known
  <2>6. ASSUME NEW q \in Requests, Seeding(q)' PROVE Reaches(req[q].n)'
    <3>1. req'[q] = req[q] /\ Seeding(q)
      BY <2>1, <2>6 DEF Seeding
    <3> QED BY <2>3, <3>1 DEF OwedInv
  <2>7. \A q \in Requests : req'[q].owed =< Known'
    BY <2>1, <2>5 DEF OwedInv
  <2>8. \A c \in entry' : Reaches(c.n)'
    BY <2>2, <2>3, <2>4
  <2> QED BY <2>3, <2>5, <2>6, <2>7, <2>8 DEF OwedInv
<1>9. ASSUME NEW r \in Requests, GetFresh(r) \/ GetMarked(r) PROVE OwedInv'
  BY <1>1, <1>9, FirstStates DEF GetFresh, GetMarked
<1>10. ASSUME NEW r \in Requests, GetFetch(r) PROVE OwedInv'
  BY <1>2, <1>10 DEF GetFetch
<1>11. ASSUME NEW c \in Crawl, NEW n \in Counts, Finish(c, n), n = MaxPages \/ n = Known,
              UNCHANGED <<listed, entry, marker, row, req>>
       PROVE  OwedInv'
  <2>1. PICK o \in Crawl, w \in Write :
           /\ crawl' = {o} /\ o.pc = "over" /\ o.got = {n} /\ o.late = c.late
           /\ writes' = writes \cup {w} /\ w.n = n /\ w.late = 0
    BY <1>11, FinishEffect
  <2>2. Reaches(n)
    BY <1>11, FinishReaches
  <2>3. (\A m : Reaches(m)' <=> Reaches(m)) /\ Known' = Known
    BY <1>11 DEF Reaches, Known
  <2> QED BY <1>11, <2>1, <2>2, <2>3 DEF OwedInv, Seeding
<1>12. CASE Page
  <2>1. UNCHANGED <<listed, entry, marker, row, req>> /\ Known' = Known
    BY <1>12 DEF Page, Known
  <2> QED BY <1>11, <1>12, <1>t, <2>1, PageEffect, OwedQuiet
<1>13. CASE EmptyPage
  <2>1. UNCHANGED <<listed, entry, marker, row, req>>
    BY <1>13 DEF EmptyPage
  <2> QED BY <1>11, <1>13, <2>1, EmptyPageEffect
<1>14. CASE PageFails
  <2>1. Known' = Known
    BY <1>14 DEF PageFails, Known
  <2> QED BY <1>14, <1>t, <2>1, OwedQuiet DEF PageFails
<1>15. CASE Land
  <2>1. PICK c \in crawl :
           /\ c.pc = "over"
           /\ IF c.got = {} THEN marker' = {0} /\ UNCHANGED entry
              ELSE marker' = {} /\ entry' = {[n |-> n, age |-> 0] : n \in c.got}
    BY <1>15 DEF Land
  <2>2. \A r \in Requests : req'[r] = req[r] \/ req'[r] = Idle
    BY <1>15 DEF Land
  <2>3. crawl' = {} /\ UNCHANGED <<listed, row, writes>> /\ Known' = Known
    BY <1>15 DEF Land, Known
  <2>4. \A n \in c.got : Reaches(n)
    BY <2>1 DEF OwedInv
  <2> DEFINE kept == entry' \cap entry
  <2>5. \A n \in Nat : Reaches(n) => Reaches(n)'
    BY <2>2, NothingOwed, FirstStates DEF Reaches
  <2>6. c.got \subseteq Nat /\ \A d \in entry \cup row \cup writes : d.n \in Nat
    BY <1>t, <2>1, CrawlFields, Bounds DEF Counts, Copy, TypeOK, Write
  <2>7. \A e \in entry' : e \in entry \/ e.n \in c.got
    BY <2>1
  <2>8. \A d \in entry' \cup row' \cup writes' : Reaches(d.n)'
    BY <2>3, <2>4, <2>5, <2>6, <2>7 DEF OwedInv
  <2>9. ASSUME NEW q \in Requests, Seeding(q)' PROVE Reaches(req[q].n)'
    <3>1. req'[q] = req[q] /\ Seeding(q)
      BY <2>2, <2>9, FirstStates DEF Seeding
    <3>2. PICK n \in Nat : req[q].n = n
      BY <1>t, <3>1, RequestFields, Bounds DEF Seeding, Counts
    <3>3. Reaches(n)'
      BY <2>5, <3>1, <3>2 DEF OwedInv
    <3> QED BY <3>1, <3>2, <3>3
  <2>10. \A q \in Requests : req'[q].owed =< Known'
    BY <1>t, <2>2, <2>3, FirstStates DEF OwedInv
  <2> QED BY <2>3, <2>8, <2>9, <2>10 DEF OwedInv
<1>16. CASE WriteLands
  <2>1. PICK w \in writes : row' = {[n |-> w.n, age |-> 0]} /\ writes' = writes \ {w}
    BY <1>16 DEF WriteLands
  <2>2. \A c \in row' : c.n = w.n
    BY <2>1
  <2>3. UNCHANGED <<entry, crawl, req>> /\ Known' = Known
    BY <1>16 DEF WriteLands, Known
  <2>4. \A m : Reaches(m)' <=> Reaches(m)
    BY <2>3 DEF Reaches
  <2> QED BY <2>1, <2>2, <2>3, <2>4 DEF OwedInv, Seeding
<1>17. CASE WriteFails
  <2>1. Known' = Known
    BY <1>17 DEF WriteFails, Known
  <2> QED BY <1>17, <1>t, <2>1, OwedQuiet DEF WriteFails
<1>18. CASE SignUp
  <2>1. Known' = Known + 1
    <3>1. listed \in Seq(Ages)
      BY ListedType, Bounds DEF Known
    <3> QED BY <1>18, <3>1 DEF SignUp, Known
  <2> QED BY <1>18, <1>t, <2>1, OwedQuiet DEF SignUp
<1>19. CASE Evict
  <2>1. Known' = Known
    BY <1>19 DEF Evict, Known
  <2> QED BY <1>19, <1>t, <2>1, OwedQuiet DEF Evict
<1>20. CASE Tick
  <2>1. Known' = Known
    <3>1. DOMAIN listed' = 1..Known
      BY <1>20, ListedType DEF Tick
    <3>2. listed' \in Seq({listed'[k] : k \in 1..Known})
      BY <1>20, <1>t, ListedType DEF Tick
    <3> QED BY <1>t, <3>1, <3>2 DEF Known
  <2>2. \A q \in Requests : /\ req'[q].owed = req[q].owed
                            /\ Seeding(q)' => Seeding(q) /\ req'[q].n = req[q].n
    <3> SUFFICES ASSUME NEW q \in Requests
                 PROVE  /\ req'[q].owed = req[q].owed
                        /\ Seeding(q)' => Seeding(q) /\ req'[q].n = req[q].n
      OBVIOUS
    <3>1. req'[q] = IF req[q].pc = "seeding" THEN [req[q] EXCEPT !.age = Older(req[q].age)] ELSE req[q]
      BY <1>20 DEF Tick
    <3>2. CASE req[q].pc = "seeding"
      <4>1. req[q] \in [pc : {"seeding"}, owed : 0..MaxListed, n : Counts, age : Ages]
        BY <1>t, <3>2 DEF Request
      <4> QED BY <3>1, <3>2, <4>1 DEF Seeding
    <3>3. CASE req[q].pc # "seeding"
      BY <3>1, <3>3 DEF Seeding
    <3> QED BY <3>2, <3>3
  <2>3. \A m : Reaches(m)' <=> Reaches(m)
    BY <2>2 DEF Reaches
  <2>4. \A d \in entry' \cup row' : \E c \in entry \cup row : d.n = c.n
    BY <1>20, AgedCopies DEF Tick, TypeOK
  <2>5. \A d \in writes' : \E w \in writes : d.n = w.n
    <3>1. \A w \in writes : [w EXCEPT !.late = 1].n = w.n
      BY LaterWrite DEF TypeOK
    <3> QED BY <1>20, <3>1 DEF Tick, Later
  <2>6. ASSUME NEW d \in crawl', d.pc = "over" PROVE \A n \in d.got : Reaches(n)'
    <3>1. PICK c \in crawl : d = [c EXCEPT !.late = 1]
      BY <1>20 DEF Tick, Later
    <3>2. c.pc = "over" /\ d.got = c.got
      BY <1>t, <2>6, <3>1, LaterCrawl, CrawlFields
    <3> QED BY <2>3, <3>2 DEF OwedInv
  <2>7. ASSUME NEW q \in Requests, Seeding(q)' PROVE Reaches(req[q].n)'
    BY <2>2, <2>3, <2>7 DEF OwedInv
  <2>8. \A q \in Requests : req'[q].owed =< Known'
    BY <2>1, <2>2 DEF OwedInv
  <2>9. \A d \in entry' \cup row' \cup writes' : Reaches(d.n)'
    BY <2>3, <2>4, <2>5 DEF OwedInv
  <2> QED BY <2>6, <2>7, <2>8, <2>9 DEF OwedInv
<1>21. CASE Restart
  <2>1. \A q \in Requests : req'[q] = Idle
    BY <1>21 DEF Restart
  <2>2. Known' = Known /\ entry' = {} /\ crawl' = {} /\ row' = row /\ writes' \subseteq writes
    BY <1>21 DEF Restart, Known
  <2> QED BY <1>t, <2>1, <2>2, FirstStates, OwedQuiet
<1>22. CASE UNCHANGED vars
  BY <1>22 DEF vars, OwedInv, Reaches, Known, Seeding
<1> QED BY <1>3, <1>4, <1>5, <1>6, <1>7, <1>8, <1>9, <1>10, <1>12, <1>13, <1>14, <1>15,
          <1>16, <1>17, <1>18, <1>19, <1>20, <1>21, <1>22 DEF Next, Step, CrawlStep

\* An answer is a copy that was held when it was given.
LEMMA CleanStep ==
  ASSUME TypeOK, OwedInv, CleanRefresh, [Next]_vars
  PROVE  CleanRefresh'
<1> USE DEF Silent, CleanRefresh
<1>1. ASSUME NEW r \in Requests, GetFresh(r) PROVE CleanRefresh'
  <2>1. PICK e \in entry : answer' = {[n |-> e.n, owed |-> req[r].owed]}
    BY <1>1 DEF GetFresh, Fresh
  <2>2. e.n >= Capped(req[r].owed)
    BY DEF OwedInv, Reaches
  <2> QED BY <2>1, <2>2
<1>2. CASE Land
  <2>1. PICK c \in crawl :
           /\ c.pc = "over"
           /\ answer' = {[n |-> n, owed |-> req[r].owed] : n \in c.got, r \in Waiting}
    BY <1>2 DEF Land
  <2>2. \A n \in c.got, r \in Waiting : n >= Capped(req[r].owed)
    BY <2>1 DEF OwedInv, Reaches, Waiting
  <2>3. \A a \in answer' : \E n \in c.got, r \in Waiting : a.n = n /\ a.owed = req[r].owed
    BY <2>1
  <2> QED BY <2>2, <2>3
<1>3. CASE answer' = {}
  BY <1>3
<1>4. CASE UNCHANGED vars
  BY <1>4 DEF vars
<1> QED BY <1>1, <1>2, <1>3, <1>4
     DEF Next, Step, CrawlStep, Begin, Refresh, DeleteRow, DeleteFails, Look, Read, Seed,
         GetMarked, GetFetch, Page, EmptyPage, PageFails, WriteLands, WriteFails, SignUp,
         Evict, Tick, Restart

\* A refresh that nothing older was in the way of is answered with what was
\* listed when it deleted the row, or more.
THEOREM RefreshClean == Spec => []CleanRefresh
<1>1. Init => OwedInv /\ CleanRefresh
  <2> SUFFICES ASSUME Init PROVE OwedInv /\ CleanRefresh
    OBVIOUS
  <2>1. TypeOK
    BY InitType
  <2>2. Known \in Nat
    BY <2>1, ListedType, Bounds
  <2> QED BY <2>2 DEF Init, OwedInv, CleanRefresh, Seeding, Idle
<1>2. TypeOK /\ OwedInv /\ CleanRefresh /\ [Next]_vars => CleanRefresh'
  BY CleanStep
<1> QED BY <1>1, <1>2, Typed, OwedStep, PTL DEF Spec

----------------------------------------------------------------------------
(* PlayerStats: loops *)

\* A set of numbers that is not empty has a least one.
LEMMA HasLeast ==
  ASSUME NEW T \in SUBSET Nat, T # {}
  PROVE  \E m \in T : \A n \in T : m =< n
<1> DEFINE R == OpToRel(<, Nat)
<1>1. IsWellFoundedOn(R, Nat)
  BY NatLessThanWellFounded
<1>2. \A x, y \in Nat : x < y => <<x, y>> \in R
  BY DEF OpToRel
<1> HIDE DEF R
<1>3. PICK m \in T : \A n \in T : ~ (<<n, m>> \in R)
  BY <1>1, WFMin
<1>4. \A n \in T : n \in Nat /\ ~(n < m)
  BY <1>2, <1>3
<1> QED BY <1>4

\* A set of numbers that has 0, and the next of each of its own up to N, has
\* all up to N.
LEMMA UpTo ==
  ASSUME NEW N \in Nat, NEW S, 0 \in S, \A n \in 0..N : n \in S /\ n < N => n + 1 \in S
  PROVE  0..N \subseteq S
<1> DEFINE T == (0..N) \ S
<1> SUFFICES ASSUME T # {} PROVE FALSE
  OBVIOUS
<1>1. PICK m \in T : \A n \in T : m =< n
  <2>1. T \in SUBSET Nat
    OBVIOUS
  <2> HIDE DEF T
  <2> QED BY <2>1, HasLeast
<1>2. m - 1 \in 0..N /\ m - 1 \in S
  BY <1>1
<1> QED BY <1>1, <1>2

\* Groups is what its equation says: at first there are none, and then each
\* row joins.
LEMMA GroupsAre ==
  ASSUME NEW answered, Len(feed) \in Nat
  PROVE  /\ Groups(answered)[0] = NoGroups
         /\ \A n \in 1..Len(feed) :
              Groups(answered)[n] = Grouped(Groups(answered)[n - 1], feed[n], answered)
<1> DEFINE Loop(f, m) ==
      f = [n \in 0..m |-> IF n = 0 THEN NoGroups ELSE Grouped(f[n - 1], feed[n], answered)]
           S == {m \in 0..Len(feed) : \E f : Loop(f, m)}
<1>1. 0 \in S
  <2> DEFINE f == [n \in 0..0 |-> NoGroups]
  <2>1. Loop(f, 0)
    OBVIOUS
  <2> HIDE DEF Loop, f
  <2> QED BY <2>1
<1>2. ASSUME NEW m \in 0..Len(feed), m \in S, m < Len(feed) PROVE m + 1 \in S
  <2>1. PICK f : Loop(f, m)
    BY <1>2
  <2> HIDE DEF S
  <2> DEFINE g == [n \in 0..m + 1 |-> IF n = m + 1 THEN Grouped(f[m], feed[m + 1], answered) ELSE f[n]]
             h == [n \in 0..m + 1 |-> IF n = 0 THEN NoGroups ELSE Grouped(g[n - 1], feed[n], answered)]
  <2>2. ASSUME NEW n \in 0..m + 1 PROVE g[n] = h[n]
    <3>1. CASE n = m + 1
      <4>1. g[m] = f[m] /\ m + 1 # 0 /\ (m + 1) - 1 = m
        OBVIOUS
      <4> QED BY <3>1, <4>1
    <3>2. CASE n = 0
      BY <2>1, <3>2
    <3>3. CASE n \in 1..m
      <4>1. f[n] = Grouped(f[n - 1], feed[n], answered)
        <5>1. n \in 0..m /\ n # 0
          BY <3>3
        <5> HIDE DEF g, h
        <5> QED BY <2>1, <5>1
      <4>2. g[n - 1] = f[n - 1] /\ g[n] = f[n]
        BY <3>3
      <4> QED BY <3>3, <4>1, <4>2
    <3> QED BY <3>1, <3>2, <3>3
  <2>3. g = h
    BY <2>2
  <2>4. Loop(g, m + 1)
    BY <2>3
  <2>5. m + 1 \in 0..Len(feed)
    BY <1>2
  <2> HIDE DEF Loop, g, h
  <2> QED BY <2>4, <2>5 DEF S
<1>3. Len(feed) \in S
  <2> HIDE DEF S, Loop
  <2>1. 0..Len(feed) \subseteq S
    BY <1>1, <1>2, UpTo
  <2> QED BY <2>1
<1>4. \E f : Loop(f, Len(feed))
  BY <1>3
<1>5. Loop(Groups(answered), Len(feed))
  BY <1>4 DEF Groups
<1> QED
  <2>1. 0 \in 0..Len(feed) /\ \A n \in 1..Len(feed) : n \in 0..Len(feed) /\ n # 0
    OBVIOUS
  <2> QED BY <1>5, <2>1

\* The same of BestOf.
LEMMA BestAre ==
  ASSUME NEW rows, NEW K, NEW infos, Len(rows) \in Nat
  PROVE  /\ BestOf(rows, K, infos)[0] = {}
         /\ \A n \in 1..Len(rows) :
              BestOf(rows, K, infos)[n] = Weighed(BestOf(rows, K, infos)[n - 1], rows, n, K, infos)
<1> DEFINE Loop(f, m) ==
      f = [n \in 0..m |-> IF n = 0 THEN {} ELSE Weighed(f[n - 1], rows, n, K, infos)]
           S == {m \in 0..Len(rows) : \E f : Loop(f, m)}
<1>1. 0 \in S
  <2> DEFINE f == [n \in 0..0 |-> {}]
  <2>1. Loop(f, 0)
    OBVIOUS
  <2> HIDE DEF Loop, f
  <2> QED BY <2>1
<1>2. ASSUME NEW m \in 0..Len(rows), m \in S, m < Len(rows) PROVE m + 1 \in S
  <2>1. PICK f : Loop(f, m)
    BY <1>2
  <2> HIDE DEF S
  <2> DEFINE g == [n \in 0..m + 1 |-> IF n = m + 1 THEN Weighed(f[m], rows, m + 1, K, infos) ELSE f[n]]
             h == [n \in 0..m + 1 |-> IF n = 0 THEN {} ELSE Weighed(g[n - 1], rows, n, K, infos)]
  <2>2. ASSUME NEW n \in 0..m + 1 PROVE g[n] = h[n]
    <3>1. CASE n = m + 1
      <4>1. g[m] = f[m] /\ m + 1 # 0 /\ (m + 1) - 1 = m
        OBVIOUS
      <4> QED BY <3>1, <4>1
    <3>2. CASE n = 0
      BY <2>1, <3>2
    <3>3. CASE n \in 1..m
      <4>1. f[n] = Weighed(f[n - 1], rows, n, K, infos)
        <5>1. n \in 0..m /\ n # 0
          BY <3>3
        <5> HIDE DEF g, h
        <5> QED BY <2>1, <5>1
      <4>2. g[n - 1] = f[n - 1] /\ g[n] = f[n]
        BY <3>3
      <4> QED BY <3>3, <4>1, <4>2
    <3> QED BY <3>1, <3>2, <3>3
  <2>3. g = h
    BY <2>2
  <2>4. Loop(g, m + 1)
    BY <2>3
  <2>5. m + 1 \in 0..Len(rows)
    BY <1>2
  <2> HIDE DEF Loop, g, h
  <2> QED BY <2>4, <2>5 DEF S
<1>3. Len(rows) \in S
  <2> HIDE DEF S, Loop
  <2>1. 0..Len(rows) \subseteq S
    BY <1>1, <1>2, UpTo
  <2> QED BY <2>1
<1>4. \E f : Loop(f, Len(rows))
  BY <1>3
<1>5. Loop(BestOf(rows, K, infos), Len(rows))
  BY <1>4 DEF BestOf
<1> QED
  <2>1. 0 \in 0..Len(rows) /\ \A n \in 1..Len(rows) : n \in 0..Len(rows) /\ n # 0
    OBVIOUS
  <2> QED BY <1>5, <2>1

\* The same of PickedOf.
LEMMA PickedAre ==
  ASSUME NEW s, NEW K, Len(s) \in Nat
  PROVE  /\ PickedOf(s, K)[0] = <<>>
         /\ \A n \in 1..Len(s) :
              PickedOf(s, K)[n] = Taken(PickedOf(s, K)[n - 1], s, n, K)
<1> DEFINE Loop(f, m) ==
      f = [n \in 0..m |-> IF n = 0 THEN <<>> ELSE Taken(f[n - 1], s, n, K)]
           S == {m \in 0..Len(s) : \E f : Loop(f, m)}
<1>1. 0 \in S
  <2> DEFINE f == [n \in 0..0 |-> <<>>]
  <2>1. Loop(f, 0)
    OBVIOUS
  <2> HIDE DEF Loop, f
  <2> QED BY <2>1
<1>2. ASSUME NEW m \in 0..Len(s), m \in S, m < Len(s) PROVE m + 1 \in S
  <2>1. PICK f : Loop(f, m)
    BY <1>2
  <2> HIDE DEF S
  <2> DEFINE g == [n \in 0..m + 1 |-> IF n = m + 1 THEN Taken(f[m], s, m + 1, K) ELSE f[n]]
             h == [n \in 0..m + 1 |-> IF n = 0 THEN <<>> ELSE Taken(g[n - 1], s, n, K)]
  <2>2. ASSUME NEW n \in 0..m + 1 PROVE g[n] = h[n]
    <3>1. CASE n = m + 1
      <4>1. g[m] = f[m] /\ m + 1 # 0 /\ (m + 1) - 1 = m
        OBVIOUS
      <4> QED BY <3>1, <4>1
    <3>2. CASE n = 0
      BY <2>1, <3>2
    <3>3. CASE n \in 1..m
      <4>1. f[n] = Taken(f[n - 1], s, n, K)
        <5>1. n \in 0..m /\ n # 0
          BY <3>3
        <5> HIDE DEF g, h
        <5> QED BY <2>1, <5>1
      <4>2. g[n - 1] = f[n - 1] /\ g[n] = f[n]
        BY <3>3
      <4> QED BY <3>3, <4>1, <4>2
    <3> QED BY <3>1, <3>2, <3>3
  <2>3. g = h
    BY <2>2
  <2>4. Loop(g, m + 1)
    BY <2>3
  <2>5. m + 1 \in 0..Len(s)
    BY <1>2
  <2> HIDE DEF Loop, g, h
  <2> QED BY <2>4, <2>5 DEF S
<1>3. Len(s) \in S
  <2> HIDE DEF S, Loop
  <2>1. 0..Len(s) \subseteq S
    BY <1>1, <1>2, UpTo
  <2> QED BY <2>1
<1>4. \E f : Loop(f, Len(s))
  BY <1>3
<1>5. Loop(PickedOf(s, K), Len(s))
  BY <1>4 DEF PickedOf
<1> QED
  <2>1. 0 \in 0..Len(s) /\ \A n \in 1..Len(s) : n \in 0..Len(s) /\ n # 0
    OBVIOUS
  <2> QED BY <1>5, <2>1

(* One row per event *)

\* Row i may stand for its event as one of the flagship.
Wins(i, answered) == feed[i].league \in Flagship \cap answered

FirstOf(i, e) == feed[i].event = e /\ \A j \in 1..i - 1 : feed[j].event # e

FirstToWin(i, e, answered) ==
  /\ feed[i].event = e /\ Wins(i, answered)
  /\ \A j \in 1..i - 1 : feed[j].event = e => ~Wins(j, answered)

\* g is the group of e in the first n rows.
GroupOf(g, e, n, answered) ==
  /\ \E i \in 1..n : FirstOf(i, e) /\ g.fallback = feed[i]
  /\ \/ g.flagship = {} /\ \A j \in 1..n : feed[j].event = e => ~Wins(j, answered)
     \/ \E i \in 1..n : FirstToWin(i, e, answered) /\ g.flagship = {feed[i]}

\* The groups are those of the first n rows, each in order once.
Joined(groups, n, answered) ==
  /\ groups.order \in Seq(Events)
  /\ \A k, l \in DOMAIN groups.order : groups.order[k] = groups.order[l] => k = l
  /\ \A e : e \in DOMAIN groups.of <=> \E k \in DOMAIN groups.order : groups.order[k] = e
  /\ \A e : e \in DOMAIN groups.of <=> \E i \in 1..n : feed[i].event = e
  /\ \A e \in DOMAIN groups.of : GroupOf(groups.of[e], e, n, answered)

\* A group is still that of its event after a row of another.
LEMMA OthersStay ==
  ASSUME NEW n \in Nat, NEW g, NEW e, NEW answered, feed[n + 1].event # e, GroupOf(g, e, n, answered)
  PROVE  GroupOf(g, e, n + 1, answered)
<1>1. \A j \in 1..n + 1 : j \in 1..n \/ j = n + 1
  OBVIOUS
<1>2. 1..n \subseteq 1..n + 1
  OBVIOUS
<1> QED BY <1>1, <1>2 DEF GroupOf

\* A row joins the group of its event.
LEMMA JoinsItsGroup ==
  ASSUME NEW n \in Nat, NEW groups, NEW answered, feed[n + 1] \in Row, Joined(groups, n, answered)
  PROVE  Joined(Grouped(groups, feed[n + 1], answered), n + 1, answered)
<1> DEFINE h == feed[n + 1]
           known == h.event \in DOMAIN groups.of
           g == IF known THEN groups.of[h.event] ELSE [fallback |-> h, flagship |-> {}]
           wins == g.flagship = {} /\ Wins(n + 1, answered)
           joined == IF wins THEN [fallback |-> g.fallback, flagship |-> {h}] ELSE g
           after == Grouped(groups, h, answered)
<1>1. /\ after.order = IF known THEN groups.order ELSE Append(groups.order, h.event)
      /\ after.of = [e \in DOMAIN groups.of \cup {h.event} |->
                       IF e = h.event THEN joined ELSE groups.of[e]]
  BY DEF Grouped, Wins
<1>2. h.event \in Events
  BY DEF Row
<1>3. \A j \in 1..n + 1 : j \in 1..n \/ j = n + 1
  OBVIOUS
<1>4. 1..n \subseteq 1..n + 1 /\ n + 1 \in 1..n + 1 /\ (n + 1) - 1 = n
  OBVIOUS
<1>5. GroupOf(joined, h.event, n + 1, answered)
  <2>1. \E i \in 1..n + 1 : FirstOf(i, h.event) /\ g.fallback = feed[i]
    <3>1. CASE known
      BY <3>1, <1>4 DEF Joined, GroupOf
    <3>2. CASE ~known
      <4>1. \A j \in 1..n : feed[j].event # h.event
        BY <3>2 DEF Joined
      <4>2. FirstOf(n + 1, h.event)
        BY <4>1, <1>4 DEF FirstOf
      <4> QED BY <3>2, <4>2, <1>4
    <3> QED BY <3>1, <3>2
  <2>2. \/ g.flagship = {} /\ \A j \in 1..n : feed[j].event = h.event => ~Wins(j, answered)
        \/ \E i \in 1..n : FirstToWin(i, h.event, answered) /\ g.flagship = {feed[i]}
    <3>1. CASE known
      BY <3>1 DEF Joined, GroupOf
    <3>2. CASE ~known
      BY <3>2 DEF Joined
    <3> QED BY <3>1, <3>2
  <2> HIDE DEF g, known
  <2>3. CASE wins
    <3>1. \A j \in 1..n : feed[j].event = h.event => ~Wins(j, answered)
      BY <2>2, <2>3
    <3>2. FirstToWin(n + 1, h.event, answered)
      BY <2>3, <3>1, <1>4 DEF FirstToWin
    <3>3. joined.fallback = g.fallback /\ joined.flagship = {h}
      BY <2>3
    <3> HIDE DEF joined, wins
    <3> QED BY <2>1, <3>2, <3>3, <1>4 DEF GroupOf
  <2>4. CASE ~wins
    <3>1. joined = g
      BY <2>4
    <3>2. CASE g.flagship = {}
      <4>1. \A j \in 1..n + 1 : feed[j].event = h.event => ~Wins(j, answered)
        BY <2>2, <2>4, <3>2, <1>3
      <4> HIDE DEF joined, wins
      <4> QED BY <2>1, <3>1, <3>2, <4>1 DEF GroupOf
    <3>3. CASE g.flagship # {}
      <4> HIDE DEF joined, wins
      <4> QED BY <2>1, <2>2, <3>1, <3>3, <1>4 DEF GroupOf
    <3> QED BY <3>2, <3>3
  <2> QED BY <2>3, <2>4
<1> HIDE DEF joined, wins, g, after
<1>6. \A e \in DOMAIN after.of : GroupOf(after.of[e], e, n + 1, answered)
  <2> TAKE e \in DOMAIN after.of
  <2>1. CASE e = h.event
    BY <2>1, <1>1, <1>5
  <2>2. CASE e # h.event
    <3>1. e \in DOMAIN groups.of /\ after.of[e] = groups.of[e]
      BY <2>2, <1>1
    <3> QED BY <3>1, <2>2, OthersStay DEF Joined
  <2> QED BY <2>1, <2>2
<1>7. \A e : e \in DOMAIN after.of <=> \E i \in 1..n + 1 : feed[i].event = e
  BY <1>1, <1>3, <1>4 DEF Joined
<1>8. /\ after.order \in Seq(Events)
      /\ \A k, l \in DOMAIN after.order : after.order[k] = after.order[l] => k = l
      /\ \A e : e \in DOMAIN after.of <=> \E k \in DOMAIN after.order : after.order[k] = e
  <2>1. CASE known
    <3>1. after.order = groups.order /\ DOMAIN after.of = DOMAIN groups.of
      BY <2>1, <1>1
    <3> QED BY <3>1 DEF Joined
  <2>2. CASE ~known
    <3> DEFINE order == groups.order
               m == Len(order)
    <3>1. order \in Seq(Events) /\ m \in Nat /\ DOMAIN order = 1..m
      BY DEF Joined
    <3>2. after.order = Append(order, h.event)
      BY <2>2, <1>1
    <3>3. /\ after.order \in Seq(Events) /\ DOMAIN after.order = 1..m + 1
          /\ \A k \in 1..m : after.order[k] = order[k]
          /\ after.order[m + 1] = h.event
      BY <3>1, <3>2, <1>2
    <3>4. \A k \in 1..m : order[k] # h.event
      BY <2>2, <3>1 DEF Joined
    <3>5. \A k, l \in 1..m : order[k] = order[l] => k = l
      BY <3>1 DEF Joined
    <3>6. \A e : e \in DOMAIN after.of <=> e = h.event \/ \E k \in 1..m : order[k] = e
      BY <1>1, <3>1 DEF Joined
    <3>7. \A k \in 1..m + 1 : k \in 1..m \/ k = m + 1
      BY <3>1
    <3>8. 1..m \subseteq 1..m + 1 /\ m + 1 \in 1..m + 1
      BY <3>1
    <3> HIDE DEF order, m
    <3> QED BY <3>3, <3>4, <3>5, <3>6, <3>7, <3>8
  <2> QED BY <2>1, <2>2
<1> QED BY <1>6, <1>7, <1>8 DEF Joined, after

LEMMA AllJoin ==
  ASSUME NEW answered, feed \in Seq(Row)
  PROVE  Joined(Groups(answered)[Len(feed)], Len(feed), answered)
<1> DEFINE S == {n \in 0..Len(feed) : Joined(Groups(answered)[n], n, answered)}
<1>1. Len(feed) \in Nat /\ DOMAIN feed = 1..Len(feed)
  OBVIOUS
<1>2. 0 \in S
  <2>1. Groups(answered)[0] = NoGroups
    BY <1>1, GroupsAre
  <2>2. /\ NoGroups.order = <<>> /\ DOMAIN NoGroups.of = {}
        /\ DOMAIN NoGroups.order = {} /\ NoGroups.order \in Seq(Events)
    BY DEF NoGroups
  <2>3. Joined(NoGroups, 0, answered)
    BY <2>2 DEF Joined
  <2> QED BY <1>1, <2>1, <2>3
<1>3. ASSUME NEW n \in 0..Len(feed), n \in S, n < Len(feed) PROVE n + 1 \in S
  <2>1. n \in Nat /\ n + 1 \in 1..Len(feed) /\ n + 1 \in 0..Len(feed) /\ (n + 1) - 1 = n
    BY <1>1, <1>3
  <2>2. Groups(answered)[n + 1] = Grouped(Groups(answered)[n], feed[n + 1], answered)
    BY <1>1, <2>1, GroupsAre
  <2>3. feed[n + 1] \in Row
    BY <2>1
  <2>4. Joined(Groups(answered)[n], n, answered)
    BY <1>3
  <2>5. Joined(Groups(answered)[n + 1], n + 1, answered)
    BY <2>1, <2>2, <2>3, <2>4, JoinsItsGroup
  <2> QED BY <2>1, <2>5
<1> HIDE DEF S
<1>4. 0..Len(feed) \subseteq S
  BY <1>1, <1>2, <1>3, UpTo
<1>5. Len(feed) \in S
  BY <1>1, <1>4
<1> QED BY <1>5 DEF S

\* The rows that count, in the terms of the groups.
LEMMA CountingIs ==
  ASSUME NEW lost, feed \in Seq(Row), NEW i \in DOMAIN feed
  PROVE  i \in Counting(lost)
           <=> \/ FirstToWin(i, feed[i].event, Leagues \ lost)
               \/ /\ FirstOf(i, feed[i].event)
                  /\ \A j \in DOMAIN feed : feed[j].event = feed[i].event => ~Wins(j, Leagues \ lost)
<1> DEFINE flagship == {j \in DOMAIN feed : feed[j].league \in Flagship \ lost}
           without == {k \in DOMAIN feed : \A j \in flagship : feed[j].event # feed[k].event}
           won == Leagues \ lost
<1>1. \A j : j \in DOMAIN feed <=> j \in 1..Len(feed)
  OBVIOUS
<1>2. Len(feed) \in Nat /\ i \in 1..Len(feed) /\ i \in Nat
  OBVIOUS
<1>3. \A j \in DOMAIN feed : j \in flagship <=> Wins(j, won)
  BY FlagshipAssumption DEF Wins
<1>4. i \in Counting(lost) <=> First(i, flagship) \/ First(i, without)
  BY DEF Counting
<1>5. First(i, flagship) <=> FirstToWin(i, feed[i].event, won)
  <2>1. First(i, flagship)
          <=> Wins(i, won) /\ \A j \in 1..Len(feed) : Wins(j, won) /\ feed[j].event = feed[i].event => i =< j
    BY <1>1, <1>2, <1>3 DEF First
  <2>2. \A j : j \in 1..i - 1 <=> j \in 1..Len(feed) /\ ~(i =< j)
    BY <1>2
  <2> HIDE DEF flagship, won
  <2> QED BY <2>1, <2>2 DEF FirstToWin
<1>6. First(i, without)
        <=> FirstOf(i, feed[i].event)
              /\ \A j \in DOMAIN feed : feed[j].event = feed[i].event => ~Wins(j, won)
  <2>1. \A k \in DOMAIN feed : k \in without
          <=> \A j \in DOMAIN feed : feed[j].event = feed[k].event => ~Wins(j, won)
    BY <1>3
  <2>2. \A k \in without : k \in DOMAIN feed
    OBVIOUS
  <2> HIDE DEF without, won
  <2>3. \A j \in DOMAIN feed : i \in without /\ feed[j].event = feed[i].event => j \in without
    BY <2>1
  <2>4. First(i, without)
          <=> i \in without /\ \A j \in 1..Len(feed) : feed[j].event = feed[i].event => i =< j
    BY <1>1, <2>2, <2>3 DEF First
  <2> QED BY <1>1, <1>2, <2>1, <2>4 DEF FirstOf
<1> QED BY <1>4, <1>5, <1>6

\* One row of an event counts.
LEMMA OneCounts ==
  ASSUME NEW lost, feed \in Seq(Row), NEW i \in Counting(lost), NEW j \in Counting(lost),
         feed[i].event = feed[j].event
  PROVE  i = j
<1>1. i \in DOMAIN feed /\ j \in DOMAIN feed
  BY DEF Counting
<1>2. i \in 1..Len(feed) /\ j \in 1..Len(feed) /\ i \in Nat /\ j \in Nat
  BY <1>1
<1>3. i < j => i \in 1..j - 1
  BY <1>2
<1>4. j < i => j \in 1..i - 1
  BY <1>2
<1> DEFINE e == feed[i].event
           won == Leagues \ lost
           Barren == \A k \in DOMAIN feed : feed[k].event = e => ~Wins(k, won)
<1>5. FirstToWin(i, e, won) \/ (FirstOf(i, e) /\ Barren)
  BY <1>1, CountingIs
<1>6. FirstToWin(j, e, won) \/ (FirstOf(j, e) /\ Barren)
  BY <1>1, CountingIs
<1>7. feed[i].event = e /\ feed[j].event = e
  OBVIOUS
<1> HIDE DEF e, won
<1>8. Barren => ~FirstToWin(i, e, won) /\ ~FirstToWin(j, e, won)
  BY <1>1, <1>7 DEF FirstToWin
<1>9. FirstOf(i, e) /\ FirstOf(j, e) => ~(i < j) /\ ~(j < i)
  BY <1>3, <1>4, <1>7 DEF FirstOf
<1>10. FirstToWin(i, e, won) /\ FirstToWin(j, e, won) => ~(i < j) /\ ~(j < i)
  BY <1>3, <1>4, <1>7 DEF FirstToWin
<1> QED BY <1>2, <1>5, <1>6, <1>8, <1>9, <1>10

\* A group is answered with the row of its event that counts.
LEMMA WinnerCounts ==
  ASSUME NEW lost, feed \in Seq(Row), NEW g, NEW e, GroupOf(g, e, Len(feed), Leagues \ lost)
  PROVE  \E i \in Counting(lost) : feed[i].event = e /\ Winner(g) = feed[i]
<1>1. DOMAIN feed = 1..Len(feed)
  OBVIOUS
<1>2. CASE g.flagship = {}
  <2>1. PICK i \in 1..Len(feed) : FirstOf(i, e) /\ g.fallback = feed[i]
    BY DEF GroupOf
  <2>2. \A j \in 1..Len(feed) : feed[j].event = e => ~Wins(j, Leagues \ lost)
    BY <1>2 DEF GroupOf
  <2>3. feed[i].event = e
    BY <2>1 DEF FirstOf
  <2> QED BY <1>1, <1>2, <2>1, <2>2, <2>3, CountingIs DEF Winner
<1>3. CASE g.flagship # {}
  <2>1. PICK i \in 1..Len(feed) : FirstToWin(i, e, Leagues \ lost) /\ g.flagship = {feed[i]}
    BY <1>3 DEF GroupOf
  <2>2. feed[i].event = e
    BY <2>1 DEF FirstToWin
  <2>3. Winner(g) = feed[i]
    BY <2>1 DEF Winner
  <2> QED BY <1>1, <2>1, <2>2, <2>3, CountingIs
<1> QED BY <1>2, <1>3

\* What w maps to what.
Ranks(w, rows, lost) ==
  /\ w \in Bijection(1..Len(rows), Counting(lost))
  /\ \A k \in 1..Len(rows) : rows[k] = feed[w[k]]

\* canonicalPlacingPerEvent returns the rows that count, each once, and none of
\* them is of the event of another.
LEMMA CanonicalCounts ==
  ASSUME NEW lost, feed \in Seq(Row)
  PROVE  /\ Canonical(Leagues \ lost) \in Seq(Row)
         /\ \E w : Ranks(w, Canonical(Leagues \ lost), lost)
         /\ \A k, l \in DOMAIN Canonical(Leagues \ lost) :
              Canonical(Leagues \ lost)[k].event = Canonical(Leagues \ lost)[l].event => k = l
         /\ \A i \in DOMAIN feed : \E k \in DOMAIN Canonical(Leagues \ lost) :
              Canonical(Leagues \ lost)[k].event = feed[i].event
<1> DEFINE groups == Groups(Leagues \ lost)[Len(feed)]
           order == groups.order
           rows == Canonical(Leagues \ lost)
           m == Len(order)
<1>1. Joined(groups, Len(feed), Leagues \ lost)
  BY AllJoin
<1>2. rows = [k \in DOMAIN order |-> Winner(groups.of[order[k]])]
  BY DEF Canonical
<1> HIDE DEF groups, rows
<1>3. order \in Seq(Events) /\ m \in Nat /\ DOMAIN order = 1..m /\ DOMAIN feed = 1..Len(feed)
  BY <1>1 DEF Joined
<1>4. \A k \in 1..m : \E i \in Counting(lost) : feed[i].event = order[k] /\ rows[k] = feed[i]
  <2> TAKE k \in 1..m
  <2>1. order[k] \in DOMAIN groups.of
    BY <1>1, <1>3 DEF Joined
  <2>2. GroupOf(groups.of[order[k]], order[k], Len(feed), Leagues \ lost)
    BY <1>1, <2>1 DEF Joined
  <2>3. PICK i \in Counting(lost) : feed[i].event = order[k] /\ Winner(groups.of[order[k]]) = feed[i]
    BY <2>2, WinnerCounts
  <2>4. rows[k] = Winner(groups.of[order[k]])
    BY <1>2, <1>3
  <2> QED BY <2>3, <2>4
<1>5. \A i \in Counting(lost) : i \in DOMAIN feed /\ feed[i] \in Row
  BY DEF Counting
<1>6. DOMAIN rows = 1..m /\ \A k \in 1..m : rows[k] \in Row
  BY <1>2, <1>3, <1>4, <1>5
<1>7. rows \in Seq(Row) /\ Len(rows) = m
  <2>1. rows = [k \in 1..m |-> rows[k]]
    BY <1>2, <1>3
  <2>2. rows \in [1..m -> Row]
    BY <1>6, <2>1
  <2> QED BY <1>3, <2>2
<1>8. \A k, l \in 1..m : order[k] = order[l] => k = l
  BY <1>1, <1>3 DEF Joined
<1>9. \A i \in DOMAIN feed : \E k \in 1..m : order[k] = feed[i].event
  BY <1>1, <1>3 DEF Joined
<1>10. \A k \in 1..m : rows[k].event = order[k]
  BY <1>4
<1>11. \E w : Ranks(w, rows, lost)
  <2> DEFINE w == [k \in 1..m |-> CHOOSE i \in Counting(lost) : feed[i].event = order[k] /\ rows[k] = feed[i]]
  <2>1. \A k \in 1..m : w[k] \in Counting(lost) /\ feed[w[k]].event = order[k] /\ rows[k] = feed[w[k]]
    BY <1>4
  <2>2. w \in [1..m -> Counting(lost)] /\ DOMAIN w = 1..m
    BY <2>1
  <2> HIDE DEF w
  <2>3. \A k, l \in 1..m : w[k] = w[l] => k = l
    BY <2>1, <1>8
  <2>4. ASSUME NEW i \in Counting(lost) PROVE \E k \in 1..m : w[k] = i
    <3>1. PICK k \in 1..m : order[k] = feed[i].event
      BY <1>5, <1>9
    <3>2. w[k] = i
      BY <2>1, <3>1, OneCounts
    <3> QED BY <3>2
  <2>5. w \in Bijection(1..m, Counting(lost))
    BY <2>2, <2>3, <2>4 DEF Bijection, Injection, Surjection, IsInjective
  <2>6. Ranks(w, rows, lost)
    BY <1>7, <2>1, <2>5 DEF Ranks
  <2> QED BY <2>6
<1>12. rows \in Seq(Row) /\ DOMAIN rows = 1..m
  BY <1>6, <1>7
<1>13. /\ rows \in Seq(Row)
       /\ \E w : Ranks(w, rows, lost)
       /\ \A k, l \in DOMAIN rows : rows[k].event = rows[l].event => k = l
       /\ \A i \in DOMAIN feed : \E k \in DOMAIN rows : rows[k].event = feed[i].event
  <2> HIDE DEF order, m
  <2> QED BY <1>8, <1>9, <1>10, <1>11, <1>12
<1> QED BY <1>13 DEF rows

(* The best of some rows *)

Placed(rows, K, n) == {k \in 1..n : k \in K /\ rows[k].placing # None}

\* best holds the least placing of the rows at K among the first n.
BestSoFar(best, rows, K, n) ==
  \/ best = {} /\ Placed(rows, K, n) = {}
  \/ \E k \in Placed(rows, K, n) :
       /\ \E field : best = {[placing |-> rows[k].placing, field |-> field]}
       /\ \A l \in Placed(rows, K, n) : rows[k].placing =< rows[l].placing

\* It still does when a row is weighed.
LEMMA WeighedStep ==
  ASSUME NEW rows, NEW K, NEW infos, NEW n \in Nat, NEW best,
         \A k \in 1..n + 1 : rows[k] \in Row, BestSoFar(best, rows, K, n)
  PROVE  BestSoFar(Weighed(best, rows, n + 1, K, infos), rows, K, n + 1)
<1> DEFINE h == rows[n + 1]
           after == Weighed(best, rows, n + 1, K, infos)
<1>1. \A k \in Placed(rows, K, n + 1) : rows[k].placing \in Nat
  BY PlacesAssumption DEF Placed, Row
<1>2. \A k : k \in Placed(rows, K, n + 1)
        <=> k \in Placed(rows, K, n) \/ (k = n + 1 /\ n + 1 \in K /\ h.placing # None)
  BY DEF Placed
<1>3. CASE n + 1 \in K /\ h.placing # None /\ \A b \in best : h.placing < b.placing
  <2>1. after = {[placing |-> h.placing, field |-> {h.event} \cap infos]}
    BY <1>3 DEF Weighed, KeepBest
  <2>2. n + 1 \in Placed(rows, K, n + 1)
    BY <1>2, <1>3
  <2>3. \A l \in Placed(rows, K, n) : h.placing =< rows[l].placing
    <3>1. CASE best = {} /\ Placed(rows, K, n) = {}
      BY <3>1
    <3>2. CASE \E k \in Placed(rows, K, n) :
                 /\ \E field : best = {[placing |-> rows[k].placing, field |-> field]}
                 /\ \A l \in Placed(rows, K, n) : rows[k].placing =< rows[l].placing
      <4>1. PICK k \in Placed(rows, K, n) :
              /\ \E field : best = {[placing |-> rows[k].placing, field |-> field]}
              /\ \A l \in Placed(rows, K, n) : rows[k].placing =< rows[l].placing
        BY <3>2
      <4>2. h.placing < rows[k].placing
        BY <1>3, <4>1
      <4>3. \A l \in Placed(rows, K, n) : rows[l].placing \in Nat
        BY <1>1, <1>2
      <4>4. h.placing \in Nat
        BY <1>1, <2>2
      <4> QED BY <4>1, <4>2, <4>3, <4>4
    <3> QED BY <3>1, <3>2 DEF BestSoFar
  <2>4. \A l \in Placed(rows, K, n + 1) : h.placing =< rows[l].placing
    BY <1>1, <1>2, <2>2, <2>3
  <2> HIDE DEF after
  <2> QED BY <2>1, <2>2, <2>4 DEF BestSoFar, after
<1>4. CASE ~(n + 1 \in K /\ h.placing # None /\ \A b \in best : h.placing < b.placing)
  <2>1. after = best
    BY <1>4 DEF Weighed, KeepBest
  <2>2. CASE best = {} /\ Placed(rows, K, n) = {}
    <3>1. Placed(rows, K, n + 1) = {}
      BY <1>2, <1>4, <2>2
    <3> HIDE DEF after
    <3> QED BY <2>1, <2>2, <3>1 DEF BestSoFar, after
  <2>3. CASE \E k \in Placed(rows, K, n) :
               /\ \E field : best = {[placing |-> rows[k].placing, field |-> field]}
               /\ \A l \in Placed(rows, K, n) : rows[k].placing =< rows[l].placing
    <3>1. PICK k \in Placed(rows, K, n) :
            /\ \E field : best = {[placing |-> rows[k].placing, field |-> field]}
            /\ \A l \in Placed(rows, K, n) : rows[k].placing =< rows[l].placing
      BY <2>3
    <3>2. n + 1 \in K /\ h.placing # None => ~(h.placing < rows[k].placing)
      BY <1>4, <3>1
    <3>3. k \in Placed(rows, K, n + 1) /\ rows[k].placing \in Nat
      BY <1>1, <1>2
    <3>4. \A l \in Placed(rows, K, n + 1) : rows[k].placing =< rows[l].placing
      BY <1>1, <1>2, <3>1, <3>2, <3>3
    <3> HIDE DEF after
    <3> QED BY <2>1, <3>1, <3>3, <3>4 DEF BestSoFar, after
  <2> QED BY <2>2, <2>3 DEF BestSoFar
<1> QED BY <1>3, <1>4

Leasts(rows, S) == {rows[k].placing : k \in {j \in S : \A l \in S : rows[j].placing =< rows[l].placing}}

\* The loop ends with the least placing, whatever it knows of the events.
LEMMA BestIsLeast ==
  ASSUME NEW rows \in Seq(Row), NEW K, NEW infos
  PROVE  {b.placing : b \in Best(rows, K, infos)} = Leasts(rows, Placed(rows, K, Len(rows)))
<1> DEFINE N == Len(rows)
           S == {n \in 0..N : BestSoFar(BestOf(rows, K, infos)[n], rows, K, n)}
<1>1. N \in Nat /\ DOMAIN rows = 1..N
  OBVIOUS
<1>2. 0 \in S
  <2>1. BestOf(rows, K, infos)[0] = {}
    BY BestAre
  <2>2. Placed(rows, K, 0) = {}
    BY DEF Placed
  <2> QED BY <2>1, <2>2 DEF BestSoFar
<1>3. ASSUME NEW n \in 0..N, n \in S, n < N PROVE n + 1 \in S
  <2>1. n \in Nat /\ n + 1 \in 1..N /\ n + 1 \in 0..N /\ (n + 1) - 1 = n /\ 1..n + 1 \subseteq 1..N
    BY <1>1, <1>3
  <2>2. BestOf(rows, K, infos)[n + 1] = Weighed(BestOf(rows, K, infos)[n], rows, n + 1, K, infos)
    BY <2>1, BestAre
  <2>3. \A k \in 1..n + 1 : rows[k] \in Row
    BY <2>1
  <2>4. BestSoFar(BestOf(rows, K, infos)[n], rows, K, n)
    BY <1>3
  <2>5. BestSoFar(BestOf(rows, K, infos)[n + 1], rows, K, n + 1)
    BY <2>1, <2>2, <2>3, <2>4, WeighedStep
  <2> QED BY <2>1, <2>5
<1>4. BestSoFar(Best(rows, K, infos), rows, K, N)
  <2> HIDE DEF S
  <2>1. 0..N \subseteq S
    BY <1>1, <1>2, <1>3, UpTo
  <2>2. N \in S
    BY <1>1, <2>1
  <2> QED BY <2>2 DEF S, Best
<1> DEFINE best == Best(rows, K, infos)
           placed == Placed(rows, K, N)
<1>5. CASE best = {} /\ placed = {}
  BY <1>5 DEF Leasts
<1>6. CASE \E k \in placed :
             /\ \E field : best = {[placing |-> rows[k].placing, field |-> field]}
             /\ \A l \in placed : rows[k].placing =< rows[l].placing
  <2>1. PICK k \in placed :
          /\ \E field : best = {[placing |-> rows[k].placing, field |-> field]}
          /\ \A l \in placed : rows[k].placing =< rows[l].placing
    BY <1>6
  <2>2. \A l \in placed : rows[l].placing \in Nat
    <3>1. \A l \in 1..N : rows[l] \in Row
      BY <1>1
    <3>2. \A l \in 1..N : rows[l].placing # None => rows[l].placing \in Nat
      BY <3>1, PlacesAssumption DEF Row
    <3> QED BY <3>2 DEF Placed
  <2> HIDE DEF best, placed
  <2>3. {b.placing : b \in best} = {rows[k].placing}
    BY <2>1
  <2>4. Leasts(rows, placed) = {rows[k].placing}
    <3>1. rows[k].placing \in Leasts(rows, placed)
      BY <2>1 DEF Leasts
    <3>2. ASSUME NEW j \in placed, \A l \in placed : rows[j].placing =< rows[l].placing
          PROVE  rows[j].placing = rows[k].placing
      BY <2>1, <2>2, <3>2
    <3> QED BY <3>1, <3>2 DEF Leasts
  <2> QED BY <2>3, <2>4 DEF best, placed
<1> QED BY <1>4, <1>5, <1>6 DEF BestSoFar

(* What a loop takes *)

\* How often list s has x.
At(s, x) == {k \in DOMAIN s : s[k] = x}
Count(s, x) == Cardinality(At(s, x))

\* picked has a registration of each event for each that s has at K among its
\* first n.
PickedSoFar(picked, s, K, n) ==
  /\ picked \in Seq(Registration)
  /\ \A e : Cardinality({k \in DOMAIN picked : picked[k].event = e})
              = Cardinality({k \in 1..n : k \in K /\ s[k].event = e})

LEMMA TakenStep ==
  ASSUME NEW s, NEW K, NEW n \in Nat, NEW picked, s[n + 1] \in Registration,
         PickedSoFar(picked, s, K, n)
  PROVE  PickedSoFar(Taken(picked, s, n + 1, K), s, K, n + 1)
<1>1. \A k : k \in 1..n + 1 <=> k \in 1..n \/ k = n + 1
  OBVIOUS
<1>2. CASE n + 1 \notin K
  <2>1. Taken(picked, s, n + 1, K) = picked
    BY <1>2 DEF Taken
  <2>2. \A e : {k \in 1..n + 1 : k \in K /\ s[k].event = e} = {k \in 1..n : k \in K /\ s[k].event = e}
    BY <1>1, <1>2
  <2>3. ASSUME NEW e
        PROVE  Cardinality({k \in DOMAIN picked : picked[k].event = e})
                 = Cardinality({k \in 1..n + 1 : k \in K /\ s[k].event = e})
    BY <2>2 DEF PickedSoFar
  <2> QED BY <2>1, <2>3 DEF PickedSoFar
<1>3. CASE n + 1 \in K
  <2> DEFINE after == Taken(picked, s, n + 1, K)
             m == Len(picked)
  <2>1. picked \in Seq(Registration) /\ m \in Nat /\ DOMAIN picked = 1..m
    BY DEF PickedSoFar
  <2>2. after = Append(picked, s[n + 1])
    BY <1>3 DEF Taken
  <2>3. /\ after \in Seq(Registration) /\ DOMAIN after = 1..m + 1
        /\ \A k \in 1..m : after[k] = picked[k]
        /\ after[m + 1] = s[n + 1]
    BY <2>1, <2>2
  <2>4. \A k : k \in 1..m + 1 <=> k \in 1..m \/ k = m + 1
    BY <2>1
  <2>5. m + 1 \notin 1..m /\ n + 1 \notin 1..n
    BY <2>1
  <2>6. IsFiniteSet(1..m) /\ IsFiniteSet(1..n)
    BY <2>1, FS_Interval
  <2> HIDE DEF after, m
  <2>7. ASSUME NEW e
        PROVE  Cardinality({k \in DOMAIN after : after[k].event = e})
                 = Cardinality({k \in 1..n + 1 : k \in K /\ s[k].event = e})
    <3> DEFINE P == {k \in 1..m : picked[k].event = e}
               S == {k \in 1..n : k \in K /\ s[k].event = e}
               PP == {k \in 1..m + 1 : after[k].event = e}
               SS == {k \in 1..n + 1 : k \in K /\ s[k].event = e}
    <3>1. Cardinality(P) = Cardinality(S)
      BY <2>1 DEF PickedSoFar
    <3>2. IsFiniteSet(P) /\ IsFiniteSet(S)
      BY <2>6, FS_Subset
    <3>3. m + 1 \notin P /\ n + 1 \notin S
      BY <2>5
    <3>4. CASE s[n + 1].event = e
      <4>1. PP = P \cup {m + 1}
        BY <2>3, <2>4, <3>4
      <4>2. SS = S \cup {n + 1}
        BY <1>1, <1>3, <3>4
      <4> HIDE DEF P, S, PP, SS
      <4>3. Cardinality(PP) = Cardinality(P) + 1 /\ Cardinality(SS) = Cardinality(S) + 1
        BY <3>2, <3>3, <4>1, <4>2, FS_AddElement
      <4> QED BY <2>3, <3>1, <4>3 DEF PP, SS
    <3>5. CASE s[n + 1].event # e
      <4>1. PP = P
        BY <2>3, <2>4, <3>5
      <4>2. SS = S
        BY <1>1, <3>5
      <4> QED BY <2>3, <3>1, <4>1, <4>2
    <3> QED BY <3>4, <3>5
  <2> QED BY <2>3, <2>7 DEF PickedSoFar, after
<1> QED BY <1>2, <1>3

\* A loop over s that takes the registrations at K takes each of them once.
LEMMA TakenOnce ==
  ASSUME NEW s \in Seq(Registration), NEW K
  PROVE  PickedSoFar(Picked(s, K), s, K, Len(s))
<1> DEFINE N == Len(s)
           S == {n \in 0..N : PickedSoFar(PickedOf(s, K)[n], s, K, n)}
<1>1. N \in Nat /\ DOMAIN s = 1..N
  OBVIOUS
<1>2. 0 \in S
  <2>1. PickedOf(s, K)[0] = <<>>
    BY PickedAre
  <2>2. \A e : {k \in DOMAIN <<>> : <<>>[k].event = e} = {k \in 1..0 : k \in K /\ s[k].event = e}
    OBVIOUS
  <2>3. PickedSoFar(<<>>, s, K, 0)
    BY <2>2 DEF PickedSoFar
  <2> QED BY <2>1, <2>3
<1>3. ASSUME NEW n \in 0..N, n \in S, n < N PROVE n + 1 \in S
  <2>1. n \in Nat /\ n + 1 \in 1..N /\ n + 1 \in 0..N /\ (n + 1) - 1 = n
    BY <1>1, <1>3
  <2>2. PickedOf(s, K)[n + 1] = Taken(PickedOf(s, K)[n], s, n + 1, K)
    BY <2>1, PickedAre
  <2>3. s[n + 1] \in Registration
    BY <2>1
  <2>4. PickedSoFar(PickedOf(s, K)[n], s, K, n)
    BY <1>3
  <2>5. PickedSoFar(PickedOf(s, K)[n + 1], s, K, n + 1)
    BY <2>1, <2>2, <2>3, <2>4, TakenStep
  <2> QED BY <2>1, <2>5
<1> HIDE DEF S
<1>4. 0..N \subseteq S
  BY <1>1, <1>2, <1>3, UpTo
<1>5. N \in S
  BY <1>1, <1>4
<1> QED BY <1>5 DEF S, Picked

(* What the pages show *)

FeedsInv == feed \in Seq(Row) /\ registered \in Seq(Registration)

\* The rows are those that canonicalPlacingPerEvent makes of the feed.
RowsHold(p) ==
  page[p].lost \in SUBSET Flagship /\ page[p].rows = Canonical(Leagues \ page[p].lost)

\* The figures are computed from such rows, and without looking events up
\* unless in full.
FiguresHold(p) ==
  /\ page[p].shown = Figures(Canonical(Leagues \ page[p].lost), page[p].infos, p = "full")
  /\ p # "full" => page[p].infos = {}

\* So are the lists.
ListsHold(p) ==
  \E lost \in SUBSET Flagship, found \in [page[p].known -> Phases] :
    /\ page[p].known \subseteq Pending(Canonical(Leagues \ lost))
    /\ page[p].shown = Lists(Canonical(Leagues \ lost), found)

PageHolds(p) ==
  /\ page[p].pc = "collapsed" => RowsHold(p)
  /\ page[p].pc = "figures" => FiguresHold(p)
  /\ page[p].pc = "lists" => ListsHold(p)

PagesInv == FeedsInv /\ \A p \in DOMAIN page : PageHolds(p)

LEMMA PagesStart == PagesInit => PagesInv
<1> SUFFICES ASSUME PagesInit PROVE PagesInv
  OBVIOUS
<1>1. feed \in Seq(Row)
  BY DEF PagesInit, Feeds, BoundedSeq, SeqOf
<1>2. registered \in Seq(Registration)
  <2>1. PICK view \in Views : registered \in IF "events" \in view THEN Registrations ELSE {<<>>}
    BY DEF PagesInit
  <2>2. CASE registered = <<>>
    BY <2>2
  <2>3. CASE registered \in Registrations
    BY <2>3 DEF Registrations, BoundedSeq, SeqOf
  <2> QED BY <2>1, <2>2, <2>3
<1>3. \A p \in DOMAIN page : page[p].pc = "asked"
  BY DEF PagesInit
<1> QED BY <1>1, <1>2, <1>3 DEF PagesInv, FeedsInv, PageHolds

\* What is computed from feeds that stay is what it was.
LEMMA FeedsStay ==
  ASSUME UNCHANGED <<feed, registered>>
  PROVE  /\ \A answered : Canonical(answered)' = Canonical(answered)
         /\ \A rows : Pending(rows)' = Pending(rows)
         /\ \A rows, found : Lists(rows, found)' = Lists(rows, found)
<1>1. \A answered : Groups(answered)' = Groups(answered)
  BY DEF Groups
<1>2. \A answered : Canonical(answered)' = Canonical(answered)
  BY <1>1 DEF Canonical
<1>3. \A rows : Pending(rows)' = Pending(rows)
  BY DEF Pending
<1>4. \A rows, found : Lists(rows, found)' = Lists(rows, found)
  BY DEF Lists, InPhase
<1> QED BY <1>2, <1>3, <1>4

\* A page that a step leaves alone shows what it did.
LEMMA OtherPagesStay ==
  ASSUME NEW p, page'[p] = page[p], UNCHANGED <<feed, registered>>, PageHolds(p)
  PROVE  PageHolds(p)'
<1>1. /\ \A answered : Canonical(answered)' = Canonical(answered)
      /\ \A rows : Pending(rows)' = Pending(rows)
      /\ \A rows, found : Lists(rows, found)' = Lists(rows, found)
  BY FeedsStay
<1>2. RowsHold(p)' <=> RowsHold(p)
  BY <1>1 DEF RowsHold
<1>3. FiguresHold(p)' <=> FiguresHold(p)
  BY <1>1 DEF FiguresHold
<1>4. ListsHold(p)' <=> ListsHold(p)
  BY <1>1 DEF ListsHold
<1> QED BY <1>2, <1>3, <1>4 DEF PageHolds

\* What a page is left with holds, if the feeds stay.
LEMMA ShowKeeps ==
  ASSUME NEW p \in DOMAIN page, NEW state, PagesInv, Show(p, state),
         page'[p] = state => PageHolds(p)'
  PROVE  PagesInv'
<1>1. FeedsInv'
  BY DEF PagesInv, FeedsInv, Show
<1>2. UNCHANGED <<feed, registered>>
  BY DEF Show
<1>3. DOMAIN page' = DOMAIN page /\ page'[p] = state
      /\ \A q \in DOMAIN page : q # p => page'[q] = page[q]
  BY DEF Show
<1>4. ASSUME NEW q \in DOMAIN page' PROVE PageHolds(q)'
  <2>1. CASE q = p
    BY <2>1, <1>3
  <2>2. CASE q # p
    <3>1. q \in DOMAIN page /\ page'[q] = page[q] /\ PageHolds(q)
      BY <2>2, <1>3 DEF PagesInv
    <3> QED BY <3>1, <1>2, OtherPagesStay
  <2> QED BY <2>1, <2>2
<1> QED BY <1>1, <1>4 DEF PagesInv

LEMMA PagesStep == PagesInv /\ [PagesNext]_pageVars => PagesInv'
<1> SUFFICES ASSUME PagesInv, [PagesNext]_pageVars PROVE PagesInv'
  OBVIOUS
<1>1. ASSUME NEW p \in DOMAIN page, Collapse(p) PROVE PagesInv'
  <2>1. PICK lost \in SUBSET Flagship :
          Show(p, [pc |-> "collapsed", rows |-> Canonical(Lookups(p) \ lost), lost |-> lost])
    BY <1>1 DEF Collapse
  <2> DEFINE state == [pc |-> "collapsed", rows |-> Canonical(Lookups(p) \ lost), lost |-> lost]
  <2>2. /\ state.pc = "collapsed" /\ state.lost = lost /\ lost \in SUBSET Flagship
        /\ state.rows = Canonical(Leagues \ lost)
    BY DEF Lookups
  <2>3. \A answered : Canonical(answered)' = Canonical(answered)
    BY <2>1, FeedsStay DEF Show
  <2>4. Show(p, state)
    BY <2>1
  <2> HIDE DEF state
  <2>5. ASSUME page'[p] = state PROVE PageHolds(p)'
    BY <2>2, <2>3, <2>5 DEF PageHolds, RowsHold
  <2> QED BY <2>4, <2>5, ShowKeeps
<1>2. ASSUME NEW p \in DOMAIN page, Fail(p) PROVE PagesInv'
  <2> DEFINE state == [pc |-> "failed"]
  <2>1. Show(p, state) /\ state.pc = "failed"
    BY <1>2 DEF Fail
  <2> HIDE DEF state
  <2>2. ASSUME page'[p] = state PROVE PageHolds(p)'
    BY <2>1, <2>2 DEF PageHolds
  <2> QED BY <2>1, <2>2, ShowKeeps
<1>3. ASSUME NEW p \in DOMAIN page, Summarise(p) PROVE PagesInv'
  <2> DEFINE state == [pc |-> "figures", lost |-> page[p].lost, infos |-> {},
                       shown |-> Figures(page[p].rows, {}, FALSE)]
  <2>1. Show(p, state) /\ p = "summary" /\ page[p].pc = "collapsed"
    BY <1>3 DEF Summarise
  <2>2. page[p].rows = Canonical(Leagues \ page[p].lost)
    BY <2>1 DEF PagesInv, PageHolds, RowsHold
  <2>3. /\ state.pc = "figures" /\ state.infos = {}
        /\ state.shown = Figures(Canonical(Leagues \ state.lost), state.infos, p = "full")
    BY <2>1, <2>2
  <2>4. \A answered : Canonical(answered)' = Canonical(answered)
    BY <2>1, FeedsStay DEF Show
  <2> HIDE DEF state
  <2>5. ASSUME page'[p] = state PROVE PageHolds(p)'
    BY <2>3, <2>4, <2>5 DEF PageHolds, FiguresHold
  <2> QED BY <2>1, <2>5, ShowKeeps
<1>4. ASSUME NEW p \in DOMAIN page, Detail(p) PROVE PagesInv'
  <2>1. PICK infos : Show(p, [pc |-> "figures", lost |-> page[p].lost, infos |-> infos,
                              shown |-> Figures(page[p].rows, infos, TRUE)])
    BY <1>4 DEF Detail
  <2> DEFINE state == [pc |-> "figures", lost |-> page[p].lost, infos |-> infos,
                       shown |-> Figures(page[p].rows, infos, TRUE)]
  <2>2. Show(p, state) /\ p = "full" /\ page[p].pc = "collapsed"
    BY <1>4, <2>1 DEF Detail
  <2>3. page[p].rows = Canonical(Leagues \ page[p].lost)
    BY <2>2 DEF PagesInv, PageHolds, RowsHold
  <2>4. /\ state.pc = "figures"
        /\ state.shown = Figures(Canonical(Leagues \ state.lost), state.infos, p = "full")
    BY <2>2, <2>3
  <2>5. \A answered : Canonical(answered)' = Canonical(answered)
    BY <2>1, FeedsStay DEF Show
  <2> HIDE DEF state
  <2>6. ASSUME page'[p] = state PROVE PageHolds(p)'
    BY <2>2, <2>4, <2>5, <2>6 DEF PageHolds, FiguresHold
  <2> QED BY <2>2, <2>6, ShowKeeps
<1>5. ASSUME NEW p \in DOMAIN page, Classify(p) PROVE PagesInv'
  <2> DEFINE lost == page[p].lost
             rows == Canonical(Leagues \ lost)
  <2>1. page[p].rows = rows /\ lost \in SUBSET Flagship
    BY <1>5 DEF Classify, PagesInv, PageHolds, RowsHold
  <2>2. PICK known \in SUBSET Pending(rows) : \E found \in [known -> Phases] :
          Show(p, [pc |-> "lists", known |-> known, shown |-> Lists(rows, found)])
    BY <1>5, <2>1 DEF Classify
  <2>3. PICK found \in [known -> Phases] :
          Show(p, [pc |-> "lists", known |-> known, shown |-> Lists(rows, found)])
    BY <2>2
  <2> DEFINE state == [pc |-> "lists", known |-> known, shown |-> Lists(rows, found)]
  <2>4. Show(p, state)
    BY <2>3
  <2>5. state.pc = "lists" /\ state.known = known /\ state.shown = Lists(rows, found)
    OBVIOUS
  <2>6. known \subseteq Pending(rows)
    BY <2>2
  <2>7. /\ \A answered : Canonical(answered)' = Canonical(answered)
        /\ \A r : Pending(r)' = Pending(r)
        /\ \A r, f : Lists(r, f)' = Lists(r, f)
    BY <2>3, FeedsStay DEF Show
  <2> HIDE DEF state, lost
  <2>8. ASSUME page'[p] = state PROVE PageHolds(p)'
    BY <2>1, <2>3, <2>5, <2>6, <2>7, <2>8 DEF PageHolds, ListsHold
  <2> QED BY <2>4, <2>8, ShowKeeps
<1>6. CASE UNCHANGED pageVars
  <2>1. UNCHANGED <<feed, registered>> /\ page' = page
    BY <1>6 DEF pageVars
  <2>2. FeedsInv'
    BY <2>1 DEF PagesInv, FeedsInv
  <2>3. ASSUME NEW q \in DOMAIN page' PROVE PageHolds(q)'
    BY <2>1, OtherPagesStay DEF PagesInv
  <2> QED BY <2>2, <2>3 DEF PagesInv
<1> QED BY <1>1, <1>2, <1>3, <1>4, <1>5, <1>6 DEF PagesNext

LEMMA PagesAlwaysHold == PagesSpec => []PagesInv
BY PagesStart, PagesStep, PTL DEF PagesSpec

(* Home and /stats agree *)

LEMMA AgreeWhenHeld == PagesInv => SummaryAgrees
<1> SUFFICES ASSUME PagesInv, {"summary", "full"} \subseteq With("figures"),
                    page["summary"].lost = {}, page["full"].lost = {}
             PROVE  LET home == page["summary"].shown
                        full == page["full"].shown
                    IN /\ <<home.total, home.since, home.recent, home.trend>>
                            = <<full.total, full.since, full.recent, full.trend>>
                       /\ {b.placing : b \in home.best} = {b.placing : b \in full.best}
  BY DEF SummaryAgrees
<1> DEFINE rows == Canonical(Leagues \ {})
           infos == page["full"].infos
<1>1. "summary" \in With("figures") /\ "full" \in With("figures")
  OBVIOUS
<1>2. FiguresHold("summary") /\ FiguresHold("full")
  BY <1>1 DEF PagesInv, PageHolds, With
<1>3. /\ page["summary"].shown = Figures(rows, {}, FALSE)
      /\ page["full"].shown = Figures(rows, infos, TRUE)
  BY <1>2 DEF FiguresHold
<1>4. rows \in Seq(Row)
  BY CanonicalCounts DEF PagesInv, FeedsInv
<1> HIDE DEF rows, infos
<1>5. {b.placing : b \in Best(rows, DOMAIN rows, {})} = {b.placing : b \in Best(rows, DOMAIN rows, infos)}
  BY <1>4, BestIsLeast
<1> DEFINE home == Figures(rows, {}, FALSE)
           full == Figures(rows, infos, TRUE)
<1>6. /\ home.total = full.total /\ home.since = full.since
      /\ home.recent = full.recent /\ home.trend = full.trend
  BY DEF Figures
<1>7. home.best = Best(rows, DOMAIN rows, {}) /\ full.best = Best(rows, DOMAIN rows, infos)
  BY DEF Figures
<1> HIDE DEF home, full
<1>8. page["summary"].shown = home /\ page["full"].shown = full
  BY <1>3 DEF home, full
<1> QED BY <1>5, <1>6, <1>7, <1>8

\* Home and /stats give the same figures where both give one and no league's
\* lookup failed, for any feed, events, leagues and lookups of events.
THEOREM SummaryAlwaysAgrees == PagesSpec => []SummaryAgrees
BY PagesAlwaysHold, AgreeWhenHeld, PTL

(* The figures are of the rows that count *)

\* A least placing among the rows is one among those of the feed that count.
LEMMA LeastsAreOfFeed ==
  ASSUME NEW rows, NEW lost, NEW w, Ranks(w, rows, lost), NEW S, NEW T,
         S \subseteq 1..Len(rows), T \subseteq Counting(lost),
         \A k \in 1..Len(rows) : k \in S <=> w[k] \in T
  PROVE  Leasts(rows, S)
           = {feed[i].placing : i \in {j \in T : \A l \in T : feed[j].placing =< feed[l].placing}}
<1>1. \A k \in 1..Len(rows) : w[k] \in Counting(lost) /\ rows[k] = feed[w[k]]
  BY DEF Ranks, Bijection, Injection
<1>2. \A i \in Counting(lost) : \E k \in 1..Len(rows) : w[k] = i
  BY DEF Ranks, Bijection, Surjection
<1>3. \A k \in S : w[k] \in T /\ rows[k].placing = feed[w[k]].placing
  BY <1>1
<1>4. \A i \in T : \E k \in S : w[k] = i
  BY <1>2
<1> DEFINE best(j) == \A l \in T : feed[j].placing =< feed[l].placing
           least(j) == \A l \in S : rows[j].placing =< rows[l].placing
<1>5. \A k \in S : least(k) <=> best(w[k])
  BY <1>3, <1>4
<1> HIDE DEF best, least
<1>6. {rows[k].placing : k \in {j \in S : least(j)}} = {feed[i].placing : i \in {j \in T : best(j)}}
  <2>1. \A k \in S : least(k) => \E i \in T : best(i) /\ feed[i].placing = rows[k].placing
    BY <1>3, <1>5
  <2>2. \A i \in T : best(i) => \E k \in S : least(k) /\ feed[i].placing = rows[k].placing
    BY <1>3, <1>4, <1>5
  <2> QED BY <2>1, <2>2
<1> QED BY <1>6 DEF Leasts, best, least

LEMMA FiguresWhenHeld == PagesInv => FiguresAreOfCountedRows
<1> SUFFICES ASSUME PagesInv, NEW p \in With("figures")
             PROVE  LET shown == page[p].shown
                        rows == Counting(page[p].lost)
                        placed == {i \in rows : feed[i].placing # None}
                        known(kind) ==
                          {i \in placed : feed[i].event \in page[p].infos /\ KindOf(feed[i].event) = kind}
                        Least(best, S) ==
                          {b.placing : b \in best}
                            = {feed[i].placing : i \in {j \in S : \A l \in S : feed[j].placing <= feed[l].placing}}
                    IN /\ Cardinality(rows) = shown.total
                       /\ Least(shown.best, placed)
                       /\ \A kind \in DOMAIN shown.split : Least(shown.split[kind], known(kind))
  BY DEF FiguresAreOfCountedRows
<1> DEFINE lost == page[p].lost
           infos == page[p].infos
           rows == Canonical(Leagues \ lost)
           N == Len(rows)
           counted == Counting(lost)
           placed == {i \in counted : feed[i].placing # None}
           known(kind) == {i \in placed : feed[i].event \in infos /\ KindOf(feed[i].event) = kind}
           ofFeed(T) == {feed[i].placing : i \in {j \in T : \A l \in T : feed[j].placing <= feed[l].placing}}
           shown == page[p].shown
<1>1. FiguresHold(p)
  BY DEF PagesInv, PageHolds, With
<1>2. shown = Figures(rows, infos, p = "full") /\ (p # "full" => infos = {})
  BY <1>1 DEF FiguresHold
<1>3. rows \in Seq(Row) /\ \E w : Ranks(w, rows, lost)
  BY CanonicalCounts DEF PagesInv, FeedsInv
<1>4. PICK w : Ranks(w, rows, lost)
  BY <1>3
<1> HIDE DEF rows, lost, infos, shown
<1>5. N \in Nat /\ DOMAIN rows = 1..N
  BY <1>3
<1>6. \A k \in 1..N : w[k] \in counted /\ rows[k] = feed[w[k]]
  BY <1>4 DEF Ranks, Bijection, Injection
<1>7. Cardinality(counted) = shown.total
  <2>1. ExistsBijection(1..N, counted)
    BY <1>4 DEF Ranks, ExistsBijection
  <2>2. Cardinality(counted) = N
    BY <1>5, <2>1, FS_CountingElements
  <2> QED BY <1>2, <2>2 DEF Figures
<1>8. {b.placing : b \in shown.best} = ofFeed(placed)
  <2>1. shown.best = Best(rows, DOMAIN rows, infos)
    BY <1>2 DEF Figures
  <2>2. \A k \in 1..N : k \in Placed(rows, DOMAIN rows, N) <=> w[k] \in placed
    BY <1>5, <1>6 DEF Placed
  <2>3. Placed(rows, DOMAIN rows, N) \subseteq 1..N /\ placed \subseteq counted
    BY DEF Placed
  <2> HIDE DEF placed, counted
  <2>4. Leasts(rows, Placed(rows, DOMAIN rows, N)) = ofFeed(placed)
    BY <1>4, <2>2, <2>3, LeastsAreOfFeed DEF counted
  <2> QED BY <1>3, <2>1, <2>4, BestIsLeast
<1>9. ASSUME NEW kind \in DOMAIN shown.split
      PROVE  {b.placing : b \in shown.split[kind]} = ofFeed(known(kind))
  <2>1. shown.split = Split(rows, infos, p = "full") /\ kind \in {"team", "gt", "rtt"}
    BY <1>2, <1>9 DEF Figures, Split
  <2>2. CASE p # "full"
    <3>1. shown.split[kind] = {}
      BY <2>1, <2>2 DEF Split
    <3>2. known(kind) = {}
      BY <1>2, <2>2
    <3> QED BY <3>1, <3>2
  <2>3. CASE p = "full"
    <3> DEFINE K == InCategory(rows, infos, kind)
    <3>1. shown.split[kind] = Best(rows, K, infos)
      BY <2>1, <2>3 DEF Split
    <3>2. \A k \in 1..N : k \in K <=> feed[w[k]].event \in infos /\ KindOf(feed[w[k]].event) = kind
      <4>1. \A e : e \in infos /\ e \in Events => Category(e, infos) = KindOf(e)
        BY DEF Category, KindOf
      <4>2. \A k \in 1..N : rows[k].event \in Events
        <5>1. \A k \in 1..N : rows[k] \in Row
          BY <1>3, <1>5
        <5> QED BY <5>1 DEF Row
      <4>3. \A k \in 1..N : k \in K <=> rows[k].event \in infos /\ Category(rows[k].event, infos) = kind
        BY <1>5 DEF InCategory, Resolved
      <4> QED BY <1>6, <4>1, <4>2, <4>3
    <3> HIDE DEF K
    <3>3. \A k \in 1..N : k \in Placed(rows, K, N) <=> w[k] \in known(kind)
      BY <1>5, <1>6, <3>2 DEF Placed
    <3>4. Placed(rows, K, N) \subseteq 1..N /\ known(kind) \subseteq counted
      BY DEF Placed
    <3> HIDE DEF known, counted
    <3>5. Leasts(rows, Placed(rows, K, N)) = ofFeed(known(kind))
      BY <1>4, <3>3, <3>4, LeastsAreOfFeed DEF counted
    <3> QED BY <1>3, <3>1, <3>5, BestIsLeast
  <2> QED BY <2>2, <2>3
<1> QED BY <1>7, <1>8, <1>9 DEF shown, lost, infos

\* Each figure is that of a row that counts, and the split leaves out what could
\* not be looked up and nothing else, whatever the feed and the lookups.
THEOREM FiguresAlwaysOfCountedRows == PagesSpec => []FiguresAreOfCountedRows
BY PagesAlwaysHold, FiguresWhenHeld, PTL

(* Every event is listed as often as the feeds say *)

\* An event is concluded by the rows that count exactly when the feed has it.
LEMMA ConcludedAlike ==
  ASSUME NEW lost, feed \in Seq(Row), NEW e
  PROVE  Concluded(e, Canonical(Leagues \ lost)) <=> Concluded(e, feed)
<1> DEFINE rows == Canonical(Leagues \ lost)
<1>1. rows \in Seq(Row) /\ \A i \in DOMAIN feed : \E k \in DOMAIN rows : rows[k].event = feed[i].event
  BY CanonicalCounts
<1>2. PICK w : Ranks(w, rows, lost)
  BY CanonicalCounts
<1> HIDE DEF rows
<1>3. \A k \in DOMAIN rows : w[k] \in DOMAIN feed /\ rows[k] = feed[w[k]]
  <2>1. DOMAIN rows = 1..Len(rows)
    BY <1>1
  <2>2. \A k \in 1..Len(rows) : w[k] \in Counting(lost) /\ rows[k] = feed[w[k]]
    BY <1>2 DEF Ranks, Bijection, Injection
  <2>3. Counting(lost) \subseteq DOMAIN feed
    BY DEF Counting
  <2> QED BY <2>1, <2>2, <2>3
<1>4. Concluded(e, rows) => Concluded(e, feed)
  BY <1>3 DEF Concluded
<1>5. Concluded(e, feed) => Concluded(e, rows)
  BY <1>1 DEF Concluded
<1> QED BY <1>4, <1>5 DEF rows

\* Two sets that a function takes one to one have as many elements.
LEMMA SameCount ==
  ASSUME NEW S, NEW T, IsFiniteSet(S), NEW f \in [S -> T],
         \A x, y \in S : f[x] = f[y] => x = y, \A z \in T : \E x \in S : f[x] = z
  PROVE  IsFiniteSet(T) /\ Cardinality(T) = Cardinality(S)
<1>1. f \in Bijection(S, T)
  BY DEF Bijection, Injection, IsInjective, Surjection
<1>2. ExistsBijection(S, T)
  BY <1>1 DEF ExistsBijection
<1> QED BY <1>2, FS_Bijection

\* Sets without a common element add up.
LEMMA Adds ==
  ASSUME NEW S, NEW T, IsFiniteSet(S), IsFiniteSet(T), S \cap T = {}
  PROVE  IsFiniteSet(S \cup T) /\ Cardinality(S \cup T) = Cardinality(S) + Cardinality(T)
<1>1. Cardinality(S) \in Nat /\ Cardinality(T) \in Nat /\ Cardinality(S \cap T) = 0
  BY FS_CardinalityType, FS_EmptySet
<1>2. /\ IsFiniteSet(S \cup T)
      /\ Cardinality(S \cup T) = Cardinality(S) + Cardinality(T) - Cardinality(S \cap T)
  BY FS_Union
<1>3. \A a, b, c \in Nat : c = 0 => a + b - c = a + b
  OBVIOUS
<1> QED BY <1>1, <1>2, <1>3

LEMMA CountType ==
  ASSUME NEW s \in Seq(Events), NEW e
  PROVE  IsFiniteSet(At(s, e)) /\ Count(s, e) \in Nat
<1>1. IsFiniteSet(1..Len(s)) /\ At(s, e) \subseteq 1..Len(s)
  BY FS_Interval DEF At
<1> QED BY <1>1, FS_Subset, FS_CardinalityType DEF Count

\* One list after another.
LEMMA CountJoined ==
  ASSUME NEW s \in Seq(Events), NEW t \in Seq(Events), NEW e
  PROVE  s \o t \in Seq(Events) /\ Count(s \o t, e) = Count(s, e) + Count(t, e)
<1> DEFINE m == Len(s)
           n == Len(t)
           st == s \o t
           moved == {m + k : k \in At(t, e)}
<1>1. /\ m \in Nat /\ DOMAIN s = 1..m
      /\ n \in Nat /\ DOMAIN t = 1..n
  OBVIOUS
<1>2. /\ st \in Seq(Events) /\ DOMAIN st = 1..m + n
      /\ \A k \in 1..m : st[k] = s[k]
      /\ \A k \in 1..n : st[m + k] = t[k]
  BY <1>1
<1>3. /\ \A k \in 1..m : k \in 1..m + n
      /\ \A k \in 1..n : m + k \in 1..m + n /\ m + k \notin 1..m
      /\ \A k \in 1..m + n : k \in 1..m \/ (k - m \in 1..n /\ k = m + (k - m))
  BY <1>1
<1>4. \A k, l \in 1..n : m + k = m + l => k = l
  BY <1>1
<1> HIDE DEF m, n, st
<1>5. At(s, e) \subseteq 1..m /\ At(t, e) \subseteq 1..n
  BY <1>1 DEF At
<1>6. At(st, e) = At(s, e) \cup moved
  <2>1. ASSUME NEW k \in At(st, e) PROVE k \in At(s, e) \cup moved
    <3>1. k \in 1..m + n /\ st[k] = e
      BY <1>2 DEF At
    <3>2. CASE k \in 1..m
      BY <1>1, <1>2, <3>1, <3>2 DEF At
    <3>3. CASE k - m \in 1..n /\ k = m + (k - m)
      <4>1. t[k - m] = e
        BY <1>2, <3>1, <3>3
      <4>2. k - m \in At(t, e)
        BY <1>1, <3>3, <4>1 DEF At
      <4> QED BY <3>3, <4>2
    <3> QED BY <1>3, <3>1, <3>2, <3>3
  <2>2. At(s, e) \subseteq At(st, e)
    BY <1>1, <1>2, <1>3 DEF At
  <2>3. moved \subseteq At(st, e)
    BY <1>1, <1>2, <1>3 DEF At
  <2> QED BY <2>1, <2>2, <2>3
<1>7. IsFiniteSet(moved) /\ Cardinality(moved) = Count(t, e)
  <2> DEFINE f == [k \in At(t, e) |-> m + k]
  <2>1. f \in [At(t, e) -> moved] /\ \A z \in moved : \E k \in At(t, e) : f[k] = z
    OBVIOUS
  <2>2. \A k, l \in At(t, e) : f[k] = f[l] => k = l
    BY <1>4, <1>5
  <2> HIDE DEF f, moved
  <2>3. IsFiniteSet(At(t, e))
    BY CountType
  <2> QED BY <2>1, <2>2, <2>3, SameCount DEF Count
<1>8. At(s, e) \cap moved = {}
  BY <1>3, <1>5
<1>9. IsFiniteSet(At(s, e))
  BY CountType
<1> HIDE DEF moved
<1>10. Cardinality(At(st, e)) = Cardinality(At(s, e)) + Cardinality(moved)
  BY <1>6, <1>7, <1>8, <1>9, Adds
<1> QED BY <1>2, <1>7, <1>10 DEF Count, st

\* Pages list an event as often as their three lists do together.
LEMMA ListingsCount ==
  ASSUME NEW lists, NEW e, DOMAIN lists = {"past", "present", "future"},
         \A part \in DOMAIN lists : lists[part] \in Seq(Events)
  PROVE  Cardinality(Listings(lists, e))
           = Count(lists["past"], e) + (Count(lists["present"], e) + Count(lists["future"], e))
<1> DEFINE tagged(part) == {<<part, k>> : k \in At(lists[part], e)}
<1>1. ASSUME NEW part \in DOMAIN lists
      PROVE  IsFiniteSet(tagged(part)) /\ Cardinality(tagged(part)) = Count(lists[part], e)
  <2> DEFINE S == At(lists[part], e)
             T == tagged(part)
             f == [k \in S |-> <<part, k>>]
  <2>1. f \in [S -> T] /\ \A z \in T : \E k \in S : f[k] = z
    OBVIOUS
  <2>2. \A k, l \in S : f[k] = f[l] => k = l
    OBVIOUS
  <2>3. IsFiniteSet(S)
    BY CountType
  <2> HIDE DEF f, S, T
  <2>4. IsFiniteSet(T) /\ Cardinality(T) = Cardinality(S)
    BY <2>1, <2>2, <2>3, SameCount
  <2> QED BY <2>4 DEF S, T, Count
<1>2. Listings(lists, e) = tagged("past") \cup (tagged("present") \cup tagged("future"))
  BY DEF Listings, At
<1>3. /\ tagged("present") \cap tagged("future") = {}
      /\ tagged("past") \cap (tagged("present") \cup tagged("future")) = {}
  OBVIOUS
<1> HIDE DEF tagged
<1>4. /\ IsFiniteSet(tagged("present") \cup tagged("future"))
      /\ Cardinality(tagged("present") \cup tagged("future"))
           = Cardinality(tagged("present")) + Cardinality(tagged("future"))
  BY <1>1, <1>3, Adds
<1>5. Cardinality(Listings(lists, e))
        = Cardinality(tagged("past")) + Cardinality(tagged("present") \cup tagged("future"))
  BY <1>1, <1>2, <1>3, <1>4, Adds
<1> QED BY <1>1, <1>4, <1>5

\* The registrations found to be in a phase, of one event.
Found(found, phase, e) == {k \in DOMAIN found : found[k] = phase /\ registered[k].event = e}

LEMMA InPhaseCount ==
  ASSUME FeedsInv, NEW found, DOMAIN found \subseteq DOMAIN registered, NEW phase
  PROVE  /\ InPhase(found, phase) \in Seq(Events)
         /\ \A e : Count(InPhase(found, phase), e) = Cardinality(Found(found, phase, e))
<1> DEFINE K == {k \in DOMAIN found : found[k] = phase}
           picked == Picked(registered, K)
           there == InPhase(found, phase)
<1>1. registered \in Seq(Registration) /\ DOMAIN registered = 1..Len(registered)
  BY DEF FeedsInv
<1>2. there = [k \in DOMAIN picked |-> picked[k].event]
  BY DEF InPhase, EventsOf
<1>3. \A e : {k \in 1..Len(registered) : k \in K /\ registered[k].event = e} = Found(found, phase, e)
  BY <1>1 DEF Found
<1> HIDE DEF K
<1>4. PickedSoFar(picked, registered, K, Len(registered))
  BY <1>1, TakenOnce
<1> HIDE DEF picked, there
<1>5. picked \in Seq(Registration) /\ DOMAIN picked = 1..Len(picked) /\ Len(picked) \in Nat
  BY <1>4 DEF PickedSoFar
<1>6. \A k \in DOMAIN picked : picked[k].event \in Events
  <2>1. \A k \in DOMAIN picked : picked[k] \in Registration
    BY <1>5
  <2> QED BY <2>1 DEF Registration
<1>7. there \in Seq(Events)
  <2>1. there \in [1..Len(picked) -> Events]
    BY <1>2, <1>5, <1>6
  <2> QED BY <1>5, <2>1
<1>8. \A e : At(there, e) = {k \in DOMAIN picked : picked[k].event = e}
  BY <1>2 DEF At
<1>9. \A e : Count(there, e) = Cardinality(Found(found, phase, e))
  BY <1>3, <1>4, <1>8 DEF Count, PickedSoFar
<1> QED BY <1>7, <1>9 DEF there

\* Every registration found is found to be in one phase.
LEMMA FoundInPhases ==
  ASSUME FeedsInv, NEW known, known \subseteq DOMAIN registered, NEW found \in [known -> Phases], NEW e
  PROVE  Cardinality({k \in known : registered[k].event = e})
           = Cardinality(Found(found, "over", e))
               + (Cardinality(Found(found, "running", e)) + Cardinality(Found(found, "ahead", e)))
<1> DEFINE S == {k \in known : registered[k].event = e}
           A == Found(found, "over", e)
           B == Found(found, "running", e)
           C == Found(found, "ahead", e)
<1>1. \A k \in known : found[k] = "over" \/ found[k] = "running" \/ found[k] = "ahead"
  BY DEF Phases
<1>2. S = A \cup (B \cup C)
  BY <1>1 DEF Found
<1>3. B \cap C = {} /\ A \cap (B \cup C) = {}
  BY DEF Found
<1>4. IsFiniteSet(A) /\ IsFiniteSet(B) /\ IsFiniteSet(C)
  <2>1. registered \in Seq(Registration)
    BY DEF FeedsInv
  <2>2. IsFiniteSet(1..Len(registered)) /\ DOMAIN registered = 1..Len(registered)
    BY <2>1, FS_Interval
  <2>3. A \subseteq DOMAIN registered /\ B \subseteq DOMAIN registered /\ C \subseteq DOMAIN registered
    BY DEF Found
  <2> HIDE DEF A, B, C
  <2> QED BY <2>2, <2>3, FS_Subset
<1> HIDE DEF A, B, C, S
<1>5. IsFiniteSet(B \cup C) /\ Cardinality(B \cup C) = Cardinality(B) + Cardinality(C)
  BY <1>3, <1>4, Adds
<1>6. Cardinality(S) = Cardinality(A) + Cardinality(B \cup C)
  BY <1>2, <1>3, <1>4, <1>5, Adds
<1> QED BY <1>5, <1>6 DEF A, B, C, S

\* The rows list an event that is concluded once.
LEMMA ConcludedCount ==
  ASSUME NEW rows \in Seq(Row), \A k, l \in DOMAIN rows : rows[k].event = rows[l].event => k = l,
         NEW e
  PROVE  /\ EventsOf(rows) \in Seq(Events)
         /\ Count(EventsOf(rows), e) = IF Concluded(e, rows) THEN 1 ELSE 0
<1> DEFINE S == {k \in DOMAIN rows : rows[k].event = e}
<1>1. DOMAIN rows = 1..Len(rows) /\ Len(rows) \in Nat /\ \A k \in DOMAIN rows : rows[k] \in Row
  OBVIOUS
<1>2. EventsOf(rows) \in [1..Len(rows) -> Events]
  BY <1>1 DEF EventsOf, Row
<1>3. EventsOf(rows) \in Seq(Events)
  BY <1>1, <1>2
<1>4. At(EventsOf(rows), e) = S
  BY DEF At, EventsOf
<1>5. Concluded(e, rows) => \E k : S = {k}
  BY DEF Concluded
<1>6. ~Concluded(e, rows) => S = {}
  BY DEF Concluded
<1> HIDE DEF S
<1> QED BY <1>3, <1>4, <1>5, <1>6, FS_Singleton, FS_EmptySet DEF Count

LEMMA ListedWhenHeld == PagesInv => ListedByFeeds
<1> SUFFICES ASSUME PagesInv, NEW p \in With("lists"), NEW e \in Events
             PROVE  Cardinality(Listings(page[p].shown, e))
                      = IF Concluded(e, feed) THEN 1 ELSE Cardinality(Standing(p, e))
  BY DEF ListedByFeeds
<1> DEFINE known == page[p].known
           theirs == {k \in known : registered[k].event = e}
<1>1. ListsHold(p)
  BY DEF PagesInv, PageHolds, With
<1>2. PICK lost \in SUBSET Flagship, found \in [known -> Phases] :
        /\ known \subseteq Pending(Canonical(Leagues \ lost))
        /\ page[p].shown = Lists(Canonical(Leagues \ lost), found)
  BY <1>1 DEF ListsHold
<1> DEFINE rows == Canonical(Leagues \ lost)
           over == InPhase(found, "over")
           running == InPhase(found, "running")
           ahead == InPhase(found, "ahead")
           past == EventsOf(rows) \o over
           lists == Lists(rows, found)
<1>3. FeedsInv /\ feed \in Seq(Row)
  BY DEF PagesInv, FeedsInv
<1>4. /\ rows \in Seq(Row)
      /\ \A k, l \in DOMAIN rows : rows[k].event = rows[l].event => k = l
      /\ Concluded(e, rows) <=> Concluded(e, feed)
  BY <1>3, CanonicalCounts, ConcludedAlike
<1>5. known \subseteq Pending(rows) /\ page[p].shown = lists /\ DOMAIN found = known
  BY <1>2
<1> HIDE DEF rows
<1>6. /\ known \subseteq DOMAIN registered
      /\ \A k \in known : ~registered[k].dropped /\ ~Concluded(registered[k].event, rows)
  BY <1>5 DEF Pending
<1>7. theirs = Standing(p, e)
  <2>1. \A k \in known : registered[k] \in Registration
    BY <1>3, <1>6 DEF FeedsInv
  <2>2. ASSUME NEW r \in Registration, ~r.dropped
        PROVE  r.event = e <=> r = [event |-> e, dropped |-> FALSE]
    BY <2>2 DEF Registration
  <2>3. \A k \in known : registered[k].event = e <=> registered[k] = [event |-> e, dropped |-> FALSE]
    BY <1>6, <2>1, <2>2
  <2> QED BY <2>3 DEF Standing
<1>8. /\ over \in Seq(Events) /\ Count(over, e) = Cardinality(Found(found, "over", e))
      /\ running \in Seq(Events) /\ Count(running, e) = Cardinality(Found(found, "running", e))
      /\ ahead \in Seq(Events) /\ Count(ahead, e) = Cardinality(Found(found, "ahead", e))
  BY <1>3, <1>5, <1>6, InPhaseCount
<1>9. Cardinality(theirs) = Count(over, e) + (Count(running, e) + Count(ahead, e))
  <2>1. found \in [known -> Phases]
    BY <1>2
  <2> HIDE DEF known, over, running, ahead
  <2>2. Cardinality(theirs)
          = Cardinality(Found(found, "over", e))
              + (Cardinality(Found(found, "running", e)) + Cardinality(Found(found, "ahead", e)))
    BY <1>3, <1>6, <2>1, FoundInPhases
  <2> QED BY <1>8, <2>2
<1>10. /\ EventsOf(rows) \in Seq(Events)
       /\ Count(EventsOf(rows), e) = IF Concluded(e, rows) THEN 1 ELSE 0
  BY <1>4, ConcludedCount
<1> HIDE DEF over, running, ahead
<1>11. past \in Seq(Events) /\ Count(past, e) = Count(EventsOf(rows), e) + Count(over, e)
  BY <1>8, <1>10, CountJoined
<1>12. /\ DOMAIN lists = {"past", "present", "future"}
       /\ lists["past"] = past /\ lists["present"] = running /\ lists["future"] = ahead
  BY DEF Lists, over, running, ahead
<1> HIDE DEF lists, past
<1>13. Cardinality(Listings(lists, e)) = Count(past, e) + (Count(running, e) + Count(ahead, e))
  <2>1. \A part \in DOMAIN lists : lists[part] \in Seq(Events)
    BY <1>8, <1>11, <1>12
  <2> QED BY <1>12, <2>1, ListingsCount
<1>14. Count(over, e) \in Nat /\ Count(running, e) \in Nat /\ Count(ahead, e) \in Nat
  BY <1>8, CountType
<1>15. CASE Concluded(e, feed)
  <2>1. theirs = {}
    BY <1>4, <1>6, <1>15
  <2>2. Cardinality(theirs) = 0
    BY <2>1, FS_EmptySet
  <2> HIDE DEF theirs
  <2> QED BY <1>4, <1>5, <1>9, <1>10, <1>11, <1>13, <1>14, <1>15, <2>2
<1>16. CASE ~Concluded(e, feed)
  <2> HIDE DEF theirs
  <2> QED BY <1>4, <1>5, <1>7, <1>9, <1>10, <1>11, <1>13, <1>14, <1>16
<1> QED BY <1>15, <1>16

\* My Events lists an event with a placing once, however often it is signed up
\* for, and any other once for each registration that stands and could be looked
\* up, for any feeds of whatever different times.
THEOREM AlwaysListedByFeeds == PagesSpec => []ListedByFeeds
BY PagesAlwaysHold, ListedWhenHeld, PTL
=============================================================================
