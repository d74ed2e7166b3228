--------------------------- MODULE BcpCacheProofs ---------------------------
(***************************************************************************)
(* Safety of BcpCache, for every number of keys, callers and background    *)
(* goroutines, every capacity and every choice of the lifetimes.           *)
(***************************************************************************)
EXTENDS BcpCache, FiniteSetTheorems, TLAPS

(* Maps. *)

LEMMA WithoutValues ==
  ASSUME NEW m, NEW T
  PROVE  /\ DOMAIN Without(m, T) = DOMAIN m \ T
         /\ \A x \in DOMAIN m \ T : Without(m, T)[x] = m[x]
  BY DEF Without, Restrict

LEMMA MapWith ==
  ASSUME NEW D, NEW S, NEW m, IsMap(m, D, S), NEW k \in D, NEW v \in S
  PROVE  IsMap(With(m, k, v), D, S)
<1> DEFINE w == [x \in DOMAIN m \cup {k} |-> IF x = k THEN v ELSE m[x]]
<1>1. \A x \in DOMAIN m \cup {k} : (IF x = k THEN v ELSE m[x]) \in S
  BY DEF IsMap
<1>2. w \in [DOMAIN m \cup {k} -> S]
  BY <1>1
<1>3. DOMAIN w = DOMAIN m \cup {k}
  OBVIOUS
<1> QED BY <1>2, <1>3 DEF With, IsMap

LEMMA MapRestrict ==
  ASSUME NEW D, NEW S, NEW m, IsMap(m, D, S), NEW T \in SUBSET DOMAIN m
  PROVE  /\ IsMap(Restrict(m, T), D, S)
         /\ DOMAIN Restrict(m, T) = T
         /\ \A x \in T : Restrict(m, T)[x] = m[x]
  BY DEF IsMap, Restrict

LEMMA MapWithout ==
  ASSUME NEW D, NEW S, NEW m, IsMap(m, D, S), NEW T
  PROVE  IsMap(Without(m, T), D, S)
<1>1. DOMAIN m \ T \in SUBSET DOMAIN m
  OBVIOUS
<1> QED BY <1>1, MapRestrict DEF Without

(* Evictions. *)

LEMMA SurvivorsSubset ==
  ASSUME NEW m, NEW S \in Survivors(m)
  PROVE  S \in SUBSET DOMAIN m
  BY DEF Survivors

\* What an eviction leaves is part of what it was given.
LEMMA EvictEntriesShrinks ==
  ASSUME NEW es, NEW gs, IsMap(es, Keys, Entry), IsMap(gs, Keys, Marker), EvictEntries(es, gs)
  PROVE  /\ IsMap(entries', Keys, Entry) /\ IsMap(gone', Keys, Marker)
         /\ DOMAIN entries' \in Survivors(es)
         /\ DOMAIN entries' \subseteq DOMAIN es /\ DOMAIN gone' \subseteq DOMAIN gs
         /\ \A k \in DOMAIN entries' : entries'[k] = es[k]
         /\ \A k \in DOMAIN gone' : gone'[k] = gs[k]
<1>1. PICK S \in Survivors(es) : entries' = Restrict(es, S)
  BY DEF EvictEntries
<1>2. S \in SUBSET DOMAIN es
  BY SurvivorsSubset
<1>3. /\ IsMap(entries', Keys, Entry) /\ DOMAIN entries' = S
      /\ \A k \in S : entries'[k] = es[k]
  BY <1>1, <1>2, MapRestrict
<1>4. /\ IsMap(gone', Keys, Marker) /\ DOMAIN gone' \subseteq DOMAIN gs
      /\ \A k \in DOMAIN gone' : gone'[k] = gs[k]
  <2> DEFINE T == {k \in DOMAIN gs : Live(gs, k)}
  <2>1. T \in SUBSET DOMAIN gs
    OBVIOUS
  <2>2. gone' = gs \/ gone' = Restrict(gs, T)
    BY DEF EvictEntries
  <2> HIDE DEF T
  <2> QED BY <2>1, <2>2, MapRestrict
<1> QED BY <1>2, <1>3, <1>4

LEMMA EvictGoneShrinks ==
  ASSUME TypeOK, NEW gs, IsMap(gs, Keys, Marker), EvictGone(gs)
  PROVE  /\ IsMap(gone', Keys, Marker)
         /\ DOMAIN gone' \in Survivors(gs)
         /\ DOMAIN gone' \subseteq DOMAIN gs
         /\ \A k \in DOMAIN gone' : gone'[k] = gs[k]
         /\ UNCHANGED entries
<1>1. PICK S \in Survivors(gs) : gone' = Restrict(gs, S)
  BY DEF EvictGone
<1>2. S \in SUBSET DOMAIN gs
  BY SurvivorsSubset
<1>3. /\ IsMap(gone', Keys, Marker) /\ DOMAIN gone' = S
      /\ \A k \in S : gone'[k] = gs[k]
  BY <1>1, <1>2, MapRestrict
<1> QED BY <1>2, <1>3 DEF EvictGone

(* Storing and marking, the two things that grow the maps. *)

\* A value stored for k is the only new entry, and k keeps no marker.
LEMMA StoreEffect ==
  ASSUME TypeOK, NEW k \in Keys, NEW truth \in Age, NEW age \in Age, Store(k, truth, age)
  PROVE  /\ IsMap(entries', Keys, Entry) /\ IsMap(gone', Keys, Marker)
         /\ DOMAIN entries' \subseteq DOMAIN entries \cup {k}
         /\ DOMAIN gone' \subseteq DOMAIN gone \ {k}
         /\ \A x \in DOMAIN entries' \ {k} : entries'[x] = entries[x]
         /\ k \in DOMAIN entries' => entries'[k].truth = truth /\ entries'[k].age = age
         /\ \A x \in DOMAIN gone' : gone'[x] = gone[x]
         /\ \E es : DOMAIN entries' \in Survivors(es)
<1>1. PICK ttl \in Ttls :
        EvictEntries(With(entries, k, [truth |-> truth, age |-> age, ttl |-> ttl]),
                     Without(gone, {k}))
  BY DEF Store
<1> DEFINE e == [truth |-> truth, age |-> age, ttl |-> ttl]
           es == With(entries, k, e)
           gs == Without(gone, {k})
<1>2. e \in Entry
  BY DEF Entry
<1>3. /\ IsMap(es, Keys, Entry) /\ DOMAIN es = DOMAIN entries \cup {k}
      /\ es[k] = e /\ \A x \in DOMAIN entries \ {k} : es[x] = entries[x]
  <2>1. IsMap(entries, Keys, Entry)
    BY DEF TypeOK
  <2> HIDE DEF e
  <2>2. IsMap(es, Keys, Entry)
    BY <1>2, <2>1, MapWith
  <2> QED BY <2>2 DEF With
<1>4. /\ IsMap(gs, Keys, Marker) /\ DOMAIN gs = DOMAIN gone \ {k}
      /\ \A x \in DOMAIN gone \ {k} : gs[x] = gone[x]
  <2>1. IsMap(gone, Keys, Marker)
    BY DEF TypeOK
  <2> QED BY <2>1, MapWithout, WithoutValues
<1>5. EvictEntries(es, gs)
  BY <1>1
<1>6. e.truth = truth /\ e.age = age
  OBVIOUS
<1> HIDE DEF e, es, gs
<1>7. /\ IsMap(entries', Keys, Entry) /\ IsMap(gone', Keys, Marker)
      /\ DOMAIN entries' \in Survivors(es)
      /\ DOMAIN entries' \subseteq DOMAIN es /\ DOMAIN gone' \subseteq DOMAIN gs
      /\ \A x \in DOMAIN entries' : entries'[x] = es[x]
      /\ \A x \in DOMAIN gone' : gone'[x] = gs[x]
  BY <1>3, <1>4, <1>5, EvictEntriesShrinks
<1> QED BY <1>3, <1>4, <1>6, <1>7

LEMMA NewMarkerType == ASSUME NEW err \in Errors PROVE NewMarker(err) \in Marker
  BY TimesAssumption DEF NewMarker, Marker, Age, Errors

\* A failure recorded for k is the only new marker, and it is new.
LEMMA MarkGoneEffect ==
  ASSUME TypeOK, NEW k \in Keys, NEW err \in Errors, MarkGone(k, err)
  PROVE  /\ IsMap(gone', Keys, Marker) /\ UNCHANGED entries
         /\ DOMAIN gone' \subseteq DOMAIN gone \cup {k}
         /\ \A x \in DOMAIN gone' \ {k} : gone'[x] = gone[x]
         /\ k \in DOMAIN gone' => gone'[k].age = 0
         /\ \E gs : DOMAIN gone' \in Survivors(gs)
<1> DEFINE gs == With(gone, k, NewMarker(err))
<1>1. /\ IsMap(gs, Keys, Marker) /\ DOMAIN gs = DOMAIN gone \cup {k}
      /\ gs[k] = NewMarker(err) /\ \A x \in DOMAIN gone \ {k} : gs[x] = gone[x]
  <2>1. IsMap(gone, Keys, Marker)
    BY DEF TypeOK
  <2>2. IsMap(gs, Keys, Marker)
    BY <2>1, NewMarkerType, MapWith
  <2> QED BY <2>2 DEF With
<1>2. EvictGone(gs)
  BY DEF MarkGone
<1>3. NewMarker(err).age = 0
  BY DEF NewMarker
<1> HIDE DEF gs
<1>4. /\ IsMap(gone', Keys, Marker) /\ DOMAIN gone' \in Survivors(gs)
      /\ DOMAIN gone' \subseteq DOMAIN gs /\ UNCHANGED entries
      /\ \A x \in DOMAIN gone' : gone'[x] = gs[x]
  BY <1>1, <1>2, EvictGoneShrinks
<1> QED BY <1>1, <1>3, <1>4

----------------------------------------------------------------------------
(* Type correctness. *)

LEMMA Olden == ASSUME NEW a \in Age PROVE Older(a) \in Age /\ Older(a) =< a + 1 /\ a =< Older(a)
  BY TimesAssumption DEF Age, Older

LEMMA EntryFields ==
  ASSUME TypeOK, NEW k \in DOMAIN entries
  PROVE  k \in Keys /\ entries[k] \in Entry /\ entries[k].truth \in Age /\ entries[k].age \in Age
         /\ entries[k].ttl \in Ttls
  BY DEF TypeOK, IsMap, Entry

LEMMA MarkerFields ==
  ASSUME TypeOK, NEW k \in DOMAIN gone
  PROVE  k \in Keys /\ gone[k] \in Marker /\ gone[k].err \in Errors /\ gone[k].age \in Age
  BY DEF TypeOK, IsMap, Marker

\* What a goroutine in runFetch holds.
LEMMA RunFields ==
  ASSUME NEW s \in Run
  PROVE  /\ s.pc \in {"idle", "upstream", "landing", "closing"}
         /\ s.pc \in {"upstream", "landing"} => s.key \in Keys /\ s.age \in Age
         /\ s.pc = "landing" => s.out \in Outcome
         /\ s.pc = "closing" => s.result \in Result
  BY DEF Run

LEMMA OutcomeFields ==
  ASSUME NEW out \in Outcome
  PROVE  /\ out.kind \in Errors \cup {"live", "row"}
         /\ out.kind \notin Errors => out.truth \in Age /\ out.age \in Age
  BY DEF Outcome, Errors

LEMMA ResultType == ASSUME NEW out \in Outcome PROVE ResultOf(out) \in Result
  BY OutcomeFields DEF ResultOf, Result, Errors

LEMMA ResultFields ==
  ASSUME NEW x \in Result
  PROVE  /\ x \in Returned /\ x # Silent /\ x.kind \in Errors \cup {"data"}
         /\ x.kind = "data" => x.truth \in Age
  BY DEF Result, Returned, Silent, Errors

\* One goroutine moves to another state of its fetch.
LEMMA RunMoves ==
  ASSUME TypeOK, NEW r \in Runners, NEW s \in Run, run' = [run EXCEPT ![r] = s]
  PROVE  /\ run' \in [Runners -> Run]
         /\ run'[r] = s /\ \A x \in Runners \ {r} : run'[x] = run[x]
  BY DEF TypeOK

LEMMA StartFetchEffect ==
  ASSUME TypeOK, NEW r \in Runners, NEW k \in Keys, StartFetch(r, k)
  PROVE  /\ IsMap(inFlight', Keys, Runners) /\ run' \in [Runners -> Run]
         /\ DOMAIN inFlight' = DOMAIN inFlight \cup {k} /\ inFlight'[k] = r
         /\ \A x \in DOMAIN inFlight \ {k} : inFlight'[x] = inFlight[x]
         /\ run'[r] = [pc |-> "upstream", key |-> k, age |-> 0]
         /\ \A x \in Runners \ {r} : run'[x] = run[x]
<1>1. IsMap(inFlight, Keys, Runners)
  BY DEF TypeOK
<1>2. inFlight' = With(inFlight, k, r)
  BY DEF StartFetch
<1>3. IsMap(inFlight', Keys, Runners)
  BY <1>1, <1>2, MapWith
<1>4. /\ DOMAIN inFlight' = DOMAIN inFlight \cup {k} /\ inFlight'[k] = r
      /\ \A x \in DOMAIN inFlight \ {k} : inFlight'[x] = inFlight[x]
  BY <1>2 DEF With
<1>5. [pc |-> "upstream", key |-> k, age |-> 0] \in Run
  BY TimesAssumption DEF Run, Age
<1>6. /\ run' \in [Runners -> Run]
      /\ run'[r] = [pc |-> "upstream", key |-> k, age |-> 0]
      /\ \A x \in Runners \ {r} : run'[x] = run[x]
  BY <1>5, RunMoves DEF StartFetch
<1> QED BY <1>3, <1>4, <1>6

\* The record of x's last answer, its marker or else its entry, is not evicted.
StillRecorded(x) ==
  /\ x \in DOMAIN gone => x \in DOMAIN gone'
  /\ x \in DOMAIN entries \ DOMAIN gone => x \in DOMAIN entries'

\* The history keeps the keys whose last answer is still recorded, and k's if
\* BCP gave it one that was.
LEMMA NoteBcpEffect ==
  ASSUME TypeOK, NEW k \in Keys, NEW out, NoteBcp(k, out),
         out.kind = "live" => out.age \in Age
  PROVE  /\ IsMap(sinceBcp', Keys, Age)
         /\ \A x \in DOMAIN sinceBcp' \ {k} :
              /\ x \in DOMAIN sinceBcp /\ sinceBcp'[x] = sinceBcp[x]
              /\ StillRecorded(x)
         /\ k \in DOMAIN sinceBcp' =>
              /\ out.kind # "row"
              /\ sinceBcp'[k] = IF out.kind = "live" THEN out.age ELSE 0
              /\ k \in IF out.kind \in Errors THEN DOMAIN gone' ELSE DOMAIN entries'
<1> DEFINE since == IF out.kind = "live" THEN out.age ELSE 0
           evicted == (DOMAIN gone \ DOMAIN gone')
                        \cup ((DOMAIN entries \ DOMAIN gone) \ DOMAIN entries')
           recorded == k \in IF out.kind \in Errors THEN DOMAIN gone' ELSE DOMAIN entries'
           others == Without(sinceBcp, evicted \cup {k})
<1>1. IsMap(sinceBcp, Keys, Age) /\ since \in Age
  BY TimesAssumption DEF TypeOK, Age
<1>2. /\ IsMap(others, Keys, Age)
      /\ DOMAIN others = DOMAIN sinceBcp \ (evicted \cup {k})
      /\ \A x \in DOMAIN others : others[x] = sinceBcp[x]
  <2> HIDE DEF evicted, since
  <2>1. IsMap(others, Keys, Age)
    BY <1>1, MapWithout
  <2>2. /\ DOMAIN others = DOMAIN sinceBcp \ (evicted \cup {k})
        /\ \A x \in DOMAIN sinceBcp \ (evicted \cup {k}) : others[x] = sinceBcp[x]
    BY WithoutValues
  <2> HIDE DEF others
  <2> QED BY <2>1, <2>2
<1>3. sinceBcp' = IF out.kind = "row" \/ ~recorded THEN others ELSE With(others, k, since)
  BY DEF NoteBcp
<1>4. \A x \in DOMAIN others : x \in DOMAIN sinceBcp /\ StillRecorded(x)
  BY <1>2 DEF StillRecorded
<1>9. k \notin DOMAIN others
  BY <1>2
<1> HIDE DEF since, evicted, recorded, others
<1>5. /\ IsMap(With(others, k, since), Keys, Age)
      /\ DOMAIN With(others, k, since) = DOMAIN others \cup {k}
      /\ With(others, k, since)[k] = since
      /\ \A x \in DOMAIN others \ {k} : With(others, k, since)[x] = others[x]
  <2>1. IsMap(With(others, k, since), Keys, Age)
    BY <1>1, <1>2, MapWith
  <2> QED BY <2>1 DEF With
<1>6. CASE out.kind = "row" \/ ~recorded
  <2>1. sinceBcp' = others
    BY <1>3, <1>6
  <2>2. \A x \in DOMAIN sinceBcp' : sinceBcp'[x] = sinceBcp[x]
    BY <1>2, <2>1
  <2>3. k \notin DOMAIN sinceBcp'
    BY <1>9, <2>1
  <2>4. \A x \in DOMAIN sinceBcp' : x \in DOMAIN sinceBcp /\ StillRecorded(x)
    BY <1>4, <2>1
  <2>5. IsMap(sinceBcp', Keys, Age)
    BY <1>2, <2>1
  <2> QED BY <2>2, <2>3, <2>4, <2>5
<1>7. CASE out.kind # "row" /\ recorded
  <2>1. sinceBcp' = With(others, k, since)
    BY <1>3, <1>7
  <2>2. \A x \in DOMAIN sinceBcp' \ {k} : x \in DOMAIN others /\ sinceBcp'[x] = others[x]
    BY <1>5, <2>1
  <2>3. \A x \in DOMAIN sinceBcp' \ {k} :
          /\ x \in DOMAIN sinceBcp /\ sinceBcp'[x] = sinceBcp[x]
          /\ StillRecorded(x)
    BY <1>2, <1>4, <2>2
  <2>4. IsMap(sinceBcp', Keys, Age) /\ sinceBcp'[k] = since
    BY <1>5, <2>1
  <2>5. /\ out.kind # "row" /\ sinceBcp'[k] = IF out.kind = "live" THEN out.age ELSE 0
        /\ k \in IF out.kind \in Errors THEN DOMAIN gone' ELSE DOMAIN entries'
    BY <1>7, <2>4 DEF since, recorded
  <2> QED BY <2>3, <2>4, <2>5
<1> QED BY <1>6, <1>7

LEMMA RespondEffect ==
  ASSUME TypeOK, NEW r \in Runners, Respond(r)
  PROVE  \E out \in Responses(run[r].age) :
           /\ out \in Outcome
           /\ run' \in [Runners -> Run]
           /\ run'[r] = [pc |-> "landing", key |-> run[r].key, age |-> run[r].age, out |-> out]
           /\ \A x \in Runners \ {r} : run'[x] = run[x]
<1>1. PICK out \in Responses(run[r].age) :
        run' = [run EXCEPT ![r] = [pc |-> "landing", key |-> run[r].key,
                                   age |-> run[r].age, out |-> out]]
  BY DEF Respond
<1>3. run[r] \in Run /\ run[r].pc = "upstream"
  BY DEF TypeOK, Respond
<1>2. out \in Outcome
  <2>1. run[r].age \in Age
    BY <1>3, RunFields
  <2> QED BY <2>1, TimesAssumption DEF Responses, RowTruths, Outcome, Age
<1>4. [pc |-> "landing", key |-> run[r].key, age |-> run[r].age, out |-> out] \in Run
  BY <1>2, <1>3, RunFields DEF Run
<1>5. /\ run' \in [Runners -> Run]
      /\ run'[r] = [pc |-> "landing", key |-> run[r].key, age |-> run[r].age, out |-> out]
      /\ \A x \in Runners \ {r} : run'[x] = run[x]
  BY <1>1, <1>4, RunMoves
<1> QED BY <1>2, <1>5

LEMMA LandMoves ==
  ASSUME TypeOK, NEW r \in Runners, Land(r)
  PROVE  /\ run[r] \in Run /\ run[r].pc = "landing"
         /\ run[r].key \in Keys /\ run[r].age \in Age /\ run[r].out \in Outcome
         /\ run' \in [Runners -> Run]
         /\ run'[r].pc = "closing" /\ run'[r].result = ResultOf(run[r].out)
         /\ \A x \in Runners \ {r} : run'[x] = run[x]
<1> DEFINE s == [pc |-> "closing", result |-> ResultOf(run[r].out)]
<1>1. run[r] \in Run /\ run[r].pc = "landing"
  BY DEF TypeOK, Land
<1>2. run[r].key \in Keys /\ run[r].age \in Age /\ run[r].out \in Outcome
  BY <1>1, RunFields
<1>3. s \in Run
  BY <1>2, ResultType DEF Run
<1>4. run' = [run EXCEPT ![r] = s]
  BY DEF Land
<1>5. run'[r] = s /\ run' \in [Runners -> Run] /\ \A x \in Runners \ {r} : run'[x] = run[x]
  BY <1>3, <1>4, RunMoves
<1> QED BY <1>1, <1>2, <1>5

LEMMA LandStores ==
  ASSUME TypeOK, NEW r \in Runners, Land(r)
  PROVE  IsMap(entries', Keys, Entry) /\ IsMap(gone', Keys, Marker)
<1> DEFINE k == run[r].key
           out == run[r].out
<1>1. k \in Keys /\ out \in Outcome
  BY LandMoves
<1>2. IsMap(entries, Keys, Entry)
  BY DEF TypeOK
<1>3. \/ out.kind \notin Errors /\ Store(k, out.truth, out.age)
      \/ out.kind \in Errors /\ MarkGone(k, out.kind)
  BY DEF Land, StoreOutcome, Errors
<1>4. out.kind \notin Errors => out.truth \in Age /\ out.age \in Age
  BY <1>1, OutcomeFields
<1> HIDE DEF k, out
<1>5. CASE out.kind \notin Errors /\ Store(k, out.truth, out.age)
  BY <1>1, <1>4, <1>5, StoreEffect
<1>6. CASE out.kind \in Errors /\ MarkGone(k, out.kind)
  BY <1>1, <1>2, <1>6, MarkGoneEffect
<1> QED BY <1>3, <1>5, <1>6

LEMMA CloseMoves ==
  ASSUME TypeOK, NEW r \in Runners, Close(r)
  PROVE  /\ run' \in [Runners -> Run] /\ run'[r] = [pc |-> "idle"]
         /\ \A x \in Runners \ {r} : run'[x] = run[x]
         /\ IsMap(waiting', Callers, Runners)
         /\ DOMAIN waiting' = {c \in DOMAIN waiting : waiting[c] # r}
         /\ \A c \in DOMAIN waiting' : waiting'[c] = waiting[c]
<1>1. run' \in [Runners -> Run] /\ run'[r] = [pc |-> "idle"]
      /\ \A x \in Runners \ {r} : run'[x] = run[x]
  <2>1. [pc |-> "idle"] \in Run
    BY DEF Run
  <2> QED BY <2>1, RunMoves DEF Close
<1>2. IsMap(waiting', Callers, Runners)
  BY MapWithout DEF Close, TypeOK
<1>3. waiting' = Without(waiting, Waiters(r))
  BY DEF Close
<1>4. /\ DOMAIN waiting' = DOMAIN waiting \ Waiters(r)
      /\ \A c \in DOMAIN waiting \ Waiters(r) : waiting'[c] = waiting[c]
  BY <1>3, WithoutValues
<1> QED BY <1>1, <1>2, <1>4 DEF Waiters

\* Time changes no goroutine's place in runFetch, only the ages it holds.
LEMMA TickRun ==
  ASSUME TypeOK, Tick, NEW r \in Runners
  PROVE  /\ run'[r] \in Run /\ run'[r].pc = run[r].pc
         /\ run[r].pc # "idle" => /\ run[r].pc \in {"upstream", "landing"}
                                  /\ run'[r].key = run[r].key
                                  /\ run'[r].age = Older(run[r].age)
                                  /\ run[r].age < FetchTimeout
         /\ run[r].pc = "landing" =>
              /\ run'[r].out.kind = run[r].out.kind
              /\ run[r].out.kind \notin Errors =>
                   /\ run'[r].out.truth = Older(run[r].out.truth)
                   /\ run'[r].out.age = Older(run[r].out.age)
<1>1. run[r] \in Run
  BY DEF TypeOK
<1>2. run'[r] = IF run[r].pc = "idle" THEN run[r]
                ELSE IF run[r].pc = "upstream" \/ run[r].out.kind \in Errors
                  THEN [run[r] EXCEPT !.age = Older(@)]
                ELSE [run[r] EXCEPT !.age = Older(@), !.out.truth = Older(@),
                                    !.out.age = Older(@)]
  BY DEF Tick
<1>3. run[r].pc # "idle" =>
        run[r].pc \in {"upstream", "landing"} /\ run[r].age < FetchTimeout
  BY DEF Tick, Timely
<1>4. CASE run[r].pc = "idle"
  BY <1>1, <1>2, <1>4
<1>5. CASE run[r].pc = "upstream"
  <2>1. run[r] \in [pc : {"upstream"}, key : Keys, age : Age]
    BY <1>1, <1>5 DEF Run
  <2>2. run'[r] = [pc |-> "upstream", key |-> run[r].key, age |-> Older(run[r].age)]
    BY <1>2, <1>5, <2>1
  <2>3. run'[r] \in Run
    BY <2>1, <2>2, Olden DEF Run
  <2> QED BY <1>3, <1>5, <2>2, <2>3
<1>6. CASE run[r].pc = "landing"
  <2>1. run[r] \in [pc : {"landing"}, key : Keys, age : Age, out : Outcome]
    BY <1>1, <1>6 DEF Run
  <2>2. Older(run[r].age) \in Age
    BY <2>1, Olden
  <2>3. CASE run[r].out.kind \in Errors
    <3>1. run'[r] = [pc |-> run[r].pc, key |-> run[r].key, age |-> Older(run[r].age),
                     out |-> run[r].out]
      BY <1>2, <1>6, <2>1, <2>3
    <3>2. run'[r] \in Run
      BY <1>6, <2>1, <2>2, <3>1 DEF Run
    <3> QED BY <1>3, <1>6, <2>3, <3>1, <3>2
  <2>4. CASE run[r].out.kind \notin Errors
    <3> DEFINE older == [run[r].out EXCEPT !.truth = Older(@), !.age = Older(@)]
    <3>1. run[r].out \in [kind : {"live", "row"}, truth : Age, age : Age]
      BY <2>1, <2>4 DEF Outcome
    <3>2. older = [kind |-> run[r].out.kind, truth |-> Older(run[r].out.truth),
                   age |-> Older(run[r].out.age)]
      <4> DEFINE o == run[r].out
                 once == [kind |-> o.kind, truth |-> Older(o.truth), age |-> o.age]
      <4>1. [o EXCEPT !.truth = Older(@)] = once
        BY <3>1
      <4>2. [once EXCEPT !.age = Older(@)]
              = [kind |-> o.kind, truth |-> Older(o.truth), age |-> Older(o.age)]
        OBVIOUS
      <4>3. older = [[o EXCEPT !.truth = Older(@)] EXCEPT !.age = Older(@)]
        BY <3>1
      <4> QED BY <4>1, <4>2, <4>3
    <3>3. run'[r] = [pc |-> run[r].pc, key |-> run[r].key, age |-> Older(run[r].age),
                     out |-> older]
      BY <1>2, <1>6, <2>1, <2>4
    <3>4. older \in Outcome
      BY <3>1, <3>2, Olden DEF Outcome
    <3>5. run'[r] \in Run
      BY <1>6, <2>1, <2>2, <3>2, <3>3, <3>4 DEF Run
    <3>6. /\ run'[r].pc = run[r].pc /\ run'[r].key = run[r].key
          /\ run'[r].age = Older(run[r].age) /\ run'[r].out = older
      BY <3>3
    <3>7. older.kind = run[r].out.kind /\ older.truth = Older(run[r].out.truth)
          /\ older.age = Older(run[r].out.age)
      BY <3>2
    <3> HIDE DEF older
    <3> QED BY <1>3, <1>6, <2>4, <3>5, <3>6, <3>7
  <2> QED BY <2>3, <2>4
<1> QED BY <1>1, <1>3, <1>4, <1>5, <1>6

LEMMA TickMaps ==
  ASSUME TypeOK, Tick
  PROVE  /\ IsMap(entries', Keys, Entry) /\ IsMap(gone', Keys, Marker)
         /\ IsMap(sinceBcp', Keys, Age)
         /\ DOMAIN entries' = DOMAIN entries /\ DOMAIN gone' = DOMAIN gone
         /\ \A k \in DOMAIN entries : /\ entries'[k].truth = Older(entries[k].truth)
                                      /\ entries'[k].age = Older(entries[k].age)
         /\ \A k \in DOMAIN gone : gone'[k].age = Older(gone[k].age)
<1>1. ASSUME NEW k \in DOMAIN entries
      PROVE  /\ entries'[k] \in Entry
             /\ entries'[k].truth = Older(entries[k].truth)
             /\ entries'[k].age = Older(entries[k].age)
  <2>1. entries[k] \in [truth : Age, age : Age, ttl : Ttls]
    BY EntryFields DEF Entry
  <2>2. entries'[k] = [entries[k] EXCEPT !.truth = Older(@), !.age = Older(@)]
    BY DEF Tick
  <2>3. entries'[k] = [truth |-> Older(entries[k].truth), age |-> Older(entries[k].age),
                       ttl |-> entries[k].ttl]
    BY <2>1, <2>2
  <2> QED BY <2>1, <2>3, Olden DEF Entry
<1>2. ASSUME NEW k \in DOMAIN gone
      PROVE  gone'[k] \in Marker /\ gone'[k].age = Older(gone[k].age)
  <2>1. gone[k] \in [err : Errors, age : Age, ttl : {GoneTTL, Backoff}]
    BY MarkerFields DEF Marker
  <2>2. gone'[k] = [gone[k] EXCEPT !.age = Older(@)]
    BY DEF Tick
  <2>3. gone'[k] = [err |-> gone[k].err, age |-> Older(gone[k].age), ttl |-> gone[k].ttl]
    BY <2>1, <2>2
  <2> QED BY <2>1, <2>3, Olden DEF Marker
<1>3. ASSUME NEW k \in DOMAIN sinceBcp PROVE sinceBcp'[k] \in Age
  <2>1. sinceBcp[k] \in Age
    BY DEF TypeOK, IsMap
  <2> QED BY <2>1, Olden DEF Tick
<1>4. /\ DOMAIN entries' = DOMAIN entries /\ DOMAIN gone' = DOMAIN gone
      /\ DOMAIN sinceBcp' = DOMAIN sinceBcp
  BY DEF Tick
<1>5. /\ entries' = [k \in DOMAIN entries' |-> entries'[k]]
      /\ gone' = [k \in DOMAIN gone' |-> gone'[k]]
      /\ sinceBcp' = [k \in DOMAIN sinceBcp' |-> sinceBcp'[k]]
  BY DEF Tick
<1>6. /\ entries' \in [DOMAIN entries' -> Entry] /\ gone' \in [DOMAIN gone' -> Marker]
      /\ sinceBcp' \in [DOMAIN sinceBcp' -> Age]
  BY <1>1, <1>2, <1>3, <1>4, <1>5
<1>7. /\ DOMAIN entries \subseteq Keys /\ DOMAIN gone \subseteq Keys
      /\ DOMAIN sinceBcp \subseteq Keys
  BY DEF TypeOK, IsMap
<1> QED BY <1>1, <1>2, <1>4, <1>6, <1>7 DEF IsMap

\* Every step keeps every variable's type.
LEMMA TypeStep == TypeOK /\ [Next]_vars => TypeOK'
<1> SUFFICES ASSUME TypeOK, [Next]_vars PROVE TypeOK'
  OBVIOUS
<1>0. Silent \in Returned /\ Callers \subseteq Runners /\ Workers \subseteq Runners
  BY DEF Returned, Runners
<1>1. ASSUME NEW k \in Keys, GetFresh(k) PROVE TypeOK'
  <2>1. returned' \in Returned
    BY <1>1, EntryFields DEF GetFresh, Fresh, Live, ReturnEntry, Return, Returned, Result
  <2> QED BY <1>1, <2>1 DEF GetFresh, TypeOK
<1>2. ASSUME NEW k \in Keys, GetMarked(k) PROVE TypeOK'
  <2>1. k \in DOMAIN gone /\ (Servable(k) => k \in DOMAIN entries)
    BY <1>2 DEF GetMarked, Marked, Live, Servable
  <2>2. returned' \in Returned
    BY <1>2, <2>1, EntryFields, MarkerFields DEF GetMarked, ReturnEntry, Return, Returned, Result
  <2> QED BY <1>2, <2>2 DEF GetMarked, TypeOK
<1>3. ASSUME NEW k \in Keys, GetStale(k) PROVE TypeOK'
  <2>1. returned' \in Returned
    BY <1>3, EntryFields DEF GetStale, Servable, ReturnEntry, Return, Returned, Result
  <2>2. IsMap(inFlight', Keys, Runners) /\ run' \in [Runners -> Run]
    <3>1. \/ UNCHANGED <<inFlight, run>>
          \/ \E w \in Workers : StartFetch(w, k)
      BY <1>3 DEF GetStale, Revalidate
    <3>2. CASE UNCHANGED <<inFlight, run>>
      BY <3>2 DEF TypeOK
    <3>3. ASSUME NEW w \in Workers, StartFetch(w, k)
          PROVE  IsMap(inFlight', Keys, Runners) /\ run' \in [Runners -> Run]
      BY <1>0, <3>3, StartFetchEffect
    <3> QED BY <3>1, <3>2, <3>3
  <2> QED BY <1>3, <2>1, <2>2 DEF GetStale, TypeOK
<1>4. ASSUME NEW c \in Callers, NEW k \in Keys, GetJoin(c, k) PROVE TypeOK'
  <2>1. inFlight[k] \in Runners /\ IsMap(waiting, Callers, Runners)
    BY <1>4 DEF GetJoin, TypeOK, IsMap
  <2>2. IsMap(With(waiting, c, inFlight[k]), Callers, Runners)
    BY <2>1, MapWith
  <2> QED BY <1>0, <1>4, <2>2 DEF GetJoin, Return, TypeOK
<1>5. ASSUME NEW c \in Callers, NEW k \in Keys, GetFetch(c, k) PROVE TypeOK'
  <2>1. IsMap(inFlight', Keys, Runners) /\ run' \in [Runners -> Run]
    BY <1>0, <1>5, StartFetchEffect DEF GetFetch
  <2>2. IsMap(waiting, Callers, Runners) /\ c \in Runners
    BY <1>0 DEF TypeOK
  <2>3. IsMap(With(waiting, c, c), Callers, Runners)
    BY <2>2, MapWith
  <2> QED BY <1>0, <1>5, <2>1, <2>3 DEF GetFetch, Return, TypeOK
<1>6. ASSUME NEW r \in Runners, Respond(r) PROVE TypeOK'
  <2>1. run' \in [Runners -> Run]
    BY <1>6, RespondEffect
  <2> QED BY <1>0, <1>6, <2>1 DEF Respond, Return, TypeOK
<1>7. ASSUME NEW r \in Runners, Land(r) PROVE TypeOK'
  <2>1. run[r].key \in Keys /\ run' \in [Runners -> Run]
    BY <1>7, LandMoves
  <2>2. IsMap(entries', Keys, Entry) /\ IsMap(gone', Keys, Marker)
    BY <1>7, LandStores
  <2>3. IsMap(sinceBcp', Keys, Age)
    <3>1. run[r].out.kind = "live" => run[r].out.age \in Age
      BY <1>7, LandMoves, OutcomeFields DEF Errors
    <3> QED BY <1>7, <2>1, <3>1, NoteBcpEffect DEF Land
  <2>4. IsMap(inFlight', Keys, Runners)
    BY <1>7, MapWithout DEF Land, Unregister, TypeOK
  <2> QED BY <1>0, <1>7, <2>1, <2>2, <2>3, <2>4 DEF Land, Return, TypeOK
<1>8. ASSUME NEW r \in Runners, Close(r) PROVE TypeOK'
  <2>1. run' \in [Runners -> Run] /\ IsMap(waiting', Callers, Runners)
    BY <1>8, CloseMoves
  <2>2. run[r].result \in Result
    BY <1>8, RunFields DEF Close, TypeOK
  <2>3. run[r].result \in Returned
    BY <2>2, ResultFields
  <2>4. returned' \in Returned
    BY <1>0, <1>8, <2>3 DEF Close, Return
  <2> QED BY <1>8, <2>1, <2>4 DEF Close, TypeOK
<1>9. ASSUME NEW k \in Keys, Invalidate(k) PROVE TypeOK'
  <2>1. IsMap(entries', Keys, Entry) /\ IsMap(gone', Keys, Marker)
    BY <1>9, MapWithout DEF Invalidate, TypeOK
  <2> QED BY <1>0, <1>9, <2>1 DEF Invalidate, Return, TypeOK
<1>10. ASSUME NEW k \in Keys, NEW a \in Age, Put(k, a) PROVE TypeOK'
  <2>1. IsMap(entries', Keys, Entry) /\ IsMap(gone', Keys, Marker)
    BY <1>10, StoreEffect DEF Put, RowTruths
  <2>2. IsMap(sinceBcp', Keys, Age)
    BY <1>10, NoteBcpEffect DEF Put
  <2> QED BY <1>0, <1>10, <2>1, <2>2 DEF Put, Return, TypeOK
<1>11. CASE Tick
  <2>1. run' \in [Runners -> Run]
    <3>1. \A r \in Runners : run'[r] \in Run
      BY <1>11, TickRun
    <3>2. run' = [r \in Runners |-> run'[r]]
      BY <1>11 DEF Tick
    <3> QED BY <3>1, <3>2
  <2> QED BY <1>0, <1>11, <2>1, TickMaps DEF Tick, Return, TypeOK
<1>12. CASE UNCHANGED vars
  BY <1>12 DEF vars, TypeOK
<1> QED
  BY <1>1, <1>2, <1>3, <1>4, <1>5, <1>6, <1>7, <1>8, <1>9, <1>10, <1>11, <1>12 DEF Next

LEMMA TypeInit == Init => TypeOK
<1> SUFFICES ASSUME Init PROVE TypeOK
  OBVIOUS
<1>1. \A D, S : IsMap(EmptyMap, D, S)
  BY DEF IsMap, EmptyMap
<1>2. [pc |-> "idle"] \in Run
  BY DEF Run
<1> QED BY <1>1, <1>2 DEF Init, TypeOK, Returned

\* Type correctness: the maps, the goroutines in runFetch and the callers blocked
\* in Get keep the shape the code gives them.
THEOREM TypeCorrect == Spec => []TypeOK
  BY TypeInit, TypeStep, PTL DEF Spec

----------------------------------------------------------------------------
(* SingleFlight.  Whoever is asking for a key is the one registered for it, *)
(* and a caller inside runFetch is waiting on its own fetch, so it starts   *)
(* no other before that one has released it.                                *)

AskersRegistered ==
  \A r \in Runners : run[r].pc \in {"upstream", "landing"} =>
    run[r].key \in DOMAIN inFlight /\ inFlight[run[r].key] = r

CallersWait ==
  \A c \in Callers : run[c].pc # "idle" => c \in DOMAIN waiting /\ waiting[c] = c

FlightInv == TypeOK /\ AskersRegistered /\ CallersWait

LEMMA FlightInit == Init => FlightInv
  BY TypeInit DEF Init, FlightInv, AskersRegistered, CallersWait, Runners

\* Registering an idle goroutine for a key nobody asks for leaves the other
\* registrations in place.
LEMMA StartKeepsRegistered ==
  ASSUME FlightInv, NEW r \in Runners, NEW k \in Keys, StartFetch(r, k), k \notin DOMAIN inFlight
  PROVE  AskersRegistered'
<1>1. /\ DOMAIN inFlight' = DOMAIN inFlight \cup {k} /\ inFlight'[k] = r
      /\ \A x \in DOMAIN inFlight \ {k} : inFlight'[x] = inFlight[x]
      /\ run'[r] = [pc |-> "upstream", key |-> k, age |-> 0]
      /\ \A x \in Runners \ {r} : run'[x] = run[x]
  BY StartFetchEffect DEF FlightInv
<1> QED BY <1>1 DEF FlightInv, AskersRegistered

LEMMA FlightStep == FlightInv /\ [Next]_vars => FlightInv'
<1> SUFFICES ASSUME FlightInv, [Next]_vars PROVE FlightInv'
  OBVIOUS
<1>0. TypeOK /\ TypeOK' /\ Callers \subseteq Runners /\ Workers \subseteq Runners
      /\ \A w \in Workers : w \notin Callers
  BY TypeStep, ActorsAssumption DEF FlightInv, Runners
<1> SUFFICES AskersRegistered' /\ CallersWait'
  BY <1>0 DEF FlightInv
<1>1. ASSUME NEW k \in Keys, GetFresh(k) \/ GetMarked(k) \/ Invalidate(k)
      PROVE  AskersRegistered' /\ CallersWait'
  BY <1>1 DEF GetFresh, GetMarked, Invalidate, FlightInv, AskersRegistered, CallersWait
<1>2. ASSUME NEW k \in Keys, GetStale(k) PROVE AskersRegistered' /\ CallersWait'
  <2>1. UNCHANGED waiting
    BY <1>2 DEF GetStale
  <2>2. \/ UNCHANGED <<inFlight, run>>
        \/ /\ k \notin DOMAIN inFlight
           /\ \E w \in Workers : run[w].pc = "idle" /\ StartFetch(w, k)
    BY <1>2 DEF GetStale, Revalidate
  <2>3. CASE UNCHANGED <<inFlight, run>>
    BY <2>1, <2>3 DEF FlightInv, AskersRegistered, CallersWait
  <2>4. ASSUME k \notin DOMAIN inFlight, NEW w \in Workers, StartFetch(w, k)
        PROVE  AskersRegistered' /\ CallersWait'
    <3>1. AskersRegistered'
      BY <1>0, <2>4, StartKeepsRegistered
    <3>2. \A x \in Runners \ {w} : run'[x] = run[x]
      BY <1>0, <2>4, StartFetchEffect
    <3>3. CallersWait'
      BY <1>0, <2>1, <3>2 DEF FlightInv, CallersWait
    <3> QED BY <3>1, <3>3
  <2> QED BY <2>2, <2>3, <2>4
<1>3. ASSUME NEW c \in Callers, NEW k \in Keys, GetJoin(c, k)
      PROVE  AskersRegistered' /\ CallersWait'
  <2>1. UNCHANGED <<inFlight, run>> /\ c \notin DOMAIN waiting
    BY <1>3 DEF GetJoin
  <2>2. waiting' = With(waiting, c, inFlight[k])
    BY <1>3 DEF GetJoin
  <2>3. DOMAIN waiting' = DOMAIN waiting \cup {c}
        /\ \A x \in DOMAIN waiting \ {c} : waiting'[x] = waiting[x]
    BY <2>2 DEF With
  <2> QED BY <2>1, <2>3 DEF FlightInv, AskersRegistered, CallersWait
<1>4. ASSUME NEW c \in Callers, NEW k \in Keys, GetFetch(c, k)
      PROVE  AskersRegistered' /\ CallersWait'
  <2>1. StartFetch(c, k) /\ k \notin DOMAIN inFlight /\ c \notin DOMAIN waiting
        /\ waiting' = With(waiting, c, c)
    BY <1>4 DEF GetFetch
  <2>2. AskersRegistered'
    BY <1>0, <2>1, StartKeepsRegistered
  <2>3. \A x \in Runners \ {c} : run'[x] = run[x]
    BY <1>0, <2>1, StartFetchEffect
  <2>4. DOMAIN waiting' = DOMAIN waiting \cup {c} /\ waiting'[c] = c
        /\ \A x \in DOMAIN waiting \ {c} : waiting'[x] = waiting[x]
    BY <2>1 DEF With
  <2>5. CallersWait'
    BY <1>0, <2>3, <2>4 DEF FlightInv, CallersWait
  <2> QED BY <2>2, <2>5
<1>5. ASSUME NEW r \in Runners, Respond(r) PROVE AskersRegistered' /\ CallersWait'
  <2>1. run[r].pc = "upstream" /\ UNCHANGED <<inFlight, waiting>>
    BY <1>5 DEF Respond
  <2>2. /\ run'[r].pc = "landing" /\ run'[r].key = run[r].key
        /\ \A x \in Runners \ {r} : run'[x] = run[x]
    <3>1. PICK out \in Responses(run[r].age) :
            /\ run'[r] = [pc |-> "landing", key |-> run[r].key, age |-> run[r].age, out |-> out]
            /\ \A x \in Runners \ {r} : run'[x] = run[x]
      BY <1>0, <1>5, RespondEffect
    <3> QED BY <3>1
  <2> QED BY <1>0, <2>1, <2>2 DEF FlightInv, AskersRegistered, CallersWait
<1>6. ASSUME NEW r \in Runners, Land(r) PROVE AskersRegistered' /\ CallersWait'
  <2>1. /\ run[r].pc = "landing" /\ run'[r].pc = "closing"
        /\ \A x \in Runners \ {r} : run'[x] = run[x]
    BY <1>0, <1>6, LandMoves
  <2>2. inFlight' = Without(inFlight, {run[r].key}) /\ UNCHANGED waiting
    BY <1>6 DEF Land, Unregister
  <2>3. /\ DOMAIN inFlight' = DOMAIN inFlight \ {run[r].key}
        /\ \A x \in DOMAIN inFlight \ {run[r].key} : inFlight'[x] = inFlight[x]
    BY <2>2, WithoutValues
  <2>4. inFlight[run[r].key] = r
    BY <2>1 DEF FlightInv, AskersRegistered
  <2>5. AskersRegistered'
    BY <2>1, <2>3, <2>4 DEF FlightInv, AskersRegistered
  <2>6. CallersWait'
    BY <1>0, <2>1, <2>2 DEF FlightInv, CallersWait
  <2> QED BY <2>5, <2>6
<1>7. ASSUME NEW r \in Runners, Close(r) PROVE AskersRegistered' /\ CallersWait'
  <2>1. /\ run'[r] = [pc |-> "idle"] /\ \A x \in Runners \ {r} : run'[x] = run[x]
        /\ DOMAIN waiting' = {c \in DOMAIN waiting : waiting[c] # r}
        /\ \A c \in DOMAIN waiting' : waiting'[c] = waiting[c]
    BY <1>0, <1>7, CloseMoves
  <2>2. UNCHANGED inFlight
    BY <1>7 DEF Close
  <2> QED BY <1>0, <2>1, <2>2 DEF FlightInv, AskersRegistered, CallersWait
<1>8. ASSUME NEW k \in Keys, NEW a \in Age, Put(k, a) PROVE AskersRegistered' /\ CallersWait'
  BY <1>8 DEF Put, FlightInv, AskersRegistered, CallersWait
<1>9. CASE Tick
  <2>1. UNCHANGED <<inFlight, waiting>>
    BY <1>9 DEF Tick
  <2>2. \A r \in Runners : /\ run'[r].pc = run[r].pc
                           /\ run[r].pc # "idle" => run'[r].key = run[r].key
    BY <1>0, <1>9, TickRun
  <2> QED BY <1>0, <2>1, <2>2 DEF FlightInv, AskersRegistered, CallersWait
<1>10. CASE UNCHANGED vars
  BY <1>10 DEF vars, FlightInv, AskersRegistered, CallersWait
<1> QED
  BY <1>1, <1>2, <1>3, <1>4, <1>5, <1>6, <1>7, <1>8, <1>9, <1>10 DEF Next

\* At most one goroutine at a time asks BCP for a key, however many callers and
\* background revalidations there are (Get, startRevalidationLocked, runFetch).
THEOREM AlwaysSingleFlight == Spec => []SingleFlight
<1>1. FlightInv => SingleFlight
  BY DEF FlightInv, AskersRegistered, SingleFlight, Fetching
<1> QED BY <1>1, FlightInit, FlightStep, PTL DEF Spec

----------------------------------------------------------------------------
(* WithinCapacity.  Every growth of a map is followed by its own eviction. *)

LEMMA SurvivorsFit ==
  ASSUME NEW m, NEW S \in Survivors(m)
  PROVE  Cardinality(S) =< MaxEntries
<1> DEFINE live == {k \in DOMAIN m : Live(m, k)}
<1>1. \/ S = DOMAIN m /\ Cardinality(DOMAIN m) =< MaxEntries
      \/ S = live /\ Cardinality(live) =< MaxEntries
      \/ Cardinality(S) = MaxEntries
  BY DEF Survivors
<1> HIDE DEF live
<1> QED BY <1>1, ActorsAssumption

\* What is part of a map of keys that fits, fits.
LEMMA PartFits ==
  ASSUME NEW S, NEW T, S \subseteq T, T \subseteq Keys, Cardinality(T) =< MaxEntries
  PROVE  Cardinality(S) =< MaxEntries
<1>1. IsFiniteSet(T)
  BY ActorsAssumption, FS_Subset
<1>2. IsFiniteSet(S) /\ Cardinality(S) =< Cardinality(T)
  BY <1>1, FS_Subset
<1>3. Cardinality(S) \in Nat /\ Cardinality(T) \in Nat /\ MaxEntries \in Nat
  BY <1>1, <1>2, FS_CardinalityType, ActorsAssumption
<1> QED BY <1>2, <1>3

LEMMA CapacityStep == TypeOK /\ WithinCapacity /\ [Next]_vars => WithinCapacity'
<1> SUFFICES ASSUME TypeOK, WithinCapacity, [Next]_vars PROVE WithinCapacity'
  OBVIOUS
<1> USE DEF WithinCapacity
<1>0. DOMAIN entries \subseteq Keys /\ DOMAIN gone \subseteq Keys
  BY DEF TypeOK, IsMap
<1>1. ASSUME NEW k \in Keys, NEW truth \in Age, NEW age \in Age, Store(k, truth, age)
      PROVE  WithinCapacity'
  <2>1. DOMAIN gone' \subseteq DOMAIN gone /\ \E es : DOMAIN entries' \in Survivors(es)
    BY <1>1, StoreEffect
  <2> QED BY <1>0, <2>1, SurvivorsFit, PartFits
<1>2. ASSUME NEW k \in Keys, NEW err \in Errors, MarkGone(k, err)
      PROVE  WithinCapacity'
  <2>1. UNCHANGED entries /\ \E gs : DOMAIN gone' \in Survivors(gs)
    BY <1>2, MarkGoneEffect
  <2> QED BY <2>1, SurvivorsFit
<1>3. ASSUME NEW r \in Runners, Land(r) PROVE WithinCapacity'
  <2> DEFINE k == run[r].key
             out == run[r].out
  <2>1. k \in Keys /\ out \in Outcome
    BY <1>3, LandMoves
  <2>2. out.kind \notin Errors => out.truth \in Age /\ out.age \in Age
    BY <2>1, OutcomeFields
  <2>3. \/ out.kind \notin Errors /\ Store(k, out.truth, out.age)
        \/ out.kind \in Errors /\ MarkGone(k, out.kind)
    BY <1>3 DEF Land, StoreOutcome, Errors
  <2> HIDE DEF k, out, WithinCapacity
  <2> QED BY <1>1, <1>2, <2>1, <2>2, <2>3
<1>4. ASSUME NEW k \in Keys, Invalidate(k) PROVE WithinCapacity'
  <2>1. DOMAIN entries' \subseteq DOMAIN entries /\ DOMAIN gone' \subseteq DOMAIN gone
    <3>1. entries' = Without(entries, {k}) /\ gone' = Without(gone, {k})
      BY <1>4 DEF Invalidate
    <3> QED BY <3>1 DEF Without, Restrict
  <2> QED BY <1>0, <2>1, PartFits
<1>5. CASE Tick
  BY <1>5, TickMaps
<1>6. ASSUME UNCHANGED <<entries, gone>> PROVE WithinCapacity'
  BY <1>6
<1>7. ASSUME NEW k \in Keys, NEW a \in Age, Put(k, a) PROVE WithinCapacity'
  BY <1>1, <1>7 DEF Put, RowTruths
<1> HIDE DEF WithinCapacity
<1>8. ASSUME NEW k \in Keys, GetFresh(k) \/ GetMarked(k) \/ GetStale(k) PROVE WithinCapacity'
  BY <1>6, <1>8 DEF GetFresh, GetMarked, GetStale
<1>9. ASSUME NEW c \in Callers, NEW k \in Keys, GetJoin(c, k) \/ GetFetch(c, k)
      PROVE  WithinCapacity'
  BY <1>6, <1>9 DEF GetJoin, GetFetch
<1>10. ASSUME NEW r \in Runners, Respond(r) \/ Close(r) PROVE WithinCapacity'
  BY <1>6, <1>10 DEF Respond, Close
<1>11. CASE UNCHANGED vars
  BY <1>6, <1>11 DEF vars
<1> QED BY <1>3, <1>4, <1>5, <1>7, <1>8, <1>9, <1>10, <1>11 DEF Next

\* Neither the entries nor the failure markers outgrow maxCacheEntries, whatever
\* burst of distinct ids arrives (evictLocked, evictGoneLocked).
THEOREM AlwaysWithinCapacity == Spec => []WithinCapacity
<1>1. Init => WithinCapacity
  <2>1. DOMAIN EmptyMap = {}
    BY DEF EmptyMap
  <2>2. Cardinality({}) = 0
    BY FS_EmptySet
  <2> QED BY <2>1, <2>2, ActorsAssumption DEF Init, WithinCapacity
<1> QED BY <1>1, TypeInit, TypeStep, CapacityStep, PTL DEF Spec

----------------------------------------------------------------------------
(* FailureIsNewest is inductive by itself: a success removes the marker, a  *)
(* marker is born with age zero, and time treats both alike.                *)

LEMMA FailureStep == TypeOK /\ FailureIsNewest /\ [Next]_vars => FailureIsNewest'
<1> SUFFICES ASSUME TypeOK, FailureIsNewest, [Next]_vars PROVE FailureIsNewest'
  OBVIOUS
<1>1. ASSUME NEW k \in Keys, NEW truth \in Age, NEW age \in Age, Store(k, truth, age)
      PROVE  FailureIsNewest'
  BY <1>1, StoreEffect DEF FailureIsNewest
<1>2. ASSUME NEW k \in Keys, NEW err \in Errors, MarkGone(k, err)
      PROVE  FailureIsNewest'
  <2>1. /\ UNCHANGED entries
        /\ DOMAIN gone' \subseteq DOMAIN gone \cup {k}
        /\ \A x \in DOMAIN gone' \ {k} : gone'[x] = gone[x]
        /\ k \in DOMAIN gone' => gone'[k].age = 0
    BY <1>2, MarkGoneEffect
  <2>2. \A x \in DOMAIN entries : 0 =< entries[x].age
    BY EntryFields DEF Age
  <2> QED BY <2>1, <2>2 DEF FailureIsNewest
<1>3. ASSUME NEW r \in Runners, Land(r) PROVE FailureIsNewest'
  <2> DEFINE k == run[r].key
             out == run[r].out
  <2>1. k \in Keys /\ out \in Outcome
    BY <1>3, LandMoves
  <2>2. out.kind \notin Errors => out.truth \in Age /\ out.age \in Age
    BY <2>1, OutcomeFields
  <2>3. \/ out.kind \notin Errors /\ Store(k, out.truth, out.age)
        \/ out.kind \in Errors /\ MarkGone(k, out.kind)
    BY <1>3 DEF Land, StoreOutcome, Errors
  <2> HIDE DEF k, out
  <2> QED BY <1>1, <1>2, <2>1, <2>2, <2>3
<1>4. ASSUME NEW k \in Keys, Invalidate(k) PROVE FailureIsNewest'
  <2>1. entries' = Without(entries, {k}) /\ gone' = Without(gone, {k})
    BY <1>4 DEF Invalidate
  <2> QED BY <2>1 DEF Without, Restrict, FailureIsNewest
<1>5. CASE Tick
  <2> SUFFICES ASSUME NEW k \in DOMAIN entries' \cap DOMAIN gone'
               PROVE  gone'[k].age =< entries'[k].age
    BY DEF FailureIsNewest
  <2>1. /\ k \in DOMAIN entries /\ k \in DOMAIN gone
        /\ gone'[k].age = Older(gone[k].age) /\ entries'[k].age = Older(entries[k].age)
    BY <1>5, TickMaps
  <2>2. gone[k].age \in Age /\ entries[k].age \in Age /\ gone[k].age =< entries[k].age
    BY <2>1, EntryFields, MarkerFields DEF FailureIsNewest
  <2> QED BY <2>1, <2>2, TimesAssumption DEF Older, Age
<1>6. ASSUME UNCHANGED <<entries, gone>> PROVE FailureIsNewest'
  BY <1>6 DEF FailureIsNewest
<1>7. ASSUME NEW k \in Keys, NEW a \in Age, Put(k, a) PROVE FailureIsNewest'
  BY <1>1, <1>7 DEF Put, RowTruths
<1>8. ASSUME NEW k \in Keys, GetFresh(k) \/ GetMarked(k) \/ GetStale(k)
      PROVE  FailureIsNewest'
  BY <1>6, <1>8 DEF GetFresh, GetMarked, GetStale
<1>9. ASSUME NEW c \in Callers, NEW k \in Keys, GetJoin(c, k) \/ GetFetch(c, k)
      PROVE  FailureIsNewest'
  BY <1>6, <1>9 DEF GetJoin, GetFetch
<1>10. ASSUME NEW r \in Runners, Respond(r) \/ Close(r) PROVE FailureIsNewest'
  BY <1>6, <1>10 DEF Respond, Close
<1>11. CASE UNCHANGED vars
  BY <1>6, <1>11 DEF vars
<1> QED BY <1>3, <1>4, <1>5, <1>7, <1>8, <1>9, <1>10, <1>11 DEF Next

\* A replayed failure hides nothing newer: runFetch deletes the marker of a key
\* that succeeds, and a marker only appears when the newest answer was a failure.
THEOREM FailureAlwaysNewest == Spec => []FailureIsNewest
<1>1. Init => FailureIsNewest
  BY DEF Init, FailureIsNewest, EmptyMap
<1> QED BY <1>1, TypeInit, TypeStep, FailureStep, PTL DEF Spec

----------------------------------------------------------------------------
(* StaleBound.  An entry is dated no later than RowDelay after its value   *)
(* was true, be it a row's or fetched just now, for a fetch lasts no longer *)
(* than that.  What a fetch brings was dated within one lifetime when it   *)
(* was read, and has aged with the fetch since.                            *)

EntriesDated == \A k \in DOMAIN entries : entries[k].truth =< entries[k].age + RowDelay

Asking(r) == run[r].pc \in {"upstream", "landing"}

FetchesShort == \A r \in Runners : Asking(r) => run[r].age =< FetchTimeout

OutcomesDated ==
  \A r \in Runners : run[r].pc = "landing" /\ run[r].out.kind \notin Errors =>
    /\ run[r].out.truth =< run[r].out.age + RowDelay
    /\ run[r].out.truth =< MaxTtl + RowDelay + run[r].age

ResultsDated ==
  \A r \in Runners : run[r].pc = "closing" /\ run[r].result.kind = "data" =>
    run[r].result.truth =< MaxTtl + RowDelay + FetchTimeout

FetchesDated == FetchesShort /\ OutcomesDated /\ ResultsDated

DateInv == TypeOK /\ EntriesDated /\ FetchesDated /\ StaleBound

LEMMA DateInit == Init => DateInv
<1> SUFFICES ASSUME Init PROVE DateInv
  OBVIOUS
<1>1. EntriesDated
  BY DEF Init, EmptyMap, EntriesDated
<1>2. FetchesDated /\ StaleBound
  BY DEF Init, Silent, FetchesDated, FetchesShort, Asking, OutcomesDated, ResultsDated, StaleBound
<1> QED BY <1>1, <1>2, TypeInit DEF DateInv

\* The outcome of a fetch is younger than one lifetime, one row's delay and one
\* fetch.
LEMMA OutcomeBound ==
  ASSUME DateInv, NEW r \in Runners, run[r].pc = "landing", run[r].out.kind \notin Errors
  PROVE  /\ run[r].out.truth \in Age /\ run[r].out.age \in Age
         /\ run[r].out.truth =< run[r].out.age + RowDelay
         /\ run[r].out.truth =< MaxTtl + RowDelay + FetchTimeout
<1>1. run[r] \in Run
  BY DEF DateInv, TypeOK
<1>2. run[r].age \in Age /\ run[r].out \in Outcome
  BY <1>1, RunFields
<1>3. run[r].out.truth \in Age /\ run[r].out.age \in Age
  BY <1>2, OutcomeFields
<1>4. run[r].age =< FetchTimeout
  BY DEF DateInv, FetchesDated, FetchesShort, Asking
<1>5. /\ run[r].out.truth =< run[r].out.age + RowDelay
      /\ run[r].out.truth =< MaxTtl + RowDelay + run[r].age
  BY DEF DateInv, FetchesDated, OutcomesDated
<1> QED BY <1>2, <1>3, <1>4, <1>5, TimesAssumption DEF Age

\* What Get returns from the map is no staler than the limit.
LEMMA EntryBound ==
  ASSUME DateInv, NEW k \in Keys, Fresh(k) \/ Servable(k)
  PROVE  k \in DOMAIN entries /\ entries[k].truth =< StaleLimit
<1>1. k \in DOMAIN entries
  BY DEF Fresh, Live, Servable
<1>2. /\ entries[k].truth \in Age /\ entries[k].age \in Age /\ entries[k].ttl \in Ttls
      /\ entries[k].truth =< entries[k].age + RowDelay
  BY <1>1, EntryFields DEF DateInv, EntriesDated
<1>3. /\ entries[k].ttl \in Nat /\ entries[k].ttl =< MaxTtl
      /\ MaxTtl \in Nat /\ FetchTimeout \in Nat /\ RowDelay \in Nat
  <2>1. /\ entries[k].ttl \in 1..MaxTtl
        /\ MaxTtl \in Nat /\ FetchTimeout \in Nat /\ RowDelay \in Nat
    BY <1>2, TimesAssumption
  <2> QED BY <2>1
<1>4. \/ entries[k].age < entries[k].ttl
      \/ serveStale /\ entries[k].age < 2 * entries[k].ttl
  BY DEF Fresh, Live, Servable
<1> QED BY <1>1, <1>2, <1>3, <1>4 DEF StaleLimit, Age

LEMMA DateStep == DateInv /\ [Next]_vars => DateInv'
<1> SUFFICES ASSUME DateInv, [Next]_vars PROVE DateInv'
  OBVIOUS
<1>0. TypeOK /\ TypeOK'
  BY TypeStep DEF DateInv
<1> DEFINE Rest == EntriesDated' /\ FetchesDated' /\ StaleBound'
<1> SUFFICES Rest
  BY <1>0 DEF DateInv
<1>a. ASSUME UNCHANGED serveStale PROVE StaleLimit' = StaleLimit
  BY <1>a DEF StaleLimit
<1>b. ASSUME returned' = Silent PROVE StaleBound'
  BY <1>b DEF StaleBound, Silent
<1>c. ASSUME NEW k \in Keys, NEW truth \in Age, NEW age \in Age, Store(k, truth, age),
             truth =< age + RowDelay
      PROVE  EntriesDated'
  BY <1>0, <1>c, StoreEffect DEF DateInv, EntriesDated
<1>d. ASSUME NEW r \in Runners, NEW k \in Keys, StartFetch(r, k)
      PROVE  FetchesDated'
  <2>1. /\ run'[r] = [pc |-> "upstream", key |-> k, age |-> 0]
        /\ \A x \in Runners \ {r} : run'[x] = run[x]
    BY <1>0, <1>d, StartFetchEffect
  <2>2. run'[r].pc = "upstream" /\ run'[r].age = 0
    BY <2>1
  <2>3. FetchesShort'
    BY <2>1, <2>2, TimesAssumption DEF DateInv, FetchesDated, FetchesShort, Asking
  <2>4. OutcomesDated' /\ ResultsDated'
    BY <2>1, <2>2 DEF DateInv, FetchesDated, OutcomesDated, ResultsDated
  <2> QED BY <2>3, <2>4 DEF FetchesDated
<1>e. ASSUME UNCHANGED run PROVE FetchesDated'
  BY <1>e DEF DateInv, FetchesDated, FetchesShort, Asking, OutcomesDated, ResultsDated
<1>f. ASSUME UNCHANGED entries PROVE EntriesDated'
  BY <1>f DEF DateInv, EntriesDated
<1>1. ASSUME NEW k \in Keys, GetFresh(k) PROVE Rest
  <2>1. entries[k].truth =< StaleLimit /\ StaleLimit' = StaleLimit
    BY <1>1, <1>a, EntryBound DEF GetFresh
  <2>2. StaleBound'
    BY <1>1, <2>1 DEF GetFresh, ReturnEntry, Return, StaleBound
  <2> QED BY <1>1, <1>e, <1>f, <2>2 DEF GetFresh
<1>2. ASSUME NEW k \in Keys, GetMarked(k) PROVE Rest
  <2>1. StaleLimit' = StaleLimit /\ gone[k].err \in Errors
    BY <1>0, <1>2, <1>a, MarkerFields DEF GetMarked, Marked, Live
  <2>2. CASE Servable(k) /\ gone[k].err # "gone"
    <3>1. returned' = [kind |-> "data", truth |-> entries[k].truth]
      BY <1>2, <2>2 DEF GetMarked, ReturnEntry, Return
    <3>2. entries[k].truth =< StaleLimit
      BY <2>2, EntryBound
    <3>3. StaleBound'
      BY <2>1, <3>1, <3>2 DEF StaleBound
    <3> QED BY <1>2, <1>e, <1>f, <3>3 DEF GetMarked
  <2>3. CASE ~(Servable(k) /\ gone[k].err # "gone")
    <3>1. returned' = [kind |-> gone[k].err]
      BY <1>2, <2>3 DEF GetMarked, Return
    <3>2. StaleBound'
      BY <2>1, <3>1 DEF StaleBound, Errors
    <3> QED BY <1>2, <1>e, <1>f, <3>2 DEF GetMarked
  <2> QED BY <2>2, <2>3
<1>3. ASSUME NEW k \in Keys, GetStale(k) PROVE Rest
  <2>1. entries[k].truth =< StaleLimit /\ StaleLimit' = StaleLimit
    BY <1>3, <1>a, EntryBound DEF GetStale
  <2>2. StaleBound'
    BY <1>3, <2>1 DEF GetStale, ReturnEntry, Return, StaleBound
  <2>3. UNCHANGED run \/ \E w \in Workers : StartFetch(w, k)
    BY <1>3 DEF GetStale, Revalidate
  <2>4. FetchesDated'
    BY <1>d, <1>e, <2>3 DEF Runners
  <2> QED BY <1>3, <1>f, <2>2, <2>4 DEF GetStale
<1>4. ASSUME NEW c \in Callers, NEW k \in Keys, GetJoin(c, k) PROVE Rest
  BY <1>4, <1>b, <1>e, <1>f DEF GetJoin, Return
<1>5. ASSUME NEW c \in Callers, NEW k \in Keys, GetFetch(c, k) PROVE Rest
  BY <1>5, <1>b, <1>d, <1>f DEF GetFetch, Return, Runners
<1>6. ASSUME NEW r \in Runners, Respond(r) PROVE Rest
  <2>1. PICK out \in Responses(run[r].age) :
          /\ out \in Outcome
          /\ run'[r] = [pc |-> "landing", key |-> run[r].key, age |-> run[r].age, out |-> out]
          /\ \A x \in Runners \ {r} : run'[x] = run[x]
    BY <1>0, <1>6, RespondEffect
  <2>2. run[r] \in Run /\ run[r].pc = "upstream"
    BY <1>0, <1>6 DEF TypeOK, Respond
  <2>3. run[r].age \in Nat /\ run[r].age =< FetchTimeout
    BY <2>2, RunFields DEF DateInv, FetchesDated, FetchesShort, Asking, Age
  <2>4. ASSUME out.kind \notin Errors
        PROVE  out.truth =< out.age + RowDelay /\ out.truth =< MaxTtl + RowDelay + run[r].age
    <3>1. CASE out.kind = "live"
      <4>1. out.truth \in 0..run[r].age /\ out.age = 0
        BY <3>1 DEF Responses, Errors
      <4> QED BY <2>3, <4>1, TimesAssumption
    <3>2. CASE out.kind = "row"
      <4>1. /\ out.age \in Age /\ out.truth \in RowTruths(out.age)
            /\ \E ttl \in Ttls : out.age =< ttl
        BY <3>2 DEF Responses, Errors
      <4>2. out.age =< MaxTtl /\ out.truth \in Age /\ out.truth =< out.age + RowDelay
        BY <4>1, TimesAssumption DEF RowTruths, Age
      <4> QED BY <2>3, <4>1, <4>2, TimesAssumption DEF Age
    <3> QED BY <2>1, <2>4, <3>1, <3>2, OutcomeFields
  <2>5. run'[r].pc = "landing" /\ run'[r].age = run[r].age /\ run'[r].out = out
    BY <2>1
  <2>6. FetchesShort'
    BY <2>1, <2>3, <2>5 DEF DateInv, FetchesDated, FetchesShort, Asking
  <2>7. OutcomesDated' /\ ResultsDated'
    BY <2>1, <2>4, <2>5 DEF DateInv, FetchesDated, OutcomesDated, ResultsDated
  <2> QED BY <1>6, <1>b, <1>f, <2>6, <2>7 DEF Respond, Return, FetchesDated
<1>7. ASSUME NEW r \in Runners, Land(r) PROVE Rest
  <2> DEFINE k == run[r].key
             out == run[r].out
  <2>1. /\ k \in Keys /\ out \in Outcome /\ run[r].pc = "landing"
        /\ run'[r].pc = "closing" /\ run'[r].result = ResultOf(out)
        /\ \A x \in Runners \ {r} : run'[x] = run[x]
    BY <1>0, <1>7, LandMoves
  <2>2. out.kind \notin Errors => /\ out.truth \in Age /\ out.age \in Age
                                  /\ out.truth =< out.age + RowDelay
                                  /\ out.truth =< MaxTtl + RowDelay + FetchTimeout
    BY <2>1, OutcomeBound
  <2>3. \/ out.kind \notin Errors /\ Store(k, out.truth, out.age)
        \/ out.kind \in Errors /\ MarkGone(k, out.kind)
    BY <1>7 DEF Land, StoreOutcome, Errors
  <2>4. EntriesDated'
    <3> HIDE DEF k, out
    <3>1. CASE out.kind \notin Errors /\ Store(k, out.truth, out.age)
      BY <1>c, <2>1, <2>2, <3>1
    <3>2. CASE out.kind \in Errors /\ MarkGone(k, out.kind)
      BY <1>0, <1>f, <2>1, <3>2, MarkGoneEffect
    <3> QED BY <2>3, <3>1, <3>2
  <2>5. ResultOf(out).kind = "data" =>
          out.kind \notin Errors /\ ResultOf(out).truth = out.truth
    BY DEF ResultOf, Errors
  <2>6. FetchesDated'
    <3> HIDE DEF k, out
    <3>1. FetchesShort' /\ OutcomesDated'
      BY <2>1 DEF DateInv, FetchesDated, FetchesShort, Asking, OutcomesDated
    <3>2. ResultsDated'
      BY <2>1, <2>2, <2>5 DEF DateInv, FetchesDated, ResultsDated
    <3> QED BY <3>1, <3>2 DEF FetchesDated
  <2> QED BY <1>7, <1>b, <2>4, <2>6 DEF Land, Return
<1>8. ASSUME NEW r \in Runners, Close(r) PROVE Rest
  <2>1. run'[r] = [pc |-> "idle"] /\ \A x \in Runners \ {r} : run'[x] = run[x]
    BY <1>0, <1>8, CloseMoves
  <2>2. FetchesDated'
    BY <2>1 DEF DateInv, FetchesDated, FetchesShort, Asking, OutcomesDated, ResultsDated
  <2>3. run[r].pc = "closing" /\ StaleLimit' = StaleLimit
    BY <1>8, <1>a DEF Close
  <2>4. run[r].result \in Result
    BY <1>0, <2>3, RunFields DEF TypeOK
  <2>5. run[r].result.kind = "data" => run[r].result.truth =< StaleLimit
    <3>1. ASSUME run[r].result.kind = "data"
          PROVE  run[r].result.truth =< MaxTtl + RowDelay + FetchTimeout
      BY <2>3, <3>1 DEF DateInv, FetchesDated, ResultsDated
    <3>2. run[r].result.kind = "data" => run[r].result.truth \in Age
      BY <2>4, ResultFields
    <3> QED BY <3>1, <3>2, TimesAssumption DEF StaleLimit, Age
  <2>6. returned' = Silent \/ returned' = run[r].result
    BY <1>8 DEF Close, Return
  <2>7. StaleBound'
    BY <1>b, <2>3, <2>5, <2>6 DEF StaleBound
  <2> QED BY <1>8, <1>f, <2>2, <2>7 DEF Close
<1>9. ASSUME NEW k \in Keys, Invalidate(k) PROVE Rest
  <2>1. entries' = Without(entries, {k})
    BY <1>9 DEF Invalidate
  <2>2. EntriesDated'
    BY <2>1 DEF Without, Restrict, DateInv, EntriesDated
  <2> QED BY <1>9, <1>b, <1>e, <2>2 DEF Invalidate, Return
<1>10. ASSUME NEW k \in Keys, NEW a \in Age, Put(k, a) PROVE Rest
  <2>1. PICK truth \in RowTruths(a) : Store(k, truth, a)
    BY <1>10 DEF Put
  <2>2. EntriesDated'
    BY <1>c, <2>1 DEF RowTruths
  <2> QED BY <1>10, <1>b, <1>e, <2>2 DEF Put, Return
<1>11. CASE Tick
  <2>1. EntriesDated'
    <3> SUFFICES ASSUME NEW k \in DOMAIN entries'
                 PROVE  entries'[k].truth =< entries'[k].age + RowDelay
      BY DEF EntriesDated
    <3>1. /\ k \in DOMAIN entries
          /\ entries'[k].truth = Older(entries[k].truth)
          /\ entries'[k].age = Older(entries[k].age)
      BY <1>0, <1>11, TickMaps
    <3>2. /\ entries[k].truth \in Age /\ entries[k].age \in Age
          /\ entries[k].truth =< entries[k].age + RowDelay
      BY <1>0, <3>1, EntryFields DEF DateInv, EntriesDated
    <3> QED BY <3>1, <3>2, TimesAssumption DEF Older, Age
  <2>2. FetchesDated'
    <3>1. ASSUME NEW r \in Runners, run'[r].pc # "idle"
          PROVE  /\ run[r].pc = run'[r].pc /\ Asking(r)
                 /\ run'[r].age =< FetchTimeout
                 /\ run'[r].age = run[r].age + 1 /\ run[r].age \in Nat
      <4>1. /\ Asking(r) /\ run'[r].age = Older(run[r].age) /\ run[r].age < FetchTimeout
            /\ run[r].pc = run'[r].pc
        BY <1>0, <1>11, <3>1, TickRun DEF Asking
      <4>2. run[r].age \in Age
        BY <1>0, <4>1, RunFields DEF TypeOK, Asking
      <4> QED BY <4>1, <4>2, TimesAssumption DEF Older, Age
    <3>2. ASSUME NEW r \in Runners, run'[r].pc = "landing", run'[r].out.kind \notin Errors
          PROVE  /\ run'[r].out.truth =< run'[r].out.age + RowDelay
                 /\ run'[r].out.truth =< MaxTtl + RowDelay + run'[r].age
      <4>1. run[r].pc = "landing" /\ run'[r].age = run[r].age + 1 /\ run[r].age \in Nat
        BY <3>1, <3>2
      <4>2. /\ run[r].out.kind \notin Errors
            /\ run'[r].out.truth = Older(run[r].out.truth)
            /\ run'[r].out.age = Older(run[r].out.age)
        BY <1>0, <1>11, <3>2, <4>1, TickRun
      <4>3. /\ run[r].out.truth \in Age /\ run[r].out.age \in Age
            /\ run[r].out.truth =< run[r].out.age + RowDelay
            /\ run[r].out.truth =< MaxTtl + RowDelay + run[r].age
        BY <4>1, <4>2, OutcomeBound DEF DateInv, FetchesDated, OutcomesDated
      <4> QED BY <4>1, <4>2, <4>3, TimesAssumption DEF Older, Age
    <3>3. FetchesShort' /\ ResultsDated'
      BY <3>1 DEF FetchesShort, Asking, ResultsDated
    <3> QED BY <3>2, <3>3 DEF FetchesDated, OutcomesDated
  <2> QED BY <1>11, <1>b, <2>1, <2>2 DEF Tick, Return
<1>12. CASE UNCHANGED vars
  <2>1. StaleBound'
    BY <1>12, <1>a DEF vars, DateInv, StaleBound
  <2> QED BY <1>12, <1>e, <1>f, <2>1 DEF vars
<1> QED
  BY <1>1, <1>2, <1>3, <1>4, <1>5, <1>6, <1>7, <1>8, <1>9, <1>10, <1>11, <1>12 DEF Next

\* Get never returns data staler than the lifetimes and the delays of durable
\* rows allow, however long a row's write is late, on any of its paths:
\* a hit, a stale answer, a joined fetch, a durable row or a seeded entry.
THEOREM NeverTooStale == Spec => []StaleBound
<1>1. DateInv => StaleBound
  BY DEF DateInv
<1> QED BY <1>1, DateInit, DateStep, PTL DEF Spec

----------------------------------------------------------------------------
(* FreshOutlivesExpired.  Only storing a value grows the entries, and an    *)
(* eviction that drops anything keeps none but live ones.                   *)

LEMMA StoreKeepsFresh ==
  ASSUME TypeOK, NEW k \in Keys, NEW truth \in Age, NEW age \in Age, Store(k, truth, age)
  PROVE  \/ DOMAIN entries \subseteq DOMAIN entries'
         \/ \A x \in DOMAIN entries' : Fresh(x)'
<1>1. PICK ttl \in Ttls :
        EvictEntries(With(entries, k, [truth |-> truth, age |-> age, ttl |-> ttl]),
                     Without(gone, {k}))
  BY DEF Store
<1> DEFINE es == With(entries, k, [truth |-> truth, age |-> age, ttl |-> ttl])
<1>2. PICK S \in Survivors(es) : entries' = Restrict(es, S)
  BY <1>1 DEF EvictEntries
<1>3. DOMAIN es = DOMAIN entries \cup {k}
  BY DEF With
<1> HIDE DEF es
<1>4. DOMAIN entries' = S /\ \A x \in S : entries'[x] = es[x]
  BY <1>2 DEF Restrict
<1>5. S = DOMAIN es \/ \A x \in S : Live(es, x)
  <2> DEFINE live == {x \in DOMAIN es : Live(es, x)}
  <2>1. S = DOMAIN es \/ S = live \/ S \subseteq live
    BY DEF Survivors
  <2> QED BY <2>1
<1>6. (\A x \in S : Live(es, x)) => \A x \in S : Fresh(x)'
  BY <1>4 DEF Live, Fresh
<1> QED BY <1>3, <1>4, <1>5, <1>6

KeepsFresh ==
  DOMAIN entries' \ DOMAIN entries # {} /\ ~(DOMAIN entries \subseteq DOMAIN entries')
    => \A k \in DOMAIN entries' : Fresh(k)'

LEMMA StoredOutlives == TypeOK /\ [Next]_vars => KeepsFresh
<1> SUFFICES ASSUME TypeOK, [Next]_vars PROVE KeepsFresh
  OBVIOUS
<1>1. ASSUME DOMAIN entries' \subseteq DOMAIN entries PROVE KeepsFresh
  BY <1>1 DEF KeepsFresh
<1>2. ASSUME NEW k \in Keys, NEW truth \in Age, NEW age \in Age, Store(k, truth, age)
      PROVE  KeepsFresh
  BY <1>2, StoreKeepsFresh DEF KeepsFresh
<1>3. ASSUME NEW r \in Runners, Land(r) PROVE KeepsFresh
  <2> DEFINE k == run[r].key
             out == run[r].out
  <2>1. k \in Keys /\ out \in Outcome
    BY <1>3, LandMoves
  <2>2. out.kind \notin Errors => out.truth \in Age /\ out.age \in Age
    BY <2>1, OutcomeFields
  <2>3. \/ out.kind \notin Errors /\ Store(k, out.truth, out.age)
        \/ out.kind \in Errors /\ MarkGone(k, out.kind)
    BY <1>3 DEF Land, StoreOutcome, Errors
  <2> HIDE DEF k, out
  <2>4. CASE out.kind \in Errors /\ MarkGone(k, out.kind)
    BY <1>1, <2>1, <2>4, MarkGoneEffect
  <2> QED BY <1>2, <2>1, <2>2, <2>3, <2>4
<1>4. ASSUME NEW k \in Keys, Invalidate(k) PROVE KeepsFresh
  <2>1. DOMAIN entries' = DOMAIN entries \ {k}
    BY <1>4, WithoutValues DEF Invalidate
  <2> QED BY <1>1, <2>1
<1>5. CASE Tick
  BY <1>1, <1>5, TickMaps
<1>6. ASSUME NEW k \in Keys, NEW a \in Age, Put(k, a) PROVE KeepsFresh
  BY <1>2, <1>6 DEF Put, RowTruths
<1>7. ASSUME UNCHANGED entries PROVE KeepsFresh
  BY <1>1, <1>7
<1>8. ASSUME NEW k \in Keys, GetFresh(k) \/ GetMarked(k) \/ GetStale(k) PROVE KeepsFresh
  BY <1>7, <1>8 DEF GetFresh, GetMarked, GetStale
<1>9. ASSUME NEW c \in Callers, NEW k \in Keys, GetJoin(c, k) \/ GetFetch(c, k) PROVE KeepsFresh
  BY <1>7, <1>9 DEF GetJoin, GetFetch
<1>10. ASSUME NEW r \in Runners, Respond(r) \/ Close(r) PROVE KeepsFresh
  BY <1>7, <1>10 DEF Respond, Close
<1>11. CASE UNCHANGED vars
  BY <1>7, <1>11 DEF vars
<1> QED BY <1>3, <1>4, <1>5, <1>6, <1>8, <1>9, <1>10, <1>11 DEF Next

\* Capacity never costs a fresh entry while an expired one is kept, whatever
\* mix of lifetimes the map holds (evictLocked).
THEOREM FreshAlwaysOutlives == Spec => FreshOutlivesExpired
<1>1. ASSUME KeepsFresh
      PROVE  LET stored == DOMAIN entries' \ DOMAIN entries
                 lost == {k \in DOMAIN entries \ DOMAIN entries' : Fresh(k)}
             IN  stored # {} /\ lost # {} => \A k \in DOMAIN entries' : Fresh(k)'
  BY <1>1 DEF KeepsFresh
<1>2. TypeOK /\ [Next]_vars =>
        [LET stored == DOMAIN entries' \ DOMAIN entries
             lost == {k \in DOMAIN entries \ DOMAIN entries' : Fresh(k)}
         IN  stored # {} /\ lost # {} => \A k \in DOMAIN entries' : Fresh(k)']_vars
  BY <1>1, StoredOutlives
<1> QED BY <1>2, TypeInit, TypeStep, PTL DEF Spec, FreshOutlivesExpired

----------------------------------------------------------------------------
(* Paced.  While BCP's last answer for a key is younger than MinInvalidate, *)
(* its record is at hand, no older than that, and so within its lifetime:   *)
(* Get serves or replays it, and Invalidate refuses.                        *)

RecordAtHand(k) ==
  \/ k \in DOMAIN gone /\ gone[k].age =< sinceBcp[k]
  \/ k \in DOMAIN entries \ DOMAIN gone /\ entries[k].age =< sinceBcp[k]

Remembered == \A k \in DOMAIN sinceBcp : sinceBcp[k] < MinInvalidate => RecordAtHand(k)

\* A key whose record is young is not fetched.
LEMMA YoungIsHeld ==
  ASSUME TypeOK, Remembered, NEW k \in DOMAIN sinceBcp, ~Fresh(k), ~Marked(k)
  PROVE  sinceBcp[k] >= MinInvalidate
<1> SUFFICES ASSUME ~(sinceBcp[k] >= MinInvalidate) PROVE FALSE
  OBVIOUS
<1>1. sinceBcp[k] \in Nat /\ MinInvalidate \in Nat
  BY TimesAssumption DEF TypeOK, IsMap, Age
<1>2. RecordAtHand(k)
  BY <1>1 DEF Remembered
<1>3. ASSUME k \in DOMAIN gone, gone[k].age =< sinceBcp[k] PROVE Marked(k)
  <2>1. gone[k].age \in Nat /\ gone[k].ttl \in {GoneTTL, Backoff}
    BY <1>3, MarkerFields DEF Marker, Age
  <2>2. gone[k].ttl \in Nat /\ MinInvalidate =< gone[k].ttl
    BY <2>1, TimesAssumption
  <2> QED BY <1>1, <1>3, <2>1, <2>2 DEF Marked, Live
<1>4. ASSUME k \in DOMAIN entries, entries[k].age =< sinceBcp[k] PROVE Fresh(k)
  <2>1. entries[k].age \in Nat /\ entries[k].ttl \in Ttls
    BY <1>4, EntryFields DEF Age
  <2>2. entries[k].ttl \in 1..MaxTtl /\ MinInvalidate =< entries[k].ttl
    BY <2>1, TimesAssumption
  <2> QED BY <1>1, <1>4, <2>1, <2>2, TimesAssumption DEF Fresh, Live
<1> QED BY <1>2, <1>3, <1>4 DEF RecordAtHand

\* Storing a value records it for its key and leaves the other records alone.
LEMMA StoreRemembers ==
  ASSUME TypeOK, Remembered, NEW k \in Keys, NEW truth \in Age, NEW age \in Age,
         Store(k, truth, age), NEW out, NoteBcp(k, out),
         out.kind \in {"live", "row"}, out.kind = "live" => out.age = age
  PROVE  Remembered'
<1> SUFFICES ASSUME NEW x \in DOMAIN sinceBcp', sinceBcp'[x] < MinInvalidate
             PROVE  RecordAtHand(x)'
  BY DEF Remembered
<1>1. /\ DOMAIN gone' \subseteq DOMAIN gone \ {k}
      /\ \A y \in DOMAIN entries' \ {k} : entries'[y] = entries[y]
      /\ k \in DOMAIN entries' => entries'[k].age = age
      /\ \A y \in DOMAIN gone' : gone'[y] = gone[y]
  BY StoreEffect
<1>2. CASE x = k
  <2>1. /\ out.kind # "row"
        /\ sinceBcp'[k] = IF out.kind = "live" THEN out.age ELSE 0
        /\ k \in IF out.kind \in Errors THEN DOMAIN gone' ELSE DOMAIN entries'
    BY <1>2, NoteBcpEffect
  <2>2. sinceBcp'[k] = age /\ k \in DOMAIN entries'
    BY <2>1 DEF Errors
  <2> QED BY <1>1, <1>2, <2>2 DEF RecordAtHand, Age
<1>3. CASE x # k
  <2>1. x \in DOMAIN sinceBcp /\ sinceBcp'[x] = sinceBcp[x] /\ StillRecorded(x)
    BY <1>3, NoteBcpEffect
  <2>2. RecordAtHand(x)
    BY <2>1 DEF Remembered
  <2> QED BY <1>1, <1>3, <2>1, <2>2 DEF RecordAtHand, StillRecorded
<1> QED BY <1>2, <1>3

LEMMA MarkRemembers ==
  ASSUME TypeOK, Remembered, NEW k \in Keys, NEW out, out.kind \in Errors,
         MarkGone(k, out.kind), NoteBcp(k, out)
  PROVE  Remembered'
<1> SUFFICES ASSUME NEW x \in DOMAIN sinceBcp', sinceBcp'[x] < MinInvalidate
             PROVE  RecordAtHand(x)'
  BY DEF Remembered
<1>1. /\ UNCHANGED entries
      /\ DOMAIN gone' \subseteq DOMAIN gone \cup {k}
      /\ \A y \in DOMAIN gone' \ {k} : gone'[y] = gone[y]
      /\ k \in DOMAIN gone' => gone'[k].age = 0
  BY MarkGoneEffect
<1>2. CASE x = k
  <2>1. /\ sinceBcp'[k] = IF out.kind = "live" THEN out.age ELSE 0
        /\ k \in IF out.kind \in Errors THEN DOMAIN gone' ELSE DOMAIN entries'
    BY <1>2, NoteBcpEffect DEF Errors
  <2>2. sinceBcp'[k] = 0 /\ k \in DOMAIN gone'
    BY <2>1 DEF Errors
  <2> QED BY <1>1, <1>2, <2>2 DEF RecordAtHand
<1>3. CASE x # k
  <2>1. x \in DOMAIN sinceBcp /\ sinceBcp'[x] = sinceBcp[x] /\ StillRecorded(x)
    BY <1>3, NoteBcpEffect DEF Errors
  <2>2. RecordAtHand(x)
    BY <2>1 DEF Remembered
  <2> QED BY <1>1, <1>3, <2>1, <2>2 DEF RecordAtHand, StillRecorded
<1> QED BY <1>2, <1>3

LEMMA PaceStep == TypeOK /\ Remembered /\ [Next]_vars => Remembered'
<1> SUFFICES ASSUME TypeOK, Remembered, [Next]_vars PROVE Remembered'
  OBVIOUS
<1>1. ASSUME NEW r \in Runners, Land(r) PROVE Remembered'
  <2> DEFINE k == run[r].key
             out == run[r].out
  <2>1. k \in Keys /\ out \in Outcome
    BY <1>1, LandMoves
  <2>2. /\ out.kind \in Errors \cup {"live", "row"}
        /\ out.kind \notin Errors => out.truth \in Age /\ out.age \in Age
    BY <2>1, OutcomeFields
  <2>3. /\ \/ out.kind \notin Errors /\ Store(k, out.truth, out.age)
           \/ out.kind \in Errors /\ MarkGone(k, out.kind)
        /\ NoteBcp(k, out)
    BY <1>1 DEF Land, StoreOutcome, Errors
  <2> HIDE DEF k, out
  <2>4. CASE out.kind \notin Errors /\ Store(k, out.truth, out.age)
    BY <2>1, <2>2, <2>3, <2>4, StoreRemembers
  <2>5. CASE out.kind \in Errors /\ MarkGone(k, out.kind)
    BY <2>1, <2>3, <2>5, MarkRemembers
  <2> QED BY <2>3, <2>4, <2>5
<1>2. ASSUME NEW k \in Keys, Invalidate(k) PROVE Remembered'
  <2> SUFFICES ASSUME NEW x \in DOMAIN sinceBcp, sinceBcp[x] < MinInvalidate
               PROVE  RecordAtHand(x)'
    BY <1>2 DEF Invalidate, Remembered
  <2>1. OldEnough(k) /\ UNCHANGED sinceBcp
    BY <1>2 DEF Invalidate
  <2>2. RecordAtHand(x)
    BY DEF Remembered
  <2>3. x # k
    <3>1. /\ k \in DOMAIN entries => entries[k].age \in Nat
          /\ k \in DOMAIN gone => gone[k].age \in Nat
          /\ sinceBcp[x] \in Nat /\ MinInvalidate \in Nat
      BY EntryFields, MarkerFields, TimesAssumption DEF TypeOK, IsMap, Age
    <3> QED BY <2>1, <2>2, <3>1 DEF OldEnough, RecordAtHand
  <2>4. /\ DOMAIN entries' = DOMAIN entries \ {k} /\ DOMAIN gone' = DOMAIN gone \ {k}
        /\ \A y \in DOMAIN entries \ {k} : entries'[y] = entries[y]
        /\ \A y \in DOMAIN gone \ {k} : gone'[y] = gone[y]
    BY <1>2, WithoutValues DEF Invalidate
  <2> QED BY <2>1, <2>2, <2>3, <2>4 DEF RecordAtHand
<1>3. ASSUME NEW k \in Keys, NEW a \in Age, Put(k, a) PROVE Remembered'
  <2>1. NoteBcp(k, [kind |-> "row"]) /\ \E truth \in Age : Store(k, truth, a)
    BY <1>3 DEF Put, RowTruths
  <2> QED BY <2>1, StoreRemembers
<1>4. CASE Tick
  <2> SUFFICES ASSUME NEW k \in DOMAIN sinceBcp', sinceBcp'[k] < MinInvalidate
               PROVE  RecordAtHand(k)'
    BY DEF Remembered
  <2>1. /\ k \in DOMAIN sinceBcp /\ sinceBcp'[k] = Older(sinceBcp[k])
        /\ sinceBcp[k] \in Age
    BY <1>4 DEF Tick, TypeOK, IsMap
  <2>2. RecordAtHand(k)
    BY <2>1, TimesAssumption DEF Remembered, Older, Age
  <2>3. /\ DOMAIN entries' = DOMAIN entries /\ DOMAIN gone' = DOMAIN gone
        /\ k \in DOMAIN entries => entries'[k].age = Older(entries[k].age)
        /\ k \in DOMAIN gone => gone'[k].age = Older(gone[k].age)
    BY <1>4, TickMaps
  <2>4. /\ k \in DOMAIN entries => entries[k].age \in Age
        /\ k \in DOMAIN gone => gone[k].age \in Age
    BY EntryFields, MarkerFields
  <2>5. \A a, b \in Age : a =< b => Older(a) =< Older(b)
    BY TimesAssumption DEF Older, Age
  <2> QED BY <2>1, <2>2, <2>3, <2>4, <2>5 DEF RecordAtHand
<1>5. ASSUME UNCHANGED <<entries, gone, sinceBcp>> PROVE Remembered'
  BY <1>5 DEF Remembered, RecordAtHand
<1>6. ASSUME NEW k \in Keys, GetFresh(k) \/ GetMarked(k) \/ GetStale(k) PROVE Remembered'
  BY <1>5, <1>6 DEF GetFresh, GetMarked, GetStale
<1>7. ASSUME NEW c \in Callers, NEW k \in Keys, GetJoin(c, k) \/ GetFetch(c, k)
      PROVE  Remembered'
  BY <1>5, <1>7 DEF GetJoin, GetFetch
<1>8. ASSUME NEW r \in Runners, Respond(r) \/ Close(r) PROVE Remembered'
  BY <1>5, <1>8 DEF Respond, Close
<1>9. CASE UNCHANGED vars
  BY <1>5, <1>9 DEF vars
<1> QED BY <1>1, <1>2, <1>3, <1>4, <1>6, <1>7, <1>8, <1>9 DEF Next

PacedAction ==
  \A k \in (DOMAIN inFlight' \ DOMAIN inFlight) \cap DOMAIN sinceBcp :
    sinceBcp[k] >= MinInvalidate

LEMMA StepPaced == TypeOK /\ Remembered /\ [Next]_vars => PacedAction
<1> SUFFICES ASSUME TypeOK, Remembered, [Next]_vars,
                    NEW k \in DOMAIN inFlight' \ DOMAIN inFlight, k \in DOMAIN sinceBcp
             PROVE  sinceBcp[k] >= MinInvalidate
  BY DEF PacedAction
<1> SUFFICES ~Fresh(k) /\ ~Marked(k)
  BY YoungIsHeld
<1>1. ASSUME NEW r \in Runners, NEW x \in Keys, StartFetch(r, x) PROVE x = k
  BY <1>1, StartFetchEffect
<1>2. ~(DOMAIN inFlight' \subseteq DOMAIN inFlight)
  OBVIOUS
<1>3. ASSUME NEW x \in Keys, GetStale(x) PROVE ~Fresh(k) /\ ~Marked(k)
  <2>1. ~Fresh(x) /\ ~Marked(x)
        /\ (UNCHANGED inFlight \/ \E w \in Workers : StartFetch(w, x))
    BY <1>3 DEF GetStale, Revalidate
  <2> QED BY <1>1, <1>2, <2>1 DEF Runners
<1>4. ASSUME NEW c \in Callers, NEW x \in Keys, GetFetch(c, x) PROVE ~Fresh(k) /\ ~Marked(k)
  <2>1. ~Fresh(x) /\ ~Marked(x) /\ StartFetch(c, x)
    BY <1>4 DEF GetFetch, MustFetch
  <2> QED BY <1>1, <2>1 DEF Runners
<1>5. ASSUME NEW r \in Runners, Land(r) PROVE FALSE
  BY <1>2, <1>5, WithoutValues DEF Land, Unregister
<1>6. UNCHANGED inFlight => FALSE
  BY <1>2
<1>7. ASSUME NEW x \in Keys, GetFresh(x) \/ GetMarked(x) \/ Invalidate(x) PROVE FALSE
  BY <1>6, <1>7 DEF GetFresh, GetMarked, Invalidate
<1>8. ASSUME NEW c \in Callers, NEW x \in Keys, GetJoin(c, x) PROVE FALSE
  BY <1>6, <1>8 DEF GetJoin
<1>9. ASSUME NEW r \in Runners, Respond(r) \/ Close(r) PROVE FALSE
  BY <1>6, <1>9 DEF Respond, Close
<1>10. ASSUME NEW x \in Keys, NEW a \in Age, Put(x, a) PROVE FALSE
  BY <1>6, <1>10 DEF Put
<1>11. Tick => FALSE
  BY <1>6 DEF Tick
<1>12. UNCHANGED vars => FALSE
  BY <1>6 DEF vars
<1> QED
  BY <1>3, <1>4, <1>5, <1>7, <1>8, <1>9, <1>10, <1>11, <1>12 DEF Next

\* BCP is never asked for a key sooner than MinInvalidate after it answered for
\* it, as long as that answer's record was not evicted: neither Get nor any run
\* of Invalidate calls gets past it.
THEOREM AlwaysPaced == Spec => Paced
<1>1. Init => Remembered
  BY DEF Init, Remembered, EmptyMap
<1> QED
  BY <1>1, TypeInit, TypeStep, PaceStep, StepPaced, PTL DEF Spec, Paced, PacedAction

----------------------------------------------------------------------------
(* The cache keeps its promise, step by step (the safety of Implements).    *)
(* Beside SingleFlight's invariant this needs that whoever is registered is *)
(* asking, so that a caller who joins does wait on a fetch of its key.      *)

RegisteredAsk ==
  \A k \in DOMAIN inFlight :
    run[inFlight[k]].pc \in {"upstream", "landing"} /\ run[inFlight[k]].key = k

PromiseInv == FlightInv /\ RegisteredAsk /\ DateInv

LEMMA StartKeepsAsking ==
  ASSUME FlightInv, RegisteredAsk, NEW r \in Runners, NEW k \in Keys, StartFetch(r, k),
         run[r].pc = "idle"
  PROVE  RegisteredAsk'
<1>1. /\ DOMAIN inFlight' = DOMAIN inFlight \cup {k} /\ inFlight'[k] = r
      /\ \A x \in DOMAIN inFlight \ {k} : inFlight'[x] = inFlight[x]
      /\ run'[r] = [pc |-> "upstream", key |-> k, age |-> 0]
      /\ \A x \in Runners \ {r} : run'[x] = run[x]
  BY StartFetchEffect DEF FlightInv
<1>2. \A x \in DOMAIN inFlight : inFlight[x] \in Runners /\ inFlight[x] # r
  BY DEF FlightInv, TypeOK, IsMap, RegisteredAsk
<1> QED BY <1>1, <1>2 DEF RegisteredAsk

\* A caller that is not waiting is not inside runFetch.
LEMMA FreeIsIdle ==
  ASSUME FlightInv, NEW c \in Callers, c \notin DOMAIN waiting
  PROVE  c \in Runners /\ run[c].pc = "idle"
  BY DEF FlightInv, CallersWait, Runners

LEMMA AskingStep == FlightInv /\ RegisteredAsk /\ [Next]_vars => RegisteredAsk'
<1> SUFFICES ASSUME FlightInv, RegisteredAsk, [Next]_vars PROVE RegisteredAsk'
  OBVIOUS
<1>0. TypeOK /\ Workers \subseteq Runners /\ \A k \in DOMAIN inFlight : inFlight[k] \in Runners
  BY DEF FlightInv, TypeOK, IsMap, Runners
<1>1. ASSUME UNCHANGED <<inFlight, run>> PROVE RegisteredAsk'
  BY <1>1 DEF RegisteredAsk
<1>2. ASSUME NEW k \in Keys, GetStale(k) PROVE RegisteredAsk'
  <2>1. \/ UNCHANGED <<inFlight, run>>
        \/ \E w \in Workers : run[w].pc = "idle" /\ StartFetch(w, k)
    BY <1>2 DEF GetStale, Revalidate
  <2> QED BY <1>0, <1>1, <2>1, StartKeepsAsking
<1>3. ASSUME NEW c \in Callers, NEW k \in Keys, GetFetch(c, k) PROVE RegisteredAsk'
  <2>1. StartFetch(c, k) /\ c \notin DOMAIN waiting
    BY <1>3 DEF GetFetch
  <2> QED BY <2>1, FreeIsIdle, StartKeepsAsking
<1>4. ASSUME NEW r \in Runners, Respond(r) PROVE RegisteredAsk'
  <2>1. PICK out \in Responses(run[r].age) :
          /\ run'[r] = [pc |-> "landing", key |-> run[r].key, age |-> run[r].age, out |-> out]
          /\ \A x \in Runners \ {r} : run'[x] = run[x]
    BY <1>0, <1>4, RespondEffect
  <2>2. run'[r].pc = "landing" /\ run'[r].key = run[r].key
    BY <2>1
  <2>3. UNCHANGED inFlight
    BY <1>4 DEF Respond
  <2> QED BY <1>0, <2>1, <2>2, <2>3 DEF RegisteredAsk
<1>5. ASSUME NEW r \in Runners, Land(r) PROVE RegisteredAsk'
  <2>1. \A x \in Runners \ {r} : run'[x] = run[x]
    BY <1>0, <1>5, LandMoves
  <2>2. /\ DOMAIN inFlight' = DOMAIN inFlight \ {run[r].key}
        /\ \A x \in DOMAIN inFlight \ {run[r].key} : inFlight'[x] = inFlight[x]
    BY <1>5, WithoutValues DEF Land, Unregister
  <2>3. \A x \in DOMAIN inFlight \ {run[r].key} : inFlight[x] # r
    BY DEF RegisteredAsk
  <2> QED BY <1>0, <2>1, <2>2, <2>3 DEF RegisteredAsk
<1>6. ASSUME NEW r \in Runners, Close(r) PROVE RegisteredAsk'
  <2>1. /\ run[r].pc = "closing" /\ UNCHANGED inFlight
        /\ \A x \in Runners \ {r} : run'[x] = run[x]
    BY <1>0, <1>6, CloseMoves DEF Close
  <2>2. \A x \in DOMAIN inFlight : inFlight[x] # r
    BY <2>1 DEF RegisteredAsk
  <2> QED BY <1>0, <2>1, <2>2 DEF RegisteredAsk
<1>7. CASE Tick
  <2>1. UNCHANGED inFlight
    BY <1>7 DEF Tick
  <2>2. \A r \in Runners : /\ run'[r].pc = run[r].pc
                           /\ run[r].pc # "idle" => run'[r].key = run[r].key
    BY <1>0, <1>7, TickRun
  <2> QED BY <1>0, <2>1, <2>2 DEF RegisteredAsk
<1>8. ASSUME NEW k \in Keys, GetFresh(k) \/ GetMarked(k) \/ Invalidate(k) PROVE RegisteredAsk'
  BY <1>1, <1>8 DEF GetFresh, GetMarked, Invalidate
<1>9. ASSUME NEW c \in Callers, NEW k \in Keys, GetJoin(c, k) PROVE RegisteredAsk'
  BY <1>1, <1>9 DEF GetJoin
<1>10. ASSUME NEW k \in Keys, NEW a \in Age, Put(k, a) PROVE RegisteredAsk'
  BY <1>1, <1>10 DEF Put
<1>11. CASE UNCHANGED vars
  BY <1>1, <1>11 DEF vars
<1> QED
  BY <1>2, <1>3, <1>4, <1>5, <1>6, <1>7, <1>8, <1>9, <1>10, <1>11 DEF Next

(* The mapping.  fetching[k] is 1 while k is registered, 0 otherwise. *)

Asked == [k \in Keys |-> Cardinality(Fetching(k))]

Counted == Asked = [k \in Keys |-> IF k \in DOMAIN inFlight THEN 1 ELSE 0]

LEMMA AskedCount == PromiseInv => Counted
<1> SUFFICES ASSUME PromiseInv, NEW k \in Keys
             PROVE  Cardinality(Fetching(k)) = IF k \in DOMAIN inFlight THEN 1 ELSE 0
  BY DEF Asked, Counted
<1> USE DEF PromiseInv
<1>1. CASE k \in DOMAIN inFlight
  <2>1. inFlight[k] \in Runners
    BY <1>1 DEF FlightInv, TypeOK, IsMap
  <2>2. Fetching(k) = {inFlight[k]}
    BY <1>1, <2>1 DEF Fetching, FlightInv, AskersRegistered, RegisteredAsk
  <2> QED BY <1>1, <2>2, FS_Singleton
<1>2. CASE k \notin DOMAIN inFlight
  <2>1. Fetching(k) = {}
    BY <1>2 DEF Fetching, FlightInv, AskersRegistered
  <2> QED BY <1>2, <2>1, FS_EmptySet
<1> QED BY <1>1, <1>2

\* What Get hands out is what the promise allows.
LEMMA GivenIsAcceptable ==
  ASSUME TypeOK', StaleBound', UNCHANGED serveStale, returned' # Silent
  PROVE  returned' \in Promise!Acceptable
<1>1. returned' \in [kind : Errors] \cup [kind : {"data"}, truth : Age]
  BY DEF TypeOK, Returned, Result
<1>2. StaleLimit' = StaleLimit
  BY DEF StaleLimit
<1>3. CASE returned' \in [kind : Errors]
  BY <1>3 DEF Promise!Acceptable, Promise!Errors, Errors
<1>4. CASE returned' \in [kind : {"data"}, truth : Age]
  <2>1. returned'.kind = "data" /\ returned'.truth \in Age
    BY <1>4
  <2>2. returned'.truth =< StaleLimit
    BY <1>2, <2>1 DEF StaleBound
  <2>3. StaleLimit \in Int
    BY TimesAssumption DEF StaleLimit
  <2>4. returned'.truth \in 0..StaleLimit
    BY <2>1, <2>2, <2>3 DEF Age
  <2>5. returned' \in [kind : {"data"}, truth : 0..StaleLimit]
    BY <1>4, <2>4
  <2> QED BY <2>5 DEF Promise!Acceptable
<1> QED BY <1>1, <1>3, <1>4

LEMMA PromiseInit == Init => Promise!Init
<1> SUFFICES ASSUME Init PROVE Promise!Init
  OBVIOUS
<1>1. StaleLimit \in Nat
  BY TimesAssumption DEF Init, StaleLimit
<1>2. \A k \in Keys : Fetching(k) = {}
  BY DEF Init, Fetching
<1>3. [k \in Keys |-> Cardinality(Fetching(k))] = [k \in Keys |-> 0]
  BY <1>2, FS_EmptySet
<1>4. DOMAIN waiting = {} /\ returned = Promise!Silent
  BY DEF Init, EmptyMap, Silent, Promise!Silent
<1> QED BY <1>1, <1>3, <1>4 DEF Promise!Init

\* Registering a goroutine for k starts a fetch of k, and no other.
LEMMA StartIsFetch ==
  ASSUME Counted, Counted', NEW k \in Keys, DOMAIN inFlight' = DOMAIN inFlight \cup {k}
  PROVE  Asked' = [Asked EXCEPT ![k] = 1]
  BY DEF Counted

\* Every step is a step of the promise, or one it does not see.
LEMMA PromiseStep ==
  PromiseInv /\ PromiseInv' /\ [Next]_vars => [Promise!Next]_(Promise!vars)
<1> SUFFICES ASSUME PromiseInv, PromiseInv', [Next]_vars
             PROVE  Promise!Next \/ UNCHANGED Promise!vars
  OBVIOUS
<1>0. /\ FlightInv /\ TypeOK /\ TypeOK' /\ StaleBound'
      /\ Callers \subseteq Runners /\ Workers \subseteq Runners
  BY DEF PromiseInv, FlightInv, DateInv, Runners
<1>a. Counted
  BY AskedCount
<1>b. Counted'
  BY AskedCount, PTL
<1>c. UNCHANGED inFlight => UNCHANGED Asked
  BY <1>a, <1>b DEF Counted
<1>d. UNCHANGED serveStale => UNCHANGED StaleLimit
  BY DEF StaleLimit
<1>e. Silent = Promise!Silent
  BY DEF Silent, Promise!Silent
<1>1. ASSUME NEW k \in Keys, returned' # Silent, Asked' = [Asked EXCEPT ![k] = 1] \/ UNCHANGED Asked,
             UNCHANGED <<serveStale, waiting>>
      PROVE  Promise!Next
  <2>1. returned' \in Promise!Acceptable
    BY <1>0, <1>1, GivenIsAcceptable
  <2>2. Promise!Answer(k)
    BY <1>1, <1>d, <2>1 DEF Promise!Answer, Promise!Fetch, Asked
  <2> QED BY <2>2 DEF Promise!Next
<1>2. ASSUME returned' = Silent, UNCHANGED <<serveStale, waiting>>, UNCHANGED Asked
      PROVE  Promise!Next
  <2>1. Promise!Quiet
    BY <1>2, <1>d, <1>e DEF Promise!Quiet, Asked
  <2> QED BY <2>1 DEF Promise!Next
<1>3. ASSUME NEW c \in Callers, NEW k \in Keys, c \notin DOMAIN waiting,
             DOMAIN waiting' = DOMAIN waiting \cup {c}, returned' = Silent,
             UNCHANGED serveStale, Asked' = [Asked EXCEPT ![k] = 1]
      PROVE  Promise!Next
  <2>1. Promise!Block(c, k)
    BY <1>3, <1>d, <1>e DEF Promise!Block, Promise!Fetch, Asked
  <2> QED BY <2>1 DEF Promise!Next
<1>4. ASSUME NEW k \in Keys, GetFresh(k) \/ GetMarked(k) PROVE Promise!Next
  <2>1. UNCHANGED <<serveStale, inFlight, waiting>>
    BY <1>4 DEF GetFresh, GetMarked
  <2>2. returned' # Silent
    BY <1>0, <1>4, MarkerFields
    DEF GetFresh, GetMarked, Marked, Live, ReturnEntry, Return, Silent, Errors
  <2> QED BY <1>1, <1>c, <2>1, <2>2
<1>5. ASSUME NEW k \in Keys, GetStale(k) PROVE Promise!Next
  <2>1. UNCHANGED <<serveStale, waiting>> /\ returned' # Silent
    BY <1>5 DEF GetStale, ReturnEntry, Return, Silent
  <2>2. UNCHANGED inFlight \/ \E w \in Workers : StartFetch(w, k)
    BY <1>5 DEF GetStale, Revalidate
  <2>3. UNCHANGED Asked \/ Asked' = [Asked EXCEPT ![k] = 1]
    <3>1. ASSUME NEW w \in Workers, StartFetch(w, k)
          PROVE  DOMAIN inFlight' = DOMAIN inFlight \cup {k}
      BY <1>0, <3>1, StartFetchEffect
    <3> QED BY <1>a, <1>b, <1>c, <2>2, <3>1, StartIsFetch
  <2> QED BY <1>1, <2>1, <2>3
<1>6. ASSUME NEW c \in Callers, NEW k \in Keys, GetJoin(c, k) PROVE Promise!Next
  <2>1. /\ c \notin DOMAIN waiting /\ k \in DOMAIN inFlight
        /\ waiting' = With(waiting, c, inFlight[k])
        /\ returned' = Silent /\ UNCHANGED <<serveStale, inFlight>>
    BY <1>6 DEF GetJoin, Return
  <2>2. DOMAIN waiting' = DOMAIN waiting \cup {c}
    BY <2>1 DEF With
  <2>3. Asked' = [Asked EXCEPT ![k] = 1]
    BY <1>a, <1>b, <2>1, StartIsFetch
  <2> QED BY <1>3, <2>1, <2>2, <2>3
<1>7. ASSUME NEW c \in Callers, NEW k \in Keys, GetFetch(c, k) PROVE Promise!Next
  <2>1. /\ c \notin DOMAIN waiting /\ StartFetch(c, k) /\ waiting' = With(waiting, c, c)
        /\ returned' = Silent /\ UNCHANGED serveStale
    BY <1>7 DEF GetFetch, Return
  <2>2. DOMAIN waiting' = DOMAIN waiting \cup {c}
    BY <2>1 DEF With
  <2>3. DOMAIN inFlight' = DOMAIN inFlight \cup {k}
    BY <1>0, <2>1, StartFetchEffect
  <2>4. Asked' = [Asked EXCEPT ![k] = 1]
    BY <1>a, <1>b, <2>3, StartIsFetch
  <2> QED BY <1>3, <2>1, <2>2, <2>4
<1>8. ASSUME NEW r \in Runners, Land(r) PROVE Promise!Next
  <2> DEFINE k == run[r].key
  <2>1. /\ k \in Keys /\ k \in DOMAIN inFlight
    BY <1>0, <1>8, LandMoves DEF FlightInv, AskersRegistered
  <2>2. DOMAIN inFlight' = DOMAIN inFlight \ {k}
    BY <1>8, WithoutValues DEF Land, Unregister
  <2>3. returned' = Silent /\ UNCHANGED <<serveStale, waiting>>
    BY <1>8 DEF Land, Return
  <2> HIDE DEF k
  <2>4. Asked[k] = 1 /\ Asked' = [Asked EXCEPT ![k] = 0]
    BY <1>a, <1>b, <2>1, <2>2 DEF Counted
  <2>5. Promise!Finish(k)
    BY <1>d, <1>e, <2>3, <2>4 DEF Promise!Finish, Asked
  <2> QED BY <2>1, <2>5 DEF Promise!Next
<1>9. ASSUME NEW r \in Runners, Close(r) PROVE Promise!Next
  <2> DEFINE W == Waiters(r)
  <2>1. /\ UNCHANGED <<serveStale, inFlight>>
        /\ waiting' = Without(waiting, W)
        /\ returned' = IF W = {} THEN Silent ELSE run[r].result
    BY <1>9 DEF Close, Return
  <2>2. DOMAIN waiting' = DOMAIN waiting \ W /\ W \subseteq DOMAIN waiting
    BY <2>1, WithoutValues DEF Waiters
  <2>3. W \subseteq Callers
    BY <1>0, <2>2 DEF TypeOK, IsMap
  <2> HIDE DEF W
  <2>4. CASE W = {}
    <3>1. returned' = Silent /\ DOMAIN waiting' = DOMAIN waiting
      BY <2>1, <2>2, <2>4
    <3>2. Promise!Quiet
      BY <1>c, <1>d, <1>e, <2>1, <3>1 DEF Promise!Quiet, Asked
    <3> QED BY <3>2 DEF Promise!Next
  <2>5. CASE W # {}
    <3>1. returned' # Silent
      <4>1. run[r].result \in Result
        BY <1>0, <1>9, RunFields DEF Close, TypeOK
      <4> QED BY <2>1, <2>5, <4>1, ResultFields
    <3>2. returned' \in Promise!Acceptable
      BY <1>0, <2>1, <3>1, GivenIsAcceptable
    <3>3. Promise!Release(W)
      BY <1>c, <1>d, <2>1, <2>2, <2>5, <3>2 DEF Promise!Release, Asked
    <3> QED BY <2>3, <3>3 DEF Promise!Next
  <2> QED BY <2>4, <2>5
<1>10. ASSUME NEW r \in Runners, Respond(r) PROVE Promise!Next
  BY <1>2, <1>10, <1>c DEF Respond, Return
<1>11. ASSUME NEW k \in Keys, Invalidate(k) \/ \E a \in Age : Put(k, a) PROVE Promise!Next
  BY <1>2, <1>11, <1>c DEF Invalidate, Put, Return
<1>12. CASE Tick
  BY <1>2, <1>12, <1>c DEF Tick, Return
<1>13. CASE UNCHANGED vars
  BY <1>13, <1>c, <1>d DEF vars, Promise!vars, Asked
<1> QED
  BY <1>4, <1>5, <1>6, <1>7, <1>8, <1>9, <1>10, <1>11, <1>12, <1>13 DEF Next

\* The cache keeps the safety of its promise to the handlers: whatever happens to
\* entries, markers and goroutines, a handler sees one fetch of a key at a time,
\* answers of bounded staleness or errors, and blocks only on a fetch of its key.
THEOREM KeepsPromise == Spec => Promise!Safety
<1>1. Init => PromiseInv
  <2>1. Init => RegisteredAsk
    BY DEF Init, RegisteredAsk, EmptyMap
  <2> QED BY <2>1, FlightInit, DateInit DEF PromiseInv
<1>2. PromiseInv /\ [Next]_vars => PromiseInv'
  BY FlightStep, AskingStep, DateStep DEF PromiseInv
<1> QED BY <1>1, <1>2, PromiseInit, PromiseStep, PTL DEF Spec, Promise!Safety

----------------------------------------------------------------------------
(* Nobody is stranded: the safety under every caller's return.             *)

\* Every blocked caller waits on a goroutine that has a fetch to bring to its
\* end, and a registered key is one its goroutine is still asking for: neither a
\* waiter nor a key outlives the fetch that is to release it, so that nobody
\* joins a fetch that is over.  What is left to liveness is that a fetch ends.
NobodyStranded ==
  /\ \A c \in DOMAIN waiting : run[waiting[c]].pc # "idle"
  /\ \A k \in DOMAIN inFlight :
       run[inFlight[k]].pc \in {"upstream", "landing"} /\ run[inFlight[k]].key = k

\* The first half, of the goroutine each caller waits on.
WaitersHeld == \A c \in DOMAIN waiting : run[waiting[c]].pc # "idle"

\* No step but Close lets a goroutine go idle.
LEMMA StillAtWork ==
  ASSUME FlightInv, RegisteredAsk, [Next]_vars, NEW r \in Runners, run[r].pc # "idle",
         ~Close(r)
  PROVE  run'[r].pc # "idle"
<1>0. TypeOK /\ Workers \subseteq Runners
  BY DEF FlightInv, Runners
<1>1. ASSUME NEW w \in Runners, NEW k \in Keys, StartFetch(w, k) PROVE run'[r].pc # "idle"
  <2>1. /\ run'[w] = [pc |-> "upstream", key |-> k, age |-> 0]
        /\ \A x \in Runners \ {w} : run'[x] = run[x]
    BY <1>0, <1>1, StartFetchEffect
  <2>2. run'[w].pc = "upstream"
    BY <2>1
  <2> QED BY <2>1, <2>2
<1>2. ASSUME NEW k \in Keys, GetStale(k) PROVE run'[r].pc # "idle"
  BY <1>0, <1>1, <1>2 DEF GetStale, Revalidate
<1>3. ASSUME NEW c \in Callers, NEW k \in Keys, GetFetch(c, k) PROVE run'[r].pc # "idle"
  BY <1>1, <1>3 DEF GetFetch, Runners
<1>4. ASSUME NEW x \in Runners, Respond(x) PROVE run'[r].pc # "idle"
  <2>1. PICK out \in Responses(run[x].age) :
          /\ run'[x] = [pc |-> "landing", key |-> run[x].key, age |-> run[x].age, out |-> out]
          /\ \A y \in Runners \ {x} : run'[y] = run[y]
    BY <1>0, <1>4, RespondEffect
  <2>2. run'[x].pc = "landing"
    BY <2>1
  <2> QED BY <2>1, <2>2
<1>5. ASSUME NEW x \in Runners, Land(x) PROVE run'[r].pc # "idle"
  <2>1. run'[x].pc = "closing" /\ \A y \in Runners \ {x} : run'[y] = run[y]
    BY <1>0, <1>5, LandMoves
  <2> QED BY <2>1
<1>6. ASSUME NEW x \in Runners, Close(x) PROVE run'[r].pc # "idle"
  <2>1. x # r /\ \A y \in Runners \ {x} : run'[y] = run[y]
    BY <1>0, <1>6, CloseMoves
  <2> QED BY <2>1
<1>7. CASE Tick
  BY <1>0, <1>7, TickRun
<1>8. CASE UNCHANGED run
  BY <1>8
<1>9. ASSUME NEW k \in Keys, \/ GetFresh(k) \/ GetMarked(k) \/ Invalidate(k)
                             \/ \E c \in Callers : GetJoin(c, k)
                             \/ \E a \in Age : Put(k, a)
      PROVE  UNCHANGED run
  BY <1>9 DEF GetFresh, GetMarked, Invalidate, GetJoin, Put
<1> QED
  BY <1>2, <1>3, <1>4, <1>5, <1>6, <1>7, <1>8, <1>9 DEF Next, vars

LEMMA HeldStep ==
  FlightInv /\ RegisteredAsk /\ WaitersHeld /\ [Next]_vars => WaitersHeld'
<1> SUFFICES ASSUME FlightInv, RegisteredAsk, WaitersHeld, [Next]_vars,
                    NEW c \in DOMAIN waiting'
             PROVE  run'[waiting'[c]].pc # "idle"
  BY DEF WaitersHeld
<1>0. /\ TypeOK /\ Callers \subseteq Runners
      /\ \A x \in DOMAIN waiting : waiting[x] \in Runners
      /\ \A k \in DOMAIN inFlight : inFlight[k] \in Runners
  BY DEF FlightInv, TypeOK, IsMap, Runners
<1>1. ASSUME NEW x \in Callers, NEW k \in Keys, GetJoin(x, k)
      PROVE  run'[waiting'[c]].pc # "idle"
  <2>1. /\ k \in DOMAIN inFlight /\ waiting' = With(waiting, x, inFlight[k]) /\ UNCHANGED run
    BY <1>1 DEF GetJoin
  <2>2. run[inFlight[k]].pc # "idle"
    BY <2>1 DEF RegisteredAsk
  <2> QED BY <2>1, <2>2 DEF With, WaitersHeld
<1>2. ASSUME NEW x \in Callers, NEW k \in Keys, GetFetch(x, k)
      PROVE  run'[waiting'[c]].pc # "idle"
  <2>1. StartFetch(x, k) /\ waiting' = With(waiting, x, x) /\ x \notin DOMAIN waiting
    BY <1>2 DEF GetFetch
  <2>2. /\ run'[x] = [pc |-> "upstream", key |-> k, age |-> 0]
        /\ \A y \in Runners \ {x} : run'[y] = run[y]
    BY <1>0, <2>1, StartFetchEffect
  <2>3. run'[x].pc = "upstream"
    BY <2>2
  <2> QED BY <1>0, <2>1, <2>2, <2>3 DEF With, WaitersHeld
<1>3. ASSUME NEW r \in Runners, Close(r) PROVE run'[waiting'[c]].pc # "idle"
  <2>1. c \in DOMAIN waiting /\ waiting[c] # r /\ waiting'[c] = waiting[c]
        /\ \A y \in Runners \ {r} : run'[y] = run[y]
    BY <1>0, <1>3, CloseMoves
  <2> QED BY <1>0, <2>1 DEF WaitersHeld
<1>4. ASSUME UNCHANGED waiting, \A r \in Runners : ~Close(r)
      PROVE  run'[waiting'[c]].pc # "idle"
  BY <1>0, <1>4, StillAtWork DEF WaitersHeld
<1>5. \/ UNCHANGED waiting
      \/ \E x \in Callers, k \in Keys : GetJoin(x, k) \/ GetFetch(x, k)
      \/ \E r \in Runners : Close(r)
  <2>1. ASSUME NEW k \in Keys, \/ GetFresh(k) \/ GetMarked(k) \/ GetStale(k)
                               \/ Invalidate(k) \/ \E a \in Age : Put(k, a)
        PROVE  UNCHANGED waiting
    BY <2>1 DEF GetFresh, GetMarked, GetStale, Invalidate, Put
  <2>2. ASSUME NEW r \in Runners, Respond(r) \/ Land(r) PROVE UNCHANGED waiting
    BY <2>2 DEF Respond, Land
  <2>3. Tick \/ UNCHANGED vars => UNCHANGED waiting
    BY DEF Tick, vars
  <2> QED BY <2>1, <2>2, <2>3 DEF Next
<1> QED BY <1>1, <1>2, <1>3, <1>4, <1>5

\* A caller of Get that has to wait always has a goroutine to wait for, and a
\* fetch that is registered one that is asking, for any callers, workers, keys
\* and mix of Get, Invalidate, Put and failures.
THEOREM NobodyEverStranded == Spec => []NobodyStranded
<1>1. Init => FlightInv /\ RegisteredAsk /\ WaitersHeld
  BY FlightInit DEF Init, RegisteredAsk, WaitersHeld, EmptyMap
<1>2. /\ FlightInv /\ RegisteredAsk /\ WaitersHeld /\ [Next]_vars
      => (FlightInv /\ RegisteredAsk /\ WaitersHeld)'
  BY FlightStep, AskingStep, HeldStep
<1>3. FlightInv /\ RegisteredAsk /\ WaitersHeld => NobodyStranded
  BY DEF RegisteredAsk, WaitersHeld, NobodyStranded
<1> QED BY <1>1, <1>2, <1>3, PTL DEF Spec

=============================================================================
