------------------------- MODULE SessionCacheProofs -------------------------
(***************************************************************************)
(* Safety of SessionCache, for every number of users, tokens and requests  *)
(* and every bound.                                                        *)
(***************************************************************************)
EXTENDS SessionCache, TLAPS

\* Restricting the cache's map keeps it a map of entries.
LEMMA MapRestrict ==
  ASSUME NEW m, m \in [DOMAIN m -> Entry], DOMAIN m \subseteq Tokens, NEW S \in SUBSET DOMAIN m
  PROVE  /\ Restrict(m, S) \in [DOMAIN Restrict(m, S) -> Entry]
         /\ DOMAIN Restrict(m, S) = S
         /\ \A t \in S : Restrict(m, S)[t] = m[t]
  BY DEF Restrict

\* The sweep before an insertion only removes entries.
LEMMA SweptSubset ==
  ASSUME TypeOK
  PROVE  /\ Swept \in [DOMAIN Swept -> Entry]
         /\ DOMAIN Swept \subseteq DOMAIN entries
         /\ \A t \in DOMAIN Swept : Swept[t] = entries[t]
<1> DEFINE S == {t \in DOMAIN entries : entries[t].fresh}
<1>1. S \in SUBSET DOMAIN entries
  OBVIOUS
<1>2. /\ Restrict(entries, S) \in [DOMAIN Restrict(entries, S) -> Entry]
      /\ DOMAIN Restrict(entries, S) = S
      /\ \A t \in S : Restrict(entries, S)[t] = entries[t]
  BY <1>1, MapRestrict DEF TypeOK
<1>3. CASE Cardinality(DOMAIN entries) < MaxSessions
  BY <1>3 DEF Swept, TypeOK
<1>4. CASE ~(Cardinality(DOMAIN entries) < MaxSessions)
  <2>1. Swept = Restrict(entries, S)
    BY <1>4 DEF Swept
  <2> QED BY <2>1, <1>2, <1>1
<1> QED BY <1>3, <1>4

\* What a lookup stores: nothing if a flush overtook it, else its own answer.
LEMMA Remembered ==
  ASSUME TypeOK, NEW p \in Requests, StoreUnlessFlushed(p),
         req[p].token \in Tokens, req[p].ver \in Nat
  PROVE  /\ entries' \in [DOMAIN entries' -> Entry]
         /\ DOMAIN entries' \subseteq DOMAIN entries \cup {req[p].token}
         /\ \A t \in DOMAIN entries' :
              \/ t \in DOMAIN entries /\ entries'[t] = entries[t]
              \/ /\ t = req[p].token /\ generation = req[p].gen
                 /\ entries'[t] = [ver |-> req[p].ver, fresh |-> TRUE]
<1>1. CASE generation # req[p].gen
  BY <1>1 DEF StoreUnlessFlushed, TypeOK
<1>2. CASE generation = req[p].gen
  <2> DEFINE e == [ver |-> req[p].ver, fresh |-> TRUE]
             added == With(Swept, req[p].token, e)
  <2>1. e \in Entry
    BY DEF Entry
  <2>2. DOMAIN Swept \subseteq Tokens
    BY SweptSubset DEF TypeOK
  <2>3. entries' = added
    BY <1>2 DEF StoreUnlessFlushed
  <2>4. /\ added \in [DOMAIN added -> Entry]
        /\ DOMAIN added = DOMAIN Swept \cup {req[p].token}
        /\ added[req[p].token] = e
        /\ \A x \in DOMAIN Swept \ {req[p].token} : added[x] = Swept[x]
    <3> HIDE DEF e
    <3>1. Swept \in [DOMAIN Swept -> Entry]
      BY SweptSubset
    <3>2. added = [x \in DOMAIN Swept \cup {req[p].token} |->
                     IF x = req[p].token THEN e ELSE Swept[x]]
      BY DEF With
    <3>3. DOMAIN added = DOMAIN Swept \cup {req[p].token}
      BY <3>2
    <3>4. \A x \in DOMAIN added : added[x] = IF x = req[p].token THEN e ELSE Swept[x]
      BY <3>2, <3>3
    <3>5. \A x \in DOMAIN added : added[x] \in Entry
      BY <2>1, <3>1, <3>3, <3>4
    <3>6. added \in [DOMAIN added -> Entry]
      BY <3>2, <3>3, <3>5
    <3> QED BY <3>3, <3>4, <3>6
  <2> HIDE DEF added
  <2> QED BY <1>2, <2>3, <2>4, SweptSubset
<1> QED BY <1>1, <1>2

\* What a request holds in each of its states.
LEMMA RequestFields ==
  ASSUME NEW r \in Request
  PROVE  /\ r.pc \in {"idle", "missed", "found", "dropping", "flushing"}
         /\ r.pc \in {"missed", "found"} =>
              r.token \in Tokens /\ r.gen \in Nat /\ r.floor \in Nat
         /\ r.pc = "found" => r.ver \in Nat
         /\ r.pc = "dropping" => r.token \in Tokens /\ r.deleted \in BOOLEAN
  BY DEF Request

----------------------------------------------------------------------------
\* One request moves to another of its states.
LEMMA BecomeType ==
  ASSUME TypeOK, NEW p \in Requests, NEW state \in Request, Become(p, state)
  PROVE  /\ req' \in [Requests -> Request]
         /\ req'[p] = state
         /\ \A q \in Requests \ {p} : req'[q] = req[q]
  BY DEF TypeOK, Become

\* What a lookup returns is one answer.
LEMMA AnswerType ==
  ASSUME NEW t \in Tokens, NEW ver \in Nat, NEW floor \in Nat, Answer(t, ver, floor)
  PROVE  answered' \subseteq Lookup /\ \A a, b \in answered' : a = b
  BY OwnerAssumption DEF Answer, Lookup

\* Every step keeps every variable's type.
LEMMA TypeStep == TypeOK /\ [Next]_vars => TypeOK'
<1> SUFFICES ASSUME TypeOK, [Next]_vars PROVE TypeOK'
  OBVIOUS
<1> USE OwnerAssumption
<1>1. ASSUME NEW p \in Requests, NEW t \in Tokens, Hit(p, t) PROVE TypeOK'
  <2>1. entries[t].ver \in Nat /\ visible[Owner[t]] \in Nat
    BY <1>1 DEF Hit, Usable, TypeOK, Entry
  <2>2. answered' \subseteq Lookup /\ \A a, b \in answered' : a = b
    BY <1>1, <2>1, AnswerType DEF Hit
  <2> QED BY <1>1, <2>2 DEF Hit, TypeOK
<1>2. ASSUME NEW p \in Requests, NEW t \in Tokens, Miss(p, t) PROVE TypeOK'
  <2>1. [pc |-> "missed", token |-> t, gen |-> generation, floor |-> visible[Owner[t]]] \in Request
    BY DEF TypeOK, Request
  <2>2. req' \in [Requests -> Request]
    BY <1>2, <2>1, BecomeType DEF Miss
  <2> QED BY <1>2, <2>2 DEF Miss, Quiet, TypeOK
<1>3. ASSUME NEW p \in Requests, NEW t \in Tokens, DeleteRow(p, t) PROVE TypeOK'
  <2>1. PICK done \in BOOLEAN :
          /\ session' = IF done THEN [session EXCEPT ![t] = "deleted"] ELSE session
          /\ Become(p, [pc |-> "dropping", token |-> t, deleted |-> done])
    BY <1>3 DEF DeleteRow
  <2>2. [pc |-> "dropping", token |-> t, deleted |-> done] \in Request
    BY DEF Request
  <2>3. req' \in [Requests -> Request]
    BY <2>1, <2>2, BecomeType
  <2>4. session' \in [Tokens -> RowState]
    BY <2>1 DEF TypeOK, RowState
  <2> QED BY <1>3, <2>3, <2>4 DEF DeleteRow, Quiet, TypeOK
<1>4. ASSUME NEW p \in Requests, Find(p) PROVE TypeOK'
  <2>1. req[p] \in Request /\ req[p].pc = "missed"
    BY <1>4 DEF TypeOK, Find
  <2>2. /\ [pc |-> "found", token |-> req[p].token, gen |-> req[p].gen,
            floor |-> req[p].floor, ver |-> row[Owner[req[p].token]]] \in Request
        /\ [pc |-> "idle"] \in Request
    BY <2>1, RequestFields DEF TypeOK, Request
  <2>3. req' \in [Requests -> Request]
    BY <1>4, <2>2, BecomeType DEF Find
  <2> QED BY <1>4, <2>3 DEF Find, Quiet, TypeOK
<1>5. ASSUME NEW p \in Requests, Remember(p) PROVE TypeOK'
  <2>1. req[p] \in Request /\ req[p].pc = "found"
    BY <1>5 DEF TypeOK, Remember
  <2>2. req[p].ver \in Nat /\ req[p].floor \in Nat /\ req[p].token \in Tokens
    BY <2>1, RequestFields
  <2>3. DOMAIN entries' \subseteq Tokens /\ entries' \in [DOMAIN entries' -> Entry]
    BY <1>5, <2>2, Remembered DEF TypeOK, Remember
  <2>4. req' \in [Requests -> Request]
    BY <1>5, BecomeType DEF Remember, Request
  <2>5. answered' \subseteq Lookup /\ \A a, b \in answered' : a = b
    BY <1>5, <2>2, AnswerType DEF Remember
  <2> QED BY <1>5, <2>3, <2>4, <2>5 DEF Remember, TypeOK
<1>6. ASSUME NEW p \in Requests, FinishSignOut(p) PROVE TypeOK'
  <2>1. req[p] \in Request /\ req[p].pc = "dropping"
    BY <1>6 DEF TypeOK, FinishSignOut
  <2>2. req[p].token \in Tokens
    BY <2>1, RequestFields
  <2>3. DOMAIN entries' \subseteq Tokens /\ entries' \in [DOMAIN entries' -> Entry]
    BY <1>6, MapRestrict DEF FinishSignOut, DropEntry, TypeOK
  <2>4. req' \in [Requests -> Request]
    BY <1>6, BecomeType DEF FinishSignOut, Request
  <2> QED BY <1>6, <2>2, <2>3, <2>4 DEF FinishSignOut, Quiet, TypeOK
<1>7. ASSUME NEW p \in Requests, Flush(p) PROVE TypeOK'
  <2>1. req' \in [Requests -> Request]
    BY <1>7, BecomeType DEF Flush, Request
  <2> QED BY <1>7, <2>1 DEF Flush, EmptyAndBump, EmptyMap, Quiet, TypeOK
<1>8. ASSUME NEW p \in Requests, NEW u \in Users, WriteRow(p, u) PROVE TypeOK'
  <2>1. req' \in [Requests -> Request]
    BY <1>8, BecomeType DEF WriteRow, Request
  <2> QED BY <1>8, <2>1 DEF WriteRow, Quiet, TypeOK
<1>9. ASSUME NEW t \in Tokens, Lapse(t) PROVE TypeOK'
  <2>1. entries' \in [DOMAIN entries' -> Entry] /\ DOMAIN entries' = DOMAIN entries
    BY <1>9 DEF Lapse, Usable, TypeOK, Entry
  <2> QED BY <1>9, <2>1 DEF Lapse, Quiet, TypeOK
<1>10. ASSUME NEW t \in Tokens, CreateSession(t) PROVE TypeOK'
  <2>1. session' \in [Tokens -> RowState]
    BY <1>10 DEF CreateSession, TypeOK, RowState
  <2> QED BY <1>10, <2>1 DEF CreateSession, Quiet, TypeOK
<1>11. ASSUME NEW t \in Tokens, Expire(t) PROVE TypeOK'
  BY <1>11 DEF Expire, Quiet, TypeOK, RowState
<1>12. ASSUME NEW u \in Users, OutsideWrite(u) PROVE TypeOK'
  BY <1>12 DEF OutsideWrite, Quiet, TypeOK
<1>13. CASE Restart
  BY <1>13 DEF Restart, EmptyMap, Quiet, TypeOK, Request
<1>14. CASE UNCHANGED vars
  BY <1>14 DEF vars, TypeOK
<1> QED
  BY <1>1, <1>2, <1>3, <1>4, <1>5, <1>6, <1>7, <1>8, <1>9, <1>10, <1>11, <1>12,
     <1>13, <1>14 DEF Next

\* Type correctness: every variable of the session cache, its two tables and the
\* requests in progress keeps the shape the code gives it.
THEOREM TypeCorrect == Spec => []TypeOK
<1>1. Init => TypeOK
  BY DEF Init, TypeOK, EmptyMap, Request, RowState
<1> QED BY <1>1, TypeStep, PTL DEF Spec

----------------------------------------------------------------------------
(* WritesAreSeen.  What makes it hold: whatever the cache may answer with   *)
(* was read after the last write that returned.  For entries that is so at  *)
(* all times; for a lookup past its query, as long as no flush overtook it, *)
(* which is when it may still store what it read.                           *)

RowsGrow == \A u \in Users : visible[u] =< row[u]

EntriesCurrent == \A t \in DOMAIN entries : entries[t].ver >= visible[Owner[t]]

\* A lookup that started reads no generation from the future, and the rows
\* visible at its start are still visible.
LookupsStarted ==
  \A p \in Requests : req[p].pc \in {"missed", "found"} =>
    req[p].gen =< generation /\ req[p].floor =< visible[Owner[req[p].token]]

LookupsRead ==
  \A p \in Requests : req[p].pc = "found" =>
    /\ req[p].ver >= req[p].floor
    /\ req[p].gen = generation => req[p].ver >= visible[Owner[req[p].token]]

VersionInv ==
  TypeOK /\ RowsGrow /\ EntriesCurrent /\ LookupsStarted /\ LookupsRead /\ WritesAreSeen

LEMMA VersionInit == Init => VersionInv
<1> SUFFICES ASSUME Init PROVE VersionInv
  OBVIOUS
<1>1. TypeOK
  BY DEF Init, TypeOK, EmptyMap, Request, RowState
<1>2. RowsGrow /\ LookupsStarted /\ LookupsRead /\ WritesAreSeen
  BY DEF Init, RowsGrow, LookupsStarted, LookupsRead, WritesAreSeen
<1>3. EntriesCurrent
  BY DEF Init, EmptyMap, EntriesCurrent
<1> QED BY <1>1, <1>2, <1>3 DEF VersionInv

\* A request that moves to a state other than a lookup's disturbs no lookup,
\* nor does one that stays put.
LEMMA NotLooking ==
  ASSUME VersionInv, NEW p \in Requests, NEW state \in Request, Become(p, state),
         state.pc \notin {"missed", "found"}, UNCHANGED <<generation, visible>>
  PROVE  LookupsStarted' /\ LookupsRead'
  BY BecomeType DEF VersionInv, LookupsStarted, LookupsRead

LEMMA VersionStep == VersionInv /\ [Next]_vars => VersionInv'
<1> SUFFICES ASSUME VersionInv, [Next]_vars PROVE VersionInv'
  OBVIOUS
<1> USE OwnerAssumption
<1>0. TypeOK /\ TypeOK'
  BY TypeStep DEF VersionInv
<1> DEFINE Rest == RowsGrow' /\ EntriesCurrent' /\ LookupsStarted' /\ LookupsRead'
                     /\ WritesAreSeen'
<1> SUFFICES Rest
  BY <1>0 DEF VersionInv
<1>1. ASSUME NEW p \in Requests, NEW t \in Tokens, Hit(p, t) PROVE Rest
  BY <1>1 DEF Hit, Usable, Answer, VersionInv, RowsGrow, EntriesCurrent, LookupsStarted,
     LookupsRead, WritesAreSeen
<1>2. ASSUME NEW p \in Requests, NEW t \in Tokens, Miss(p, t) PROVE Rest
  <2> DEFINE state == [pc |-> "missed", token |-> t, gen |-> generation,
                       floor |-> visible[Owner[t]]]
  <2>1. state \in Request
    BY <1>0 DEF TypeOK, Request
  <2>2. req'[p] = state /\ \A q \in Requests \ {p} : req'[q] = req[q]
    BY <1>0, <1>2, <2>1, BecomeType DEF Miss
  <2>3. generation \in Nat /\ visible[Owner[t]] \in Nat
    BY <1>0 DEF TypeOK
  <2>4. LookupsStarted' /\ LookupsRead'
    BY <1>2, <2>2, <2>3 DEF Miss, VersionInv, LookupsStarted, LookupsRead
  <2> QED BY <1>2, <2>4 DEF Miss, Quiet, VersionInv, RowsGrow, EntriesCurrent, WritesAreSeen
<1>3. ASSUME NEW p \in Requests, NEW t \in Tokens, DeleteRow(p, t) PROVE Rest
  <2>1. PICK done \in BOOLEAN :
          Become(p, [pc |-> "dropping", token |-> t, deleted |-> done])
    BY <1>3 DEF DeleteRow
  <2>2. LookupsStarted' /\ LookupsRead'
    BY <1>3, <2>1, NotLooking DEF DeleteRow, Request
  <2> QED BY <1>3, <2>2 DEF DeleteRow, Quiet, VersionInv, RowsGrow, EntriesCurrent,
             WritesAreSeen
<1>4. ASSUME NEW p \in Requests, Find(p) PROVE Rest
  <2> DEFINE t == req[p].token
             found == [pc |-> "found", token |-> t, gen |-> req[p].gen,
                       floor |-> req[p].floor, ver |-> row[Owner[t]]]
  <2>1. req[p] \in Request /\ req[p].pc = "missed"
    BY <1>0, <1>4 DEF TypeOK, Find
  <2>2. t \in Tokens /\ req[p].gen \in Nat /\ req[p].floor \in Nat
    BY <2>1, RequestFields
  <2>3. row[Owner[t]] \in Nat /\ visible[Owner[t]] \in Nat /\ row[Owner[t]] >= visible[Owner[t]]
    BY <1>0, <2>2 DEF TypeOK, VersionInv, RowsGrow
  <2>4. req[p].gen =< generation /\ req[p].floor =< visible[Owner[t]]
    BY <2>1 DEF VersionInv, LookupsStarted
  <2>5. LookupsStarted' /\ LookupsRead'
    <3>1. CASE Become(p, found)
      <4>1. found \in Request
        BY <2>2, <2>3 DEF Request
      <4>2. req'[p] = found /\ \A q \in Requests \ {p} : req'[q] = req[q]
        BY <1>0, <3>1, <4>1, BecomeType
      <4>3. row[Owner[t]] >= req[p].floor
        BY <2>2, <2>3, <2>4
      <4> QED BY <1>4, <2>2, <2>3, <2>4, <4>2, <4>3
              DEF Find, VersionInv, LookupsStarted, LookupsRead
    <3>2. CASE Become(p, [pc |-> "idle"])
      BY <1>4, <3>2, NotLooking DEF Find, Request
    <3> QED BY <1>4, <3>1, <3>2 DEF Find
  <2> QED BY <1>4, <2>5 DEF Find, Quiet, VersionInv, RowsGrow, EntriesCurrent, WritesAreSeen
<1>5. ASSUME NEW p \in Requests, Remember(p) PROVE Rest
  <2>1. req[p] \in Request /\ req[p].pc = "found"
    BY <1>0, <1>5 DEF TypeOK, Remember
  <2>2. /\ req[p].token \in Tokens /\ req[p].ver \in Nat /\ req[p].floor \in Nat
        /\ req[p].ver >= req[p].floor
        /\ req[p].gen = generation => req[p].ver >= visible[Owner[req[p].token]]
    BY <2>1, RequestFields DEF VersionInv, LookupsRead
  <2>3. \A t \in DOMAIN entries' :
          \/ t \in DOMAIN entries /\ entries'[t] = entries[t]
          \/ /\ t = req[p].token /\ generation = req[p].gen
             /\ entries'[t] = [ver |-> req[p].ver, fresh |-> TRUE]
    BY <1>0, <1>5, <2>2, Remembered DEF Remember
  <2>4. EntriesCurrent'
    BY <1>5, <2>2, <2>3 DEF Remember, VersionInv, EntriesCurrent
  <2>5. LookupsStarted' /\ LookupsRead'
    BY <1>5, NotLooking DEF Remember, Request
  <2>6. WritesAreSeen'
    BY <1>5, <2>2 DEF Remember, Answer, WritesAreSeen
  <2> QED BY <1>5, <2>4, <2>5, <2>6 DEF Remember, VersionInv, RowsGrow
<1>6. ASSUME NEW p \in Requests, FinishSignOut(p) PROVE Rest
  <2>1. EntriesCurrent'
    <3>1. PICK S \in SUBSET DOMAIN entries : entries' = Restrict(entries, S)
      BY <1>6 DEF FinishSignOut, DropEntry
    <3>2. DOMAIN entries' = S /\ \A t \in S : entries'[t] = entries[t]
      BY <1>0, <3>1, MapRestrict DEF TypeOK
    <3> QED BY <1>6, <3>2 DEF FinishSignOut, VersionInv, EntriesCurrent
  <2>2. LookupsStarted' /\ LookupsRead'
    BY <1>6, NotLooking DEF FinishSignOut, Request
  <2> QED BY <1>6, <2>1, <2>2 DEF FinishSignOut, Quiet, VersionInv, RowsGrow, WritesAreSeen
<1>7. ASSUME NEW p \in Requests, Flush(p) PROVE Rest
  <2>1. RowsGrow' /\ WritesAreSeen'
    BY <1>0, <1>7 DEF Flush, Quiet, TypeOK, RowsGrow, WritesAreSeen
  <2>2. EntriesCurrent'
    BY <1>7 DEF Flush, EmptyAndBump, EmptyMap, EntriesCurrent
  <2>3. req'[p] = [pc |-> "idle"] /\ \A q \in Requests \ {p} : req'[q] = req[q]
    BY <1>0, <1>7, BecomeType DEF Flush, Request
  <2>4. ASSUME NEW q \in Requests, req'[q].pc \in {"missed", "found"}
        PROVE  /\ req'[q].gen < generation'
               /\ req'[q].floor =< visible'[Owner[req'[q].token]]
               /\ req'[q].pc = "found" => req'[q].ver >= req'[q].floor
    <3>1. req'[q] = req[q]
      BY <2>3, <2>4
    <3>2. /\ req[q].token \in Tokens /\ req[q].gen \in Nat /\ req[q].floor \in Nat
          /\ req[q].gen =< generation /\ req[q].floor =< visible[Owner[req[q].token]]
      BY <1>0, <2>4, <3>1, RequestFields DEF TypeOK, VersionInv, LookupsStarted
    <3>3. visible[Owner[req[q].token]] =< row[Owner[req[q].token]]
      BY <3>2 DEF VersionInv, RowsGrow
    <3>4. generation' = generation + 1 /\ visible' = row
      BY <1>7 DEF Flush, EmptyAndBump
    <3>5. row[Owner[req[q].token]] \in Nat /\ visible[Owner[req[q].token]] \in Nat
      BY <1>0, <3>2 DEF TypeOK
    <3>6. req[q].gen < generation' /\ req[q].floor =< visible'[Owner[req[q].token]]
      BY <1>0, <3>2, <3>3, <3>4, <3>5 DEF TypeOK
    <3>7. req[q].pc = "found" => req[q].ver >= req[q].floor
      BY DEF VersionInv, LookupsRead
    <3> QED BY <3>1, <3>6, <3>7
  <2>5. req' \in [Requests -> Request] /\ generation' \in Nat
    BY <1>0 DEF TypeOK
  <2>6. \A q \in Requests : req'[q].pc \in {"missed", "found"} => req'[q].gen \in Nat
    BY <2>5, RequestFields
  <2>7. LookupsStarted'
    BY <2>4, <2>5, <2>6 DEF LookupsStarted
  <2>8. LookupsRead'
    BY <2>4, <2>5, <2>6 DEF LookupsRead
  <2> QED BY <2>1, <2>2, <2>7, <2>8
<1>8. ASSUME NEW p \in Requests, NEW u \in Users, WriteRow(p, u) PROVE Rest
  <2>1. RowsGrow'
    BY <1>0, <1>8 DEF WriteRow, TypeOK, VersionInv, RowsGrow
  <2>2. LookupsStarted' /\ LookupsRead'
    BY <1>8, NotLooking DEF WriteRow, Request
  <2> QED BY <1>8, <2>1, <2>2 DEF WriteRow, Quiet, VersionInv, EntriesCurrent, WritesAreSeen
<1>9. ASSUME NEW t \in Tokens, Lapse(t) PROVE Rest
  <2>1. EntriesCurrent'
    BY <1>0, <1>9 DEF Lapse, Usable, TypeOK, Entry, VersionInv, EntriesCurrent
  <2> QED BY <1>9, <2>1 DEF Lapse, Quiet, VersionInv, RowsGrow, LookupsStarted, LookupsRead,
             WritesAreSeen
<1>10. ASSUME NEW t \in Tokens, CreateSession(t) \/ Expire(t) PROVE Rest
  BY <1>10 DEF CreateSession, Expire, Quiet, VersionInv, RowsGrow, EntriesCurrent,
     LookupsStarted, LookupsRead, WritesAreSeen
<1>11. ASSUME NEW u \in Users, OutsideWrite(u) PROVE Rest
  <2>1. RowsGrow'
    BY <1>0, <1>11 DEF OutsideWrite, TypeOK, VersionInv, RowsGrow
  <2> QED BY <1>11, <2>1 DEF OutsideWrite, Quiet, VersionInv, EntriesCurrent, LookupsStarted,
             LookupsRead, WritesAreSeen
<1>12. CASE Restart
  BY <1>12 DEF Restart, EmptyMap, Quiet, VersionInv, RowsGrow, EntriesCurrent, LookupsStarted,
     LookupsRead, WritesAreSeen
<1>13. CASE UNCHANGED vars
  BY <1>13 DEF vars, VersionInv, RowsGrow, EntriesCurrent, LookupsStarted, LookupsRead,
     WritesAreSeen
<1> QED
  BY <1>1, <1>2, <1>3, <1>4, <1>5, <1>6, <1>7, <1>8, <1>9, <1>10, <1>11, <1>12, <1>13
  DEF Next

\* Once a write to a users row has returned, no lookup that starts afterwards
\* answers with the row as it was before: flushing with a generation, and not
\* storing a lookup that a flush overtook (GetUserBySession, flush), suffices.
THEOREM WritesAlwaysSeen == Spec => []WritesAreSeen
<1>1. VersionInv => WritesAreSeen
  BY DEF VersionInv
<1> QED BY <1>1, VersionInit, VersionStep, PTL DEF Spec

----------------------------------------------------------------------------
(* CleanSignOut.  A signed-out token's row stays deleted, so the only way   *)
(* back into the cache is a lookup that read the row before it went, and    *)
(* those are the ones "overtaken" counts.                                   *)

RowsStayDeleted == \A t \in signedOut : session[t] = "deleted"

\* A sign-out between its two steps has, unless the query failed, deleted the row.
RowDeletedFirst ==
  \A p \in Requests : req[p].pc = "dropping" /\ req[p].deleted =>
    session[req[p].token] = "deleted"

LateLookupsKnown ==
  \A p \in Requests : req[p].pc = "found" /\ req[p].token \in signedOut =>
    req[p].token \in overtaken

SignOutInv == TypeOK /\ RowsStayDeleted /\ RowDeletedFirst /\ LateLookupsKnown /\ CleanSignOut

LEMMA SignOutInit == Init => SignOutInv
<1> SUFFICES ASSUME Init PROVE SignOutInv
  OBVIOUS
<1>1. TypeOK
  BY DEF Init, TypeOK, EmptyMap, Request, RowState
<1> QED BY <1>1 DEF Init, SignOutInv, RowsStayDeleted, RowDeletedFirst, LateLookupsKnown,
           CleanSignOut

LEMMA SignOutStep == SignOutInv /\ [Next]_vars => SignOutInv'
<1> SUFFICES ASSUME SignOutInv, [Next]_vars PROVE SignOutInv'
  OBVIOUS
<1>0. TypeOK /\ TypeOK'
  BY TypeStep DEF SignOutInv
<1> DEFINE Rest == RowsStayDeleted' /\ RowDeletedFirst' /\ LateLookupsKnown' /\ CleanSignOut'
<1> SUFFICES Rest
  BY <1>0 DEF SignOutInv
<1>1. ASSUME NEW p \in Requests, NEW t \in Tokens, Hit(p, t) PROVE Rest
  BY <1>1 DEF Hit, SignOutInv, RowsStayDeleted, RowDeletedFirst, LateLookupsKnown, CleanSignOut
<1>2. ASSUME NEW p \in Requests, NEW t \in Tokens, Miss(p, t) PROVE Rest
  <2> DEFINE state == [pc |-> "missed", token |-> t, gen |-> generation,
                       floor |-> visible[Owner[t]]]
  <2>1. state \in Request
    BY <1>0, OwnerAssumption DEF TypeOK, Request
  <2>2. req'[p].pc = "missed" /\ \A q \in Requests \ {p} : req'[q] = req[q]
    BY <1>0, <1>2, <2>1, BecomeType DEF Miss
  <2>3. RowDeletedFirst' /\ LateLookupsKnown'
    BY <1>2, <2>2 DEF Miss, SignOutInv, RowDeletedFirst, LateLookupsKnown
  <2> QED BY <1>2, <2>3 DEF Miss, SignOutInv, RowsStayDeleted, CleanSignOut
<1>3. ASSUME NEW p \in Requests, NEW t \in Tokens, DeleteRow(p, t) PROVE Rest
  <2>1. PICK done \in BOOLEAN :
          /\ session' = IF done THEN [session EXCEPT ![t] = "deleted"] ELSE session
          /\ Become(p, [pc |-> "dropping", token |-> t, deleted |-> done])
    BY <1>3 DEF DeleteRow
  <2> DEFINE state == [pc |-> "dropping", token |-> t, deleted |-> done]
  <2>2. state \in Request
    BY DEF Request
  <2>3. req'[p] = state /\ \A q \in Requests \ {p} : req'[q] = req[q]
    BY <1>0, <2>1, <2>2, BecomeType
  <2>4. \A x \in Tokens : session[x] = "deleted" => session'[x] = "deleted"
    BY <1>0, <2>1 DEF TypeOK
  <2>5. done => session'[t] = "deleted"
    BY <1>0, <2>1 DEF TypeOK
  <2>6. RowDeletedFirst'
    <3> SUFFICES ASSUME NEW q \in Requests, req'[q].pc = "dropping", req'[q].deleted
                 PROVE  session'[req'[q].token] = "deleted"
      BY DEF RowDeletedFirst
    <3>1. CASE q = p
      BY <2>3, <2>5, <3>1
    <3>2. CASE q # p
      <4>1. req'[q] = req[q] /\ req[q] \in Request
        BY <1>0, <2>3, <3>2 DEF TypeOK
      <4>2. req[q].token \in Tokens
        BY <4>1, RequestFields
      <4> QED BY <2>4, <4>1, <4>2 DEF SignOutInv, RowDeletedFirst
    <3> QED BY <3>1, <3>2
  <2>7. RowsStayDeleted'
    BY <1>0, <1>3, <2>4 DEF DeleteRow, TypeOK, SignOutInv, RowsStayDeleted
  <2>8. LateLookupsKnown'
    BY <1>3, <2>3 DEF DeleteRow, SignOutInv, LateLookupsKnown
  <2> QED BY <1>3, <2>6, <2>7, <2>8 DEF DeleteRow, SignOutInv, CleanSignOut
<1>4. ASSUME NEW p \in Requests, Find(p) PROVE Rest
  <2> DEFINE t == req[p].token
             found == [pc |-> "found", token |-> t, gen |-> req[p].gen,
                       floor |-> req[p].floor, ver |-> row[Owner[t]]]
  <2>1. req[p] \in Request /\ req[p].pc = "missed"
    BY <1>0, <1>4 DEF TypeOK, Find
  <2>2. found \in Request /\ [pc |-> "idle"] \in Request
    BY <1>0, <2>1, RequestFields, OwnerAssumption DEF TypeOK, Request
  <2>3. \/ session[t] = "live" /\ Become(p, found)
        \/ Become(p, [pc |-> "idle"])
    BY <1>4 DEF Find, Valid
  <2>4. /\ \A q \in Requests \ {p} : req'[q] = req[q]
        /\ req'[p].pc # "dropping"
        /\ req'[p].pc = "found" => req'[p].token = t /\ session[t] = "live"
    BY <1>0, <2>2, <2>3, BecomeType
  <2>5. RowDeletedFirst'
    BY <1>4, <2>4 DEF Find, SignOutInv, RowDeletedFirst
  <2>6. LateLookupsKnown'
    <3> SUFFICES ASSUME NEW q \in Requests, req'[q].pc = "found", req'[q].token \in signedOut'
                 PROVE  req'[q].token \in overtaken'
      BY DEF LateLookupsKnown
    <3>1. q # p
      BY <1>4, <2>4 DEF Find, SignOutInv, RowsStayDeleted
    <3> QED BY <1>4, <2>4, <3>1 DEF Find, SignOutInv, LateLookupsKnown
  <2> QED BY <1>4, <2>5, <2>6 DEF Find, SignOutInv, RowsStayDeleted, CleanSignOut
<1>5. ASSUME NEW p \in Requests, Remember(p) PROVE Rest
  <2>1. req[p] \in Request /\ req[p].pc = "found"
    BY <1>0, <1>5 DEF TypeOK, Remember
  <2>2. DOMAIN entries' \subseteq DOMAIN entries \cup {req[p].token}
    BY <1>0, <1>5, <2>1, RequestFields, Remembered DEF Remember
  <2>3. req[p].token \in signedOut => req[p].token \in overtaken
    BY <2>1 DEF SignOutInv, LateLookupsKnown
  <2>4. req'[p] = [pc |-> "idle"] /\ \A q \in Requests \ {p} : req'[q] = req[q]
    BY <1>0, <1>5, BecomeType DEF Remember, Request
  <2>5. RowDeletedFirst' /\ LateLookupsKnown'
    BY <1>5, <2>4 DEF Remember, SignOutInv, RowDeletedFirst, LateLookupsKnown
  <2> QED BY <1>5, <2>2, <2>3, <2>5 DEF Remember, SignOutInv, RowsStayDeleted, CleanSignOut
<1>6. ASSUME NEW p \in Requests, FinishSignOut(p) PROVE Rest
  <2> DEFINE t == req[p].token
             lookups == {q \in Requests : req[q].pc = "found" /\ req[q].token = t}
  <2>1. req[p] \in Request /\ req[p].pc = "dropping"
    BY <1>0, <1>6 DEF TypeOK, FinishSignOut
  <2>2. t \in Tokens /\ req[p].deleted \in BOOLEAN
    BY <2>1, RequestFields
  <2>3. DOMAIN entries' = DOMAIN entries \ {t}
    BY <1>6 DEF FinishSignOut, DropEntry, Restrict
  <2>4. req'[p] = [pc |-> "idle"] /\ \A q \in Requests \ {p} : req'[q] = req[q]
    BY <1>0, <1>6, BecomeType DEF FinishSignOut, Request
  <2>5. /\ signedOut' = IF req[p].deleted THEN signedOut \cup {t} ELSE signedOut
        /\ overtaken' = IF req[p].deleted /\ lookups # {} THEN overtaken \cup {t} ELSE overtaken
        /\ UNCHANGED session
    BY <1>6 DEF FinishSignOut
  <2>6. req[p].deleted => session[t] = "deleted"
    BY <2>1 DEF SignOutInv, RowDeletedFirst
  <2>7. RowsStayDeleted'
    BY <2>5, <2>6 DEF SignOutInv, RowsStayDeleted
  <2>8. RowDeletedFirst'
    BY <2>4, <2>5 DEF SignOutInv, RowDeletedFirst
  <2>9. LateLookupsKnown'
    <3> SUFFICES ASSUME NEW q \in Requests, req'[q].pc = "found", req'[q].token \in signedOut'
                 PROVE  req'[q].token \in overtaken'
      BY DEF LateLookupsKnown
    <3>1. req'[q] = req[q]
      BY <2>4
    <3>2. CASE req[q].token \in signedOut
      BY <2>5, <3>1, <3>2 DEF SignOutInv, LateLookupsKnown
    <3>3. CASE req[q].token \notin signedOut
      <4>1. req[q].token = t /\ req[p].deleted
        BY <2>2, <2>5, <3>1, <3>3
      <4>2. q \in lookups
        BY <3>1, <4>1
      <4> QED BY <2>5, <3>1, <4>1, <4>2
    <3> QED BY <3>2, <3>3
  <2>10. CleanSignOut'
    BY <2>3, <2>5 DEF SignOutInv, CleanSignOut
  <2> QED BY <2>7, <2>8, <2>9, <2>10
<1>7. ASSUME NEW p \in Requests, Flush(p) PROVE Rest
  <2>1. req'[p] = [pc |-> "idle"] /\ \A q \in Requests \ {p} : req'[q] = req[q]
    BY <1>0, <1>7, BecomeType DEF Flush, Request
  <2>2. RowDeletedFirst' /\ LateLookupsKnown'
    BY <1>7, <2>1 DEF Flush, SignOutInv, RowDeletedFirst, LateLookupsKnown
  <2> QED BY <1>7, <2>2 DEF Flush, EmptyAndBump, EmptyMap, SignOutInv, RowsStayDeleted,
             CleanSignOut
<1>8. ASSUME NEW p \in Requests, NEW u \in Users, WriteRow(p, u) PROVE Rest
  <2>1. req'[p] = [pc |-> "flushing"] /\ \A q \in Requests \ {p} : req'[q] = req[q]
    BY <1>0, <1>8, BecomeType DEF WriteRow, Request
  <2>2. RowDeletedFirst' /\ LateLookupsKnown'
    BY <1>8, <2>1 DEF WriteRow, SignOutInv, RowDeletedFirst, LateLookupsKnown
  <2> QED BY <1>8, <2>2 DEF WriteRow, SignOutInv, RowsStayDeleted, CleanSignOut
<1>9. ASSUME NEW t \in Tokens, Lapse(t) PROVE Rest
  <2>1. DOMAIN entries' = DOMAIN entries
    BY <1>9 DEF Lapse
  <2> QED BY <1>9, <2>1 DEF Lapse, SignOutInv, RowsStayDeleted, RowDeletedFirst,
             LateLookupsKnown, CleanSignOut
<1>10. ASSUME NEW t \in Tokens, CreateSession(t) \/ Expire(t) PROVE Rest
  <2>1. \A x \in Tokens : session[x] = "deleted" => session'[x] = "deleted"
    BY <1>0, <1>10 DEF CreateSession, Expire, TypeOK
  <2>2. RowsStayDeleted'
    BY <1>0, <1>10, <2>1 DEF CreateSession, Expire, TypeOK, SignOutInv, RowsStayDeleted
  <2>3. RowDeletedFirst'
    <3> SUFFICES ASSUME NEW q \in Requests, req'[q].pc = "dropping", req'[q].deleted
                 PROVE  session'[req'[q].token] = "deleted"
      BY DEF RowDeletedFirst
    <3>1. req'[q] = req[q] /\ req[q] \in Request
      BY <1>0, <1>10 DEF CreateSession, Expire, TypeOK
    <3>2. req[q].token \in Tokens
      BY <3>1, RequestFields
    <3> QED BY <2>1, <3>1, <3>2 DEF SignOutInv, RowDeletedFirst
  <2> QED BY <1>10, <2>2, <2>3 DEF CreateSession, Expire, SignOutInv, LateLookupsKnown,
             CleanSignOut
<1>11. ASSUME NEW u \in Users, OutsideWrite(u) PROVE Rest
  BY <1>11 DEF OutsideWrite, SignOutInv, RowsStayDeleted, RowDeletedFirst, LateLookupsKnown,
     CleanSignOut
<1>12. CASE Restart
  BY <1>12 DEF Restart, EmptyMap, SignOutInv, RowsStayDeleted, RowDeletedFirst,
     LateLookupsKnown, CleanSignOut
<1>13. CASE UNCHANGED vars
  BY <1>13 DEF vars, SignOutInv, RowsStayDeleted, RowDeletedFirst, LateLookupsKnown,
     CleanSignOut
<1> QED
  BY <1>1, <1>2, <1>3, <1>4, <1>5, <1>6, <1>7, <1>8, <1>9, <1>10, <1>11, <1>12, <1>13
  DEF Next

\* Once a sign-out has completed (DeleteSession), its token has no entry in the
\* cache, but for the lookups that had already run their query at that moment.
THEOREM SignOutClean == Spec => []CleanSignOut
<1>1. SignOutInv => CleanSignOut
  BY DEF SignOutInv
<1> QED BY <1>1, SignOutInit, SignOutStep, PTL DEF Spec

----------------------------------------------------------------------------
(* SessionRows.  The rows visible when a write last returned bound what a   *)
(* lookup may answer from below (VersionInv); from above, nothing is in the *)
(* cache that the table has not held.  Between the two lies MayResolve.     *)

EntriesPast == \A t \in DOMAIN entries : entries[t].ver =< row[Owner[t]]

FoundPast ==
  \A p \in Requests : req[p].pc = "found" => req[p].ver =< row[Owner[req[p].token]]

RowsInv == VersionInv /\ EntriesPast /\ FoundPast

\* The table's rows only grow.
LEMMA RowsOnlyGrow ==
  ASSUME TypeOK, [Next]_vars
  PROVE  \A u \in Users : row[u] =< row'[u]
<1> SUFFICES ASSUME NEW u \in Users PROVE row[u] =< row'[u]
  OBVIOUS
<1>0. row[u] \in Nat
  BY DEF TypeOK
<1>1. ASSUME NEW v \in Users, row' = [row EXCEPT ![v] = @ + 1] PROVE row[u] =< row'[u]
  BY <1>0, <1>1 DEF TypeOK
<1>2. CASE UNCHANGED row
  BY <1>0, <1>2
<1>3. (\E v \in Users : row' = [row EXCEPT ![v] = @ + 1]) \/ UNCHANGED row
  BY DEF Next, vars, Hit, Miss, DeleteRow, Find, Remember, FinishSignOut, Flush, WriteRow, Lapse,
     CreateSession, Expire, OutsideWrite, Restart
<1> QED BY <1>1, <1>2, <1>3

\* Where an entry of the next state comes from.
LEMMA EntriesFrom ==
  ASSUME TypeOK, [Next]_vars, NEW t \in DOMAIN entries'
  PROVE  \/ /\ t \in DOMAIN entries /\ entries'[t].ver = entries[t].ver
            /\ entries'[t].fresh => entries[t].fresh
         \/ \E p \in Requests : /\ Remember(p) /\ req[p].pc = "found" /\ req[p].token = t
                                /\ entries'[t].ver = req[p].ver
<1> DEFINE Goal == \/ /\ t \in DOMAIN entries /\ entries'[t].ver = entries[t].ver
                      /\ entries'[t].fresh => entries[t].fresh
                   \/ \E p \in Requests : /\ Remember(p) /\ req[p].pc = "found" /\ req[p].token = t
                                          /\ entries'[t].ver = req[p].ver
<1>1. ASSUME NEW p \in Requests, Remember(p) PROVE Goal
  <2>1. req[p] \in Request /\ req[p].pc = "found"
    BY <1>1 DEF TypeOK, Remember
  <2>2. req[p].token \in Tokens /\ req[p].ver \in Nat
    BY <2>1, RequestFields
  <2>3. \/ t \in DOMAIN entries /\ entries'[t] = entries[t]
        \/ /\ t = req[p].token
           /\ entries'[t] = [ver |-> req[p].ver, fresh |-> TRUE]
    BY <1>1, <2>2, Remembered DEF Remember
  <2> QED BY <1>1, <2>1, <2>3
<1>2. ASSUME NEW p \in Requests, FinishSignOut(p) PROVE Goal
  <2>1. PICK S \in SUBSET DOMAIN entries : entries' = Restrict(entries, S)
    BY <1>2 DEF FinishSignOut, DropEntry
  <2> QED BY <2>1, MapRestrict DEF TypeOK
<1>3. ASSUME NEW x \in Tokens, Lapse(x) PROVE Goal
  BY <1>3 DEF Lapse, Usable, TypeOK, Entry
<1>4. ASSUME entries' = EmptyMap PROVE Goal
  BY <1>4 DEF EmptyMap
<1>5. CASE UNCHANGED entries
  BY <1>5
<1>6. \/ UNCHANGED entries \/ entries' = EmptyMap
      \/ \E p \in Requests : Remember(p) \/ FinishSignOut(p)
      \/ \E x \in Tokens : Lapse(x)
  BY DEF Next, vars, Hit, Miss, DeleteRow, Find, Flush, EmptyAndBump, WriteRow,
     CreateSession, Expire, OutsideWrite, Restart
<1> QED BY <1>1, <1>2, <1>3, <1>4, <1>5, <1>6

\* Where a lookup past its query comes from: it was there, or reads the table now.
LEMMA FoundFrom ==
  ASSUME TypeOK, [Next]_vars, NEW p \in Requests, req'[p].pc = "found"
  PROVE  \/ req'[p] = req[p]
         \/ /\ Find(p) /\ req[p].pc = "missed" /\ session[req[p].token] = "live"
            /\ req'[p].token = req[p].token
            /\ req'[p].ver = row[Owner[req[p].token]]
<1> DEFINE Goal == \/ req'[p] = req[p]
                   \/ /\ Find(p) /\ req[p].pc = "missed" /\ session[req[p].token] = "live"
                      /\ req'[p].token = req[p].token
                      /\ req'[p].ver = row[Owner[req[p].token]]
<1>1. ASSUME NEW q \in Requests, NEW state \in Request, Become(q, state), state.pc # "found"
      PROVE  Goal
  BY <1>1, BecomeType
<1>2. ASSUME NEW q \in Requests, Find(q) PROVE Goal
  <2> DEFINE t == req[q].token
             found == [pc |-> "found", token |-> t, gen |-> req[q].gen,
                       floor |-> req[q].floor, ver |-> row[Owner[t]]]
  <2>1. req[q] \in Request /\ req[q].pc = "missed"
    BY <1>2 DEF TypeOK, Find
  <2>2. t \in Tokens /\ req[q].gen \in Nat /\ req[q].floor \in Nat /\ row[Owner[t]] \in Nat
    BY <2>1, RequestFields, OwnerAssumption DEF TypeOK
  <2>3. found \in Request
    BY <2>2 DEF Request
  <2>4. CASE session[t] = "live" /\ Become(q, found)
    BY <1>2, <2>1, <2>3, <2>4, BecomeType
  <2>5. CASE Become(q, [pc |-> "idle"])
    BY <1>1, <2>5 DEF Request
  <2> QED BY <1>2, <2>4, <2>5 DEF Find, Valid
<1>3. ASSUME NEW q \in Requests, NEW t \in Tokens, Miss(q, t) PROVE Goal
  <2>1. [pc |-> "missed", token |-> t, gen |-> generation, floor |-> visible[Owner[t]]] \in Request
    BY OwnerAssumption DEF TypeOK, Request
  <2> QED BY <1>1, <1>3, <2>1 DEF Miss
<1>4. ASSUME NEW q \in Requests, NEW t \in Tokens, DeleteRow(q, t) PROVE Goal
  <2>1. PICK done \in BOOLEAN : Become(q, [pc |-> "dropping", token |-> t, deleted |-> done])
    BY <1>4 DEF DeleteRow
  <2> QED BY <1>1, <2>1 DEF Request
<1>5. ASSUME NEW q \in Requests, Remember(q) \/ FinishSignOut(q) \/ Flush(q) PROVE Goal
  BY <1>1, <1>5 DEF Remember, FinishSignOut, Flush, Request
<1>6. ASSUME NEW q \in Requests, NEW u \in Users, WriteRow(q, u) PROVE Goal
  BY <1>1, <1>6 DEF WriteRow, Request
<1>7. CASE Restart
  BY <1>7 DEF Restart
<1>8. CASE UNCHANGED req
  BY <1>8
<1> QED
  BY <1>2, <1>3, <1>4, <1>5, <1>6, <1>7, <1>8 DEF Next, vars, Hit, Lapse, CreateSession, Expire,
     OutsideWrite

LEMMA RowsStep == RowsInv /\ [Next]_vars => RowsInv'
<1> SUFFICES ASSUME RowsInv, [Next]_vars PROVE RowsInv'
  OBVIOUS
<1> USE OwnerAssumption
<1>0. TypeOK /\ TypeOK' /\ VersionInv'
  BY VersionStep DEF RowsInv, VersionInv
<1>1. EntriesPast'
  <2> SUFFICES ASSUME NEW t \in DOMAIN entries' PROVE entries'[t].ver =< row'[Owner[t]]
    BY DEF EntriesPast
  <2>1. t \in Tokens /\ entries'[t].ver \in Nat
    BY <1>0 DEF TypeOK, Entry
  <2>2. row[Owner[t]] \in Nat /\ row'[Owner[t]] \in Nat /\ row[Owner[t]] =< row'[Owner[t]]
    BY <1>0, <2>1, RowsOnlyGrow DEF TypeOK
  <2>3. entries'[t].ver =< row[Owner[t]]
    BY <1>0, EntriesFrom DEF RowsInv, EntriesPast, FoundPast
  <2> QED BY <2>1, <2>2, <2>3
<1>2. FoundPast'
  <2> SUFFICES ASSUME NEW p \in Requests, req'[p].pc = "found"
               PROVE  req'[p].ver =< row'[Owner[req'[p].token]]
    BY DEF FoundPast
  <2>1. req'[p].token \in Tokens /\ req'[p].ver \in Nat
    BY <1>0, RequestFields DEF TypeOK
  <2>2. /\ row[Owner[req'[p].token]] \in Nat /\ row'[Owner[req'[p].token]] \in Nat
        /\ row[Owner[req'[p].token]] =< row'[Owner[req'[p].token]]
    BY <1>0, <2>1, RowsOnlyGrow DEF TypeOK
  <2>3. req'[p].ver =< row[Owner[req'[p].token]]
    BY <1>0, <2>1, <2>2, FoundFrom DEF RowsInv, FoundPast
  <2> QED BY <2>1, <2>2, <2>3
<1> QED BY <1>0, <1>1, <1>2 DEF RowsInv

\* The refinement mapping of SessionCache's Sessions, each of its parts by name.
StaleRows == [u \in Users |-> visible[u]..(row[u] - 1)]
HeldBy(r) == IF r.pc = "found" THEN {[user |-> Owner[r.token], row |-> r.ver]} ELSE {}
Held == [p \in Requests |-> HeldBy(req[p])]
Given == {[user |-> a.user, row |-> a.ver] : a \in answered}

\* What is between the rows visible and those of the table may be resolved to.
LEMMA BetweenMayResolve ==
  ASSUME TypeOK, NEW u \in Users, NEW v \in Nat, visible[u] =< v, v =< row[u]
  PROVE  [user |-> u, row |-> v] \in Sessions!Resolutions(u)
<1>1. row[u] \in Nat /\ visible[u] \in Nat
  BY DEF TypeOK
<1>2. v = row[u] \/ v \in visible[u]..(row[u] - 1)
  BY <1>1
<1>3. v \in Sessions!MayResolve(u)
  BY <1>2 DEF Sessions!MayResolve
<1> QED BY <1>3 DEF Sessions!Resolutions

\* A step that returns nothing and moves no lookup is none that a handler sees.
LEMMA UnseenStep ==
  ASSUME UNCHANGED <<row, visible, Held>>, Quiet
  PROVE  Sessions!Unseen
  BY DEF Quiet, Held, HeldBy, Sessions!Unseen, Sessions!Quiet

\* A request that is no lookup past its query before or after is not seen either.
LEMMA HeldByOthers ==
  ASSUME TypeOK, NEW p \in Requests, NEW state \in Request, Become(p, state),
         req[p].pc # "found", state.pc # "found"
  PROVE  UNCHANGED Held
<1>1. \A q \in Requests : HeldBy(req'[q]) = HeldBy(req[q])
  BY BecomeType DEF HeldBy
<1> QED BY <1>1 DEF Held

\* A write of a row: the row as it was is one more that may be resolved to.
LEMMA WriteStep ==
  ASSUME TypeOK, RowsGrow, NEW u \in Users, row' = [row EXCEPT ![u] = @ + 1],
         UNCHANGED <<visible, Held>>, Quiet
  PROVE  Sessions!Write(u)
<1>1. row \in [Users -> Nat] /\ visible \in [Users -> Nat] /\ visible[u] =< row[u]
  BY DEF TypeOK, RowsGrow
<1>2. row' = [row EXCEPT ![u] = row'[u]] /\ row'[u] = row[u] + 1
  BY <1>1
<1>3. StaleRows' = [StaleRows EXCEPT ![u] = (@ \cup {row[u]}) \ {row'[u]}]
  <2>1. visible[u]..(row'[u] - 1) = ((visible[u]..(row[u] - 1)) \cup {row[u]}) \ {row'[u]}
    BY <1>1, <1>2
  <2>2. StaleRows' = [v \in Users |-> visible[v]..(row'[v] - 1)]
    BY DEF StaleRows
  <2>3. \A v \in Users \ {u} : row'[v] = row[v]
    BY <1>1
  <2>4. \A v \in Users : StaleRows'[v] = IF v = u THEN (StaleRows[u] \cup {row[u]}) \ {row'[u]}
                                         ELSE StaleRows[v]
    BY <2>1, <2>2, <2>3 DEF StaleRows
  <2> QED BY <2>2, <2>4 DEF StaleRows
<1> QED BY <1>2, <1>3 DEF StaleRows, Held, HeldBy, Quiet, Sessions!Write, Sessions!Quiet

\* A flush makes the table's rows the visible ones: nothing stale is left.
LEMMA FlushStep ==
  ASSUME TypeOK, UNCHANGED <<row, Held>>, visible' = row, Quiet
  PROVE  Sessions!Flush
<1>1. StaleRows' = [u \in Users |-> {}]
  <2>1. \A u \in Users : visible'[u]..(row'[u] - 1) = {}
    BY DEF TypeOK
  <2> QED BY <2>1 DEF StaleRows
<1> QED BY <1>1 DEF StaleRows, Held, HeldBy, Quiet, Sessions!Flush, Sessions!Settled, Sessions!Quiet

\* What an answer shows.
LEMMA GivenAnswer ==
  ASSUME NEW t, NEW ver, NEW floor, Answer(t, ver, floor)
  PROVE  Given' = {[user |-> Owner[t], row |-> ver]}
  BY DEF Answer, Given

\* Every step of the cache is one that SessionRows allows.
LEMMA SessionsStep == RowsInv /\ [Next]_vars => [Sessions!Next]_(Sessions!vars)
<1> SUFFICES ASSUME RowsInv, [Next]_vars PROVE [Sessions!Next]_(Sessions!vars)
  OBVIOUS
<1> USE OwnerAssumption
<1>0. TypeOK /\ RowsGrow /\ DOMAIN row = Users
  BY DEF RowsInv, VersionInv, TypeOK
<1>u. Sessions!Unseen => [Sessions!Next]_(Sessions!vars)
  BY DEF Sessions!Next
<1>n. \A p \in Requests : req[p] \in Request
  BY <1>0 DEF TypeOK
<1>1. ASSUME NEW p \in Requests, NEW t \in Tokens, Hit(p, t)
      PROVE  Sessions!Answer(Owner[t])
  <2>1. entries[t].ver \in Nat /\ t \in DOMAIN entries
    BY <1>0, <1>1 DEF Hit, Usable, TypeOK, Entry
  <2>2. visible[Owner[t]] =< entries[t].ver /\ entries[t].ver =< row[Owner[t]]
    BY <1>0, <2>1 DEF TypeOK, RowsInv, VersionInv, EntriesCurrent, EntriesPast
  <2>3. [user |-> Owner[t], row |-> entries[t].ver] \in Sessions!Resolutions(Owner[t])
    BY <1>0, <2>1, <2>2, BetweenMayResolve
  <2>4. Given' = {[user |-> Owner[t], row |-> entries[t].ver]}
    BY <1>1, GivenAnswer DEF Hit
  <2> QED BY <1>1, <2>3, <2>4 DEF Hit, Given, Sessions!Answer
<1>2. ASSUME NEW p \in Requests, NEW t \in Tokens, Miss(p, t) PROVE Sessions!Unseen
  <2>1. [pc |-> "missed", token |-> t, gen |-> generation, floor |-> visible[Owner[t]]] \in Request
    BY <1>0 DEF TypeOK, Request
  <2>2. UNCHANGED Held
    BY <1>0, <1>2, <2>1, HeldByOthers DEF Miss, Idle
  <2> QED BY <1>2, <2>2, UnseenStep DEF Miss
<1>3. ASSUME NEW p \in Requests, NEW t \in Tokens, DeleteRow(p, t) PROVE Sessions!Unseen
  <2>1. PICK done \in BOOLEAN : Become(p, [pc |-> "dropping", token |-> t, deleted |-> done])
    BY <1>3 DEF DeleteRow
  <2>2. UNCHANGED Held
    BY <1>0, <1>3, <2>1, HeldByOthers DEF DeleteRow, Idle, Request
  <2> QED BY <1>3, <2>2, UnseenStep DEF DeleteRow
<1>4. ASSUME NEW p \in Requests, Find(p)
      PROVE  Sessions!Unseen \/ \E u \in DOMAIN row : Sessions!Resolve(p, u)
  <2> DEFINE t == req[p].token
             found == [pc |-> "found", token |-> t, gen |-> req[p].gen,
                       floor |-> req[p].floor, ver |-> row[Owner[t]]]
  <2>1. req[p].pc = "missed" /\ t \in Tokens /\ req[p].gen \in Nat /\ req[p].floor \in Nat
    BY <1>4, <1>n, RequestFields DEF Find
  <2>2. row[Owner[t]] \in Nat /\ visible[Owner[t]] =< row[Owner[t]]
    BY <1>0, <2>1 DEF TypeOK, RowsGrow
  <2>3. CASE Become(p, found)
    <3>1. found \in Request
      BY <2>1, <2>2 DEF Request
    <3>2. req'[p] = found /\ \A q \in Requests \ {p} : req'[q] = req[q]
      BY <1>0, <2>3, <3>1, BecomeType
    <3> DEFINE r == [user |-> Owner[t], row |-> row[Owner[t]]]
    <3>3. r \in Sessions!Resolutions(Owner[t])
      BY <1>0, <2>1, <2>2, BetweenMayResolve
    <3>4. Held[p] = {} /\ Held' = [Held EXCEPT ![p] = {r}]
      <4>1. HeldBy(req[p]) = {} /\ HeldBy(req'[p]) = {r}
        BY <2>1, <3>2 DEF HeldBy
      <4>2. \A q \in Requests \ {p} : HeldBy(req'[q]) = HeldBy(req[q])
        BY <3>2
      <4> HIDE DEF r
      <4> QED BY <4>1, <4>2 DEF Held
    <3>5. PICK u \in DOMAIN row : u = Owner[t]
      BY <1>0, <2>1
    <3>6. Sessions!Resolve(p, u)
      BY <1>4, <3>3, <3>4, <3>5 DEF Find, Quiet, Held, HeldBy, Sessions!Resolve, Sessions!Quiet
    <3> QED BY <3>6
  <2>4. CASE Become(p, [pc |-> "idle"])
    <3>1. UNCHANGED Held
      BY <1>0, <2>1, <2>4, HeldByOthers DEF Request
    <3> QED BY <1>4, <3>1, UnseenStep DEF Find
  <2> QED BY <1>4, <2>3, <2>4 DEF Find
<1>5. ASSUME NEW p \in Requests, Remember(p) PROVE Sessions!Return(p)
  <2>1. req[p].pc = "found"
    BY <1>5 DEF Remember
  <2>2. req'[p].pc = "idle" /\ \A q \in Requests \ {p} : req'[q] = req[q]
    BY <1>0, <1>5, BecomeType DEF Remember, Request
  <2>3. Given' = Held[p] /\ Held[p] # {}
    BY <1>5, <2>1, GivenAnswer DEF Remember, Held, HeldBy
  <2>4. Held' = [Held EXCEPT ![p] = {}]
    BY <2>2 DEF Held, HeldBy
  <2> QED BY <1>5, <2>3, <2>4 DEF Remember, Given, Held, HeldBy, Sessions!Return
<1>6. ASSUME NEW p \in Requests, FinishSignOut(p) PROVE Sessions!Unseen
  <2>1. UNCHANGED Held
    BY <1>0, <1>6, HeldByOthers DEF FinishSignOut, Request
  <2> QED BY <1>6, <2>1, UnseenStep DEF FinishSignOut
<1>7. ASSUME NEW p \in Requests, Flush(p) PROVE Sessions!Flush
  <2>1. UNCHANGED Held
    BY <1>0, <1>7, HeldByOthers DEF Flush, Request
  <2> QED BY <1>0, <1>7, <2>1, FlushStep DEF Flush
<1>8. ASSUME NEW p \in Requests, NEW u \in Users, WriteRow(p, u)
      PROVE  Sessions!Write(u) \/ Sessions!Unseen
  <2>1. UNCHANGED Held
    BY <1>0, <1>8, HeldByOthers DEF WriteRow, Idle, Request
  <2>2. CASE row' = [row EXCEPT ![u] = @ + 1]
    BY <1>0, <1>8, <2>1, <2>2, WriteStep DEF WriteRow
  <2>3. CASE UNCHANGED row
    BY <1>8, <2>1, <2>3, UnseenStep DEF WriteRow
  <2> QED BY <1>8, <2>2, <2>3 DEF WriteRow
<1>9. ASSUME NEW t \in Tokens, Lapse(t) \/ CreateSession(t) \/ Expire(t) PROVE Sessions!Unseen
  BY <1>9, UnseenStep DEF Lapse, CreateSession, Expire, Held, HeldBy
<1>10. ASSUME NEW u \in Users, OutsideWrite(u) PROVE Sessions!Write(u)
  BY <1>0, <1>10, WriteStep DEF OutsideWrite, Held, HeldBy
<1>11. CASE Restart
  <2>1. Held' = [p \in Requests |-> {}]
    BY <1>11 DEF Restart, Held, HeldBy
  <2>2. Sessions!Abandon
    BY <1>11, <2>1 DEF Restart, Quiet, Held, HeldBy, Sessions!Abandon, Sessions!Quiet
  <2> QED BY <2>2 DEF Sessions!Next
<1>12. CASE UNCHANGED vars
  BY <1>12 DEF vars, Sessions!vars
<1> QED
  <2>1. \A t \in Tokens : Owner[t] \in DOMAIN row
    BY <1>0
  <2> DEFINE Allowed == [Sessions!Next]_(Sessions!vars)
  <2>2. ASSUME NEW p \in Requests, NEW t \in Tokens, Hit(p, t) \/ Miss(p, t) \/ DeleteRow(p, t)
        PROVE  Allowed
    BY <1>u, <1>1, <1>2, <1>3, <2>1, <2>2 DEF Sessions!Next
  <2>3. ASSUME NEW p \in Requests, Find(p) PROVE Allowed
    BY <1>u, <1>4, <2>3 DEF Sessions!Next
  <2>4. ASSUME NEW p \in Requests, Remember(p) \/ FinishSignOut(p) \/ Flush(p) PROVE Allowed
    BY <1>u, <1>5, <1>6, <1>7, <2>4 DEF Sessions!Next
  <2>5. ASSUME NEW p \in Requests, NEW u \in Users, WriteRow(p, u) PROVE Allowed
    BY <1>0, <1>u, <1>8, <2>5 DEF Sessions!Next
  <2>6. ASSUME NEW u \in Users, OutsideWrite(u) PROVE Allowed
    BY <1>0, <1>10, <2>6 DEF Sessions!Next
  <2>7. ASSUME NEW t \in Tokens, Lapse(t) \/ CreateSession(t) \/ Expire(t) PROVE Allowed
    BY <1>u, <1>9, <2>7
  <2> HIDE DEF Allowed
  <2>8. CASE Next
    BY <1>11, <2>2, <2>3, <2>4, <2>5, <2>6, <2>7, <2>8 DEF Next, Allowed
  <2> QED BY <1>12, <2>8 DEF Allowed

LEMMA RowsInit == Init => RowsInv /\ Sessions!Init
<1> SUFFICES ASSUME Init PROVE RowsInv /\ Sessions!Init
  OBVIOUS
<1>1. VersionInv
  BY VersionInit
<1>2. EntriesPast /\ FoundPast
  BY DEF Init, EmptyMap, EntriesPast, FoundPast
<1>3. Sessions!Init
  <2>1. StaleRows = [u \in Users |-> {}]
    BY DEF Init, StaleRows
  <2> QED BY <2>1 DEF Init, StaleRows, Sessions!Init
<1> QED BY <1>1, <1>2, <1>3 DEF RowsInv

\* The cache keeps SessionRows' promise to the handlers: whatever GetUserBySession
\* answers was the users row at some moment of the lookup, or is a row from before
\* a write that no flush has followed yet, for any users, tokens and requests.
THEOREM KeepsSessionsPromise == Spec => ImplementsSessions
<1>1. Spec => []RowsInv
  BY RowsInit, RowsStep, PTL DEF Spec
<1> QED BY <1>1, RowsInit, SessionsStep, PTL DEF Spec, ImplementsSessions, Sessions!Spec

----------------------------------------------------------------------------
(* The safety in SignOutIsFinal.  A signed-out token's row is gone, so no   *)
(* query finds it any more; what is left to come are the lookups that are   *)
(* past their query, and each of them can store the token once.             *)

LateLookups(t) == {p \in Requests : req[p].pc = "found" /\ req[p].token = t}

\* Nothing is left that could let a request in with the token.
Quenched(t) == t \in signedOut /\ ~Usable(t) /\ LateLookups(t) = {}

\* After a sign-out no lookup joins those past their query, and the token is
\* good for one more lifetime only at the price of one of them.
RunsOut ==
  \A t \in signedOut :
    /\ LateLookups(t)' \subseteq LateLookups(t)
    /\ Usable(t)' /\ ~Usable(t) => LateLookups(t)' # LateLookups(t)
SignOutRunsOut == [][RunsOut]_vars

LEMMA RunsOutStep ==
  ASSUME SignOutInv, [Next]_vars PROVE RunsOut
<1> SUFFICES ASSUME NEW t \in signedOut
             PROVE  /\ LateLookups(t)' \subseteq LateLookups(t)
                    /\ Usable(t)' /\ ~Usable(t) => LateLookups(t)' # LateLookups(t)
  BY DEF RunsOut
<1>0. TypeOK /\ t \in Tokens /\ session[t] = "deleted"
  BY DEF SignOutInv, RowsStayDeleted, TypeOK
<1>1. LateLookups(t)' \subseteq LateLookups(t)
  <2> SUFFICES ASSUME NEW p \in Requests, req'[p].pc = "found", req'[p].token = t
               PROVE  req[p].pc = "found" /\ req[p].token = t
    BY DEF LateLookups
  <2> QED BY <1>0, FoundFrom
<1>2. ASSUME Usable(t)', ~Usable(t) PROVE LateLookups(t)' # LateLookups(t)
  <2>1. PICK p \in Requests : Remember(p) /\ req[p].pc = "found" /\ req[p].token = t
    BY <1>0, <1>2, EntriesFrom DEF Usable
  <2>2. req'[p].pc = "idle"
    BY <1>0, <2>1, BecomeType DEF Remember, Request
  <2>3. p \in LateLookups(t) /\ p \notin LateLookups(t)'
    BY <2>1, <2>2 DEF LateLookups
  <2> QED BY <2>3
<1> QED BY <1>1, <1>2

\* A signed-out session is put back into the cache at most once for each lookup
\* that was past its query, and no such lookup is added (GetUserBySession after
\* DeleteSession): the token runs out, whatever the interleaving.
THEOREM SignOutAlwaysRunsOut == Spec => SignOutRunsOut
<1>1. SignOutInv /\ [Next]_vars => RunsOut
  BY RunsOutStep
<1> QED BY <1>1, SignOutInit, SignOutStep, PTL DEF Spec, SignOutRunsOut

LEMMA QuenchedStep ==
  ASSUME SignOutInv, [Next]_vars, NEW t \in Tokens, Quenched(t) PROVE Quenched(t)'
<1>1. t \in signedOut /\ LateLookups(t) = {} /\ ~Usable(t)
  BY DEF Quenched
<1>2. LateLookups(t)' = {} /\ ~Usable(t)'
  BY <1>1, RunsOutStep DEF RunsOut
<1>3. t \in signedOut'
  BY <1>1 DEF Next, vars, Hit, Miss, DeleteRow, Find, Remember, FinishSignOut, Flush, WriteRow,
     Lapse, CreateSession, Expire, OutsideWrite, Restart
<1> QED BY <1>2, <1>3 DEF Quenched

\* And once none of them is left and the entry is past its lifetime, no request is
\* answered with the token again, for ever.
THEOREM SignOutLasts == Spec => \A t \in Tokens : [](Quenched(t) => []~Usable(t))
<1> SUFFICES ASSUME NEW t \in Tokens PROVE Spec => [](Quenched(t) => []~Usable(t))
  OBVIOUS
<1>1. SignOutInv /\ [Next]_vars => (Quenched(t) => Quenched(t)')
  BY QuenchedStep
<1>2. Quenched(t) => ~Usable(t)
  BY DEF Quenched
<1> QED BY <1>1, <1>2, SignOutInit, SignOutStep, PTL DEF Spec

=============================================================================
