---------------------- MODULE ConditionalRequestsProofs ----------------------
(***************************************************************************)
(* Safety of ConditionalRequests, for every number of requests, URLs and   *)
(* versions and every size of the store.                                   *)
(***************************************************************************)
EXTENDS ConditionalRequests, FiniteSetTheorems, TLAPS

(* The inductive invariant *)

Busy(r) == req[r].pc # "idle"

\* An entry's ETag names its body, and there are finitely many of them.
StoreInv ==
  /\ IsFiniteSet(DOMAIN stored)
  /\ \A u \in DOMAIN stored : stored[u].etag = stored[u].body

\* BCP never goes back.
OwedInv == \A r \in Requests : Busy(r) => req[r].due =< current[req[r].url]

\* Whoever was alone for its URL sees only answers that were given later.
AnswersInv ==
  \A r, q \in Requests :
    Busy(r) /\ req[q].pc = "full" /\ req[q].url = req[r].url => req[r].due =< req[q].body

\* So what is stored is what the validator named, or such an answer.
SentInv ==
  \A r \in Requests :
    req[r].pc = "sent" /\ req[r].url \in DOMAIN stored
      => stored[req[r].url].body \in req[r].etag \/ req[r].due =< stored[req[r].url].body

\* Once BCP has confirmed the validator, either is recent enough.
ConfirmedInv ==
  \A r \in Requests :
    req[r].pc = "notModified" /\ req[r].url \in DOMAIN stored
      => req[r].due =< stored[req[r].url].body

CurrentInv == StoreInv /\ OwedInv /\ AnswersInv /\ SentInv /\ ConfirmedInv

----------------------------------------------------------------------------
(* Types *)

\* What a request holds in each of its states.
LEMMA RequestFields ==
  ASSUME NEW r \in Request
  PROVE  /\ r.pc \in {"idle", "sent", "full", "notModified", "forgetting"}
         /\ r.pc # "idle" => r.url \in Urls /\ r.due \in Versions
         /\ r.pc = "sent" => r.etag \in Validator
         /\ r.pc = "full" => r.body \in Versions
         /\ r.pc = "idle" <=> r = Idle
  BY DEF Request, Idle

\* One request moves to another of its states.
LEMMA BecomeType ==
  ASSUME TypeOK, NEW r \in Requests, NEW state \in Request, Become(r, state)
  PROVE  /\ req' \in [Requests -> Request]
         /\ req'[r] = state
         /\ \A q \in Requests \ {r} : req'[q] = req[q]
  BY DEF TypeOK, Become

\* Each state a request may come to is one.
LEMMA States ==
  ASSUME NEW u \in Urls, NEW due \in Versions
  PROVE  /\ Idle \in Request
         /\ \A etag \in Validator : [pc |-> "sent", url |-> u, due |-> due, etag |-> etag] \in Request
         /\ \A v \in Versions : [pc |-> "full", url |-> u, due |-> due, body |-> v] \in Request
         /\ [pc |-> "notModified", url |-> u, due |-> due] \in Request
         /\ [pc |-> "forgetting", url |-> u, due |-> due] \in Request
  BY DEF Request, Idle

\* Zero is a version: BCP starts with it, and who is not alone is owed it.
LEMMA ZeroVersion == 0 \in Versions /\ Versions \subseteq Nat
  BY BoundsAssumption DEF Versions

\* An entry that names its own body is one.
LEMMA NewEntryType ==
  ASSUME NEW u, NEW v \in Versions
  PROVE  /\ NewEntry(u, v) \in [etag : Versions, body : Versions]
         /\ NewEntry(u, v).etag = v /\ NewEntry(u, v).body = v
  BY DEF NewEntry

\* What Remember leaves in the store.
LEMMA Remembered ==
  ASSUME TypeOK, StoreInv, NEW u \in Urls, NEW v \in Versions, NEW gone \in Evicted,
         stored' = [w \in (DOMAIN stored \ gone) \cup {u} |->
                      IF w = u THEN NewEntry(u, v) ELSE stored[w]]
  PROVE  /\ DOMAIN stored' = (DOMAIN stored \ gone) \cup {u}
         /\ stored' \in [DOMAIN stored' -> [etag : Versions, body : Versions]]
         /\ stored'[u] = NewEntry(u, v)
         /\ \A w \in DOMAIN stored' \ {u} : w \in DOMAIN stored /\ stored'[w] = stored[w]
         /\ IsFiniteSet(DOMAIN stored')
         /\ Cardinality(DOMAIN stored') =< Capacity
<1>1. DOMAIN stored' = (DOMAIN stored \ gone) \cup {u}
  OBVIOUS
<1>2. \A w \in DOMAIN stored' \ {u} : w \in DOMAIN stored /\ stored'[w] = stored[w]
  OBVIOUS
<1>3. stored'[u] = NewEntry(u, v)
  OBVIOUS
<1>4. stored' \in [DOMAIN stored' -> [etag : Versions, body : Versions]]
  <2> DEFINE Field == [etag : Versions, body : Versions]
  <2>1. NewEntry(u, v) \in Field
    BY NewEntryType
  <2>2. \A w \in DOMAIN stored : stored[w] \in Field
    BY DEF TypeOK
  <2> HIDE DEF Field
  <2>3. \A w \in (DOMAIN stored \ gone) \cup {u} :
          (IF w = u THEN NewEntry(u, v) ELSE stored[w]) \in Field
    BY <2>1, <2>2
  <2>4. stored' \in [(DOMAIN stored \ gone) \cup {u} -> Field]
    BY <2>3
  <2> QED BY <2>4, <1>1 DEF Field
<1>5. /\ IsFiniteSet(DOMAIN stored \ gone)
      /\ Cardinality(DOMAIN stored \ gone) + 1 =< Capacity
  <2>1. IsFiniteSet(DOMAIN stored) /\ Cardinality(DOMAIN stored) \in Nat
    BY FS_CardinalityType DEF StoreInv
  <2>2. CASE Cardinality(DOMAIN stored) >= Capacity
    <3>1. PICK w \in DOMAIN stored : gone = {w}
      BY <2>2 DEF Evicted
    <3>2. /\ IsFiniteSet(DOMAIN stored \ {w})
          /\ Cardinality(DOMAIN stored \ {w}) = Cardinality(DOMAIN stored) - 1
      BY <2>1, FS_RemoveElement
    <3>3. Capacity \in Nat /\ Cardinality(DOMAIN stored) =< Capacity
      BY BoundsAssumption DEF TypeOK
    <3> QED BY <3>1, <3>2, <3>3, <2>1
  <2>3. CASE ~(Cardinality(DOMAIN stored) >= Capacity)
    <3>1. gone = {}
      BY <2>3 DEF Evicted
    <3>2. DOMAIN stored \ gone = DOMAIN stored
      BY <3>1
    <3> QED BY <2>1, <2>3, <3>2, BoundsAssumption
  <2> QED BY <2>2, <2>3
<1>6. IsFiniteSet(DOMAIN stored') /\ Cardinality(DOMAIN stored') =< Capacity
  <2> DEFINE left == DOMAIN stored \ gone
  <2>1. IsFiniteSet(left) /\ Cardinality(left) \in Nat /\ Cardinality(left) + 1 =< Capacity
    BY <1>5, FS_CardinalityType
  <2> HIDE DEF left
  <2>2. /\ IsFiniteSet(left \cup {u})
        /\ Cardinality(left \cup {u}) = IF u \in left THEN Cardinality(left) ELSE Cardinality(left) + 1
    BY <2>1, FS_AddElement
  <2>3. Cardinality(left \cup {u}) =< Capacity
    BY <2>1, <2>2, BoundsAssumption
  <2>4. DOMAIN stored' = left \cup {u}
    BY <1>1 DEF left
  <2> QED BY <2>2, <2>3, <2>4
<1> QED BY <1>1, <1>2, <1>3, <1>4, <1>6

\* What Forget leaves in the store.
LEMMA Forgotten ==
  ASSUME TypeOK, StoreInv, NEW urls, stored' = Without(urls)
  PROVE  /\ DOMAIN stored' = DOMAIN stored \ urls
         /\ stored' \in [DOMAIN stored' -> [etag : Versions, body : Versions]]
         /\ \A w \in DOMAIN stored' : w \in DOMAIN stored /\ stored'[w] = stored[w]
         /\ IsFiniteSet(DOMAIN stored')
         /\ Cardinality(DOMAIN stored') =< Capacity
<1>1. /\ DOMAIN stored' = DOMAIN stored \ urls
      /\ \A w \in DOMAIN stored' : w \in DOMAIN stored /\ stored'[w] = stored[w]
  BY DEF Without
<1>2. stored' \in [DOMAIN stored' -> [etag : Versions, body : Versions]]
  BY DEF Without, TypeOK
<1>3. /\ IsFiniteSet(DOMAIN stored')
      /\ Cardinality(DOMAIN stored') =< Cardinality(DOMAIN stored)
  <2>1. DOMAIN stored' \in SUBSET DOMAIN stored
    BY <1>1
  <2>2. IsFiniteSet(DOMAIN stored)
    BY DEF StoreInv
  <2> QED BY <2>1, <2>2, FS_Subset
<1>4. /\ Cardinality(DOMAIN stored') \in Nat /\ Cardinality(DOMAIN stored) \in Nat
      /\ Cardinality(DOMAIN stored) =< Capacity /\ Capacity \in Nat
  BY <1>3, FS_CardinalityType, BoundsAssumption DEF StoreInv, TypeOK
<1> QED BY <1>1, <1>2, <1>3, <1>4

----------------------------------------------------------------------------
\* Every step keeps every variable's type, given that the store is finite.
LEMMA TypeStep == TypeOK /\ StoreInv /\ [Next]_vars => TypeOK'
<1> SUFFICES ASSUME TypeOK, StoreInv, [Next]_vars PROVE TypeOK'
  OBVIOUS
<1>1. ASSUME NEW r \in Requests, NEW u \in Urls, Ask(r, u) PROVE TypeOK'
  <2> DEFINE due == IF Alone(u) THEN current[u] ELSE 0
             etag == IF u \in DOMAIN stored THEN {stored[u].etag} ELSE {}
  <2>1. due \in Versions /\ etag \in Validator
    BY ZeroVersion DEF TypeOK, Validator
  <2>2. Become(r, [pc |-> "sent", url |-> u, due |-> due, etag |-> etag])
    BY <1>1 DEF Ask
  <2> HIDE DEF due, etag
  <2>3. req' \in [Requests -> Request]
    BY <2>1, <2>2, States, BecomeType
  <2> QED BY <1>1, <2>3 DEF Ask, Silent, TypeOK
<1>2. ASSUME NEW r \in Requests, Answered(r) PROVE TypeOK'
  <2>1. req[r] \in Request /\ req[r].pc = "sent"
    BY <1>2 DEF Answered, TypeOK
  <2>2. req[r].url \in Urls /\ req[r].due \in Versions /\ current[req[r].url] \in Versions
    BY <2>1, RequestFields DEF TypeOK
  <2>3. req' \in [Requests -> Request]
    BY <1>2, <2>2, States, BecomeType DEF Answered
  <2> QED BY <1>2, <2>3 DEF Answered, Silent, TypeOK
<1>3. ASSUME NEW r \in Requests, Failed(r) PROVE TypeOK'
  <2>1. req' \in [Requests -> Request]
    BY <1>3, BecomeType DEF Failed, Request, Idle
  <2> QED BY <1>3, <2>1 DEF Failed, Silent, TypeOK
<1>4. ASSUME NEW r \in Requests, Confirm(r) PROVE TypeOK'
  <2>1. req[r] \in Request /\ req[r].pc = "notModified"
    BY <1>4 DEF Confirm, TypeOK
  <2>2. req[r].url \in Urls /\ req[r].due \in Versions
    BY <2>1, RequestFields
  <2>3. stored[req[r].url].body \in Versions
    BY <1>4 DEF Confirm, TypeOK
  <2>4. req' \in [Requests -> Request]
    BY <1>4, BecomeType DEF Confirm, Request, Idle
  <2> QED BY <1>4, <2>2, <2>3, <2>4 DEF Confirm, Return, TypeOK
<1>5. ASSUME NEW r \in Requests, NoBody(r) PROVE TypeOK'
  <2>1. req[r] \in Request /\ req[r].pc = "notModified"
    BY <1>5 DEF NoBody, TypeOK
  <2>2. [req[r] EXCEPT !.pc = "forgetting"] \in Request
    BY <2>1 DEF Request
  <2>3. req' \in [Requests -> Request]
    BY <1>5, <2>2, BecomeType DEF NoBody
  <2> QED BY <1>5, <2>3 DEF NoBody, Silent, TypeOK
<1>6. ASSUME NEW r \in Requests, Forget(r) PROVE TypeOK'
  <2>1. req' \in [Requests -> Request]
    BY <1>6, BecomeType DEF Forget, Request, Idle
  <2>2. /\ DOMAIN stored' \subseteq Urls
        /\ stored' \in [DOMAIN stored' -> [etag : Versions, body : Versions]]
        /\ Cardinality(DOMAIN stored') =< Capacity
    BY <1>6, Forgotten DEF Forget, TypeOK
  <2> QED BY <1>6, <2>1, <2>2 DEF Forget, Silent, TypeOK
<1>7. ASSUME NEW r \in Requests, Remember(r) PROVE TypeOK'
  <2> DEFINE u == req[r].url
             v == req[r].body
  <2>1. req[r] \in Request /\ req[r].pc = "full"
    BY <1>7 DEF Remember, TypeOK
  <2>2. u \in Urls /\ req[r].due \in Versions /\ v \in Versions
    BY <2>1, RequestFields
  <2>3. req' \in [Requests -> Request]
    BY <1>7, BecomeType DEF Remember, Request, Idle
  <2>4. /\ DOMAIN stored' \subseteq Urls
        /\ stored' \in [DOMAIN stored' -> [etag : Versions, body : Versions]]
        /\ Cardinality(DOMAIN stored') =< Capacity
    <3>1. CASE UNCHANGED stored
      BY <3>1 DEF TypeOK
    <3>2. CASE \E gone \in Evicted :
                 stored' = [w \in (DOMAIN stored \ gone) \cup {u} |->
                              IF w = u THEN NewEntry(u, v) ELSE stored[w]]
      <4> HIDE DEF u, v
      <4> QED BY <2>2, <3>2, Remembered DEF TypeOK
    <3> QED BY <1>7, <3>1, <3>2 DEF Remember
  <2> QED BY <1>7, <2>2, <2>3, <2>4 DEF Remember, Return, TypeOK
<1>8. ASSUME NEW u \in Urls, Change(u) PROVE TypeOK'
  <2>1. current' \in [Urls -> Versions]
    BY <1>8, BoundsAssumption DEF Change, TypeOK, Versions
  <2> QED BY <1>8, <2>1 DEF Change, Silent, TypeOK
<1>9. CASE UNCHANGED vars
  BY <1>9 DEF vars, TypeOK
<1> QED BY <1>1, <1>2, <1>3, <1>4, <1>5, <1>6, <1>7, <1>8, <1>9 DEF Next

LEMMA InitType == Init => TypeOK /\ StoreInv
<1> SUFFICES ASSUME Init PROVE TypeOK /\ StoreInv
  OBVIOUS
<1>1. DOMAIN stored = {}
  BY DEF Init
<1>2. stored \in [DOMAIN stored -> [etag : Versions, body : Versions]]
  BY <1>1 DEF Init
<1>3. IsFiniteSet(DOMAIN stored) /\ Cardinality(DOMAIN stored) = 0
  BY <1>1, FS_EmptySet
<1>4. req \in [Requests -> Request]
  BY DEF Init, Request, Idle
<1> QED BY <1>1, <1>2, <1>3, <1>4, ZeroVersion, BoundsAssumption DEF Init, TypeOK, StoreInv

----------------------------------------------------------------------------
(* The invariant *)

\* Nothing is owed of a request that is over.
LEMMA ReturnStep ==
  ASSUME TypeOK, CurrentInv, NEW r \in Requests, Become(r, Idle), UNCHANGED <<current, stored>>
  PROVE  CurrentInv'
<1>1. /\ \A q \in Requests \ {r} : req'[q] = req[q]
      /\ req'[r] = Idle
  BY States, BecomeType DEF Become, TypeOK
<1>2. \A q \in Requests : req'[q].pc # "idle" => q # r /\ req'[q] = req[q]
  BY <1>1 DEF Idle
<1>3. \A q \in Requests : req'[q].pc \in {"sent", "full", "notModified"} => q # r /\ req'[q] = req[q]
  BY <1>2
<1> QED BY <1>2, <1>3 DEF CurrentInv, StoreInv, OwedInv, AnswersInv, SentInv, ConfirmedInv, Busy

\* The version of every body, validator and debt is a number.
LEMMA Numbers ==
  ASSUME TypeOK
  PROVE  /\ \A r \in Requests : Busy(r) => req[r].url \in Urls /\ req[r].due \in Nat
         /\ \A r \in Requests : req[r].pc = "full" => req[r].body \in Nat
         /\ \A u \in Urls : current[u] \in Nat
         /\ \A u \in DOMAIN stored : stored[u].body \in Nat
<1>1. \A r \in Requests : req[r] \in Request
  BY DEF TypeOK
<1>2. \A r \in Requests : Busy(r) => req[r].url \in Urls /\ req[r].due \in Versions
  BY <1>1, RequestFields DEF Busy
<1>3. \A r \in Requests : req[r].pc = "full" => req[r].body \in Versions
  BY <1>1, RequestFields
<1>4. \A u \in Urls : current[u] \in Versions
  BY DEF TypeOK
<1>5. \A u \in DOMAIN stored : stored[u].body \in Versions
  BY DEF TypeOK
<1> QED BY <1>2, <1>3, <1>4, <1>5, ZeroVersion

\* Every step keeps the invariant.
LEMMA CurrentStep == TypeOK /\ CurrentInv /\ [Next]_vars => CurrentInv'
<1> SUFFICES ASSUME TypeOK, CurrentInv, [Next]_vars PROVE CurrentInv'
  OBVIOUS
<1> USE DEF Busy
<1>t. \A r \in Requests : req[r] \in Request
  BY DEF TypeOK
<1>1. ASSUME NEW r \in Requests, NEW u \in Urls, Ask(r, u) PROVE CurrentInv'
  <2> DEFINE due == IF Alone(u) THEN current[u] ELSE 0
             etag == IF u \in DOMAIN stored THEN {stored[u].etag} ELSE {}
             sent == [pc |-> "sent", url |-> u, due |-> due, etag |-> etag]
  <2>1. due \in Versions /\ etag \in Validator
    BY ZeroVersion DEF TypeOK, Validator
  <2>2. Become(r, sent) /\ UNCHANGED <<current, stored>>
    BY <1>1 DEF Ask
  <2>3. due =< current[u]
    BY Numbers
  <2>4. \A q \in Requests : req[q].pc = "full" /\ req[q].url = u => due =< req[q].body
    <3>1. CASE Alone(u)
      BY <3>1 DEF Alone, Idle
    <3>2. CASE ~Alone(u)
      BY <3>2, Numbers
    <3> QED BY <3>1, <3>2
  <2>5. u \in DOMAIN stored => stored[u].body \in etag
    BY DEF CurrentInv, StoreInv
  <2>6. sent.pc = "sent" /\ sent.url = u /\ sent.due = due /\ sent.etag = etag
    OBVIOUS
  <2> HIDE DEF due, etag
  <2>7. sent \in Request
    BY <2>1, States
  <2> HIDE DEF sent
  <2>8. req'[r] = sent /\ \A q \in Requests \ {r} : req'[q] = req[q]
    BY <2>2, <2>7, BecomeType
  <2>9. StoreInv' /\ OwedInv'
    BY <2>2, <2>3, <2>6, <2>8 DEF CurrentInv, StoreInv, OwedInv
  <2>10. AnswersInv'
    BY <2>4, <2>6, <2>8 DEF CurrentInv, AnswersInv
  <2>11. SentInv' /\ ConfirmedInv'
    BY <2>2, <2>5, <2>6, <2>8 DEF CurrentInv, SentInv, ConfirmedInv
  <2> QED BY <2>9, <2>10, <2>11 DEF CurrentInv
<1>2. ASSUME NEW r \in Requests, Answered(r) PROVE CurrentInv'
  <2> DEFINE u == req[r].url
             due == req[r].due
             confirmed == [pc |-> "notModified", url |-> u, due |-> due]
             full == [pc |-> "full", url |-> u, due |-> due, body |-> current[u]]
  <2>1. req[r].pc = "sent" /\ UNCHANGED <<current, stored>>
    BY <1>2 DEF Answered
  <2>2. u \in Urls /\ due \in Versions /\ req[r].etag \in Validator
    BY <1>t, <2>1, RequestFields
  <2>3. StoreInv'
    BY <2>1 DEF CurrentInv, StoreInv
  <2>4. CASE current[u] \in req[r].etag
    <3>1. Become(r, confirmed)
      BY <1>2, <2>4 DEF Answered
    <3>2. req[r].etag = {current[u]}
      BY <2>2, <2>4 DEF Validator
    <3>3. u \in DOMAIN stored => due =< stored[u].body
      BY <2>1, <3>2 DEF CurrentInv, SentInv, OwedInv
    <3>4. confirmed.pc = "notModified" /\ confirmed.url = u /\ confirmed.due = due
      OBVIOUS
    <3>5. confirmed \in Request
      BY <2>2, States
    <3> HIDE DEF confirmed
    <3>6. req'[r] = confirmed /\ \A q \in Requests \ {r} : req'[q] = req[q]
      BY <3>1, <3>5, BecomeType
    <3>7. OwedInv' /\ AnswersInv'
      BY <2>1, <3>4, <3>6 DEF CurrentInv, OwedInv, AnswersInv
    <3>8. SentInv' /\ ConfirmedInv'
      BY <2>1, <3>3, <3>4, <3>6 DEF CurrentInv, SentInv, ConfirmedInv
    <3> QED BY <2>3, <3>7, <3>8 DEF CurrentInv
  <2>5. CASE current[u] \notin req[r].etag
    <3>1. Become(r, full)
      BY <1>2, <2>5 DEF Answered
    <3>2. full.pc = "full" /\ full.url = u /\ full.due = due /\ full.body = current[u]
      OBVIOUS
    <3>3. current[u] \in Versions
      BY <2>2 DEF TypeOK
    <3>4. full \in Request
      BY <2>2, <3>3, States
    <3> HIDE DEF full
    <3>5. req'[r] = full /\ \A q \in Requests \ {r} : req'[q] = req[q]
      BY <3>1, <3>4, BecomeType
    <3>6. OwedInv'
      BY <2>1, <3>2, <3>5 DEF CurrentInv, OwedInv
    <3>7. AnswersInv'
      BY <2>1, <3>2, <3>5 DEF CurrentInv, OwedInv, AnswersInv
    <3>8. SentInv' /\ ConfirmedInv'
      BY <2>1, <3>2, <3>5 DEF CurrentInv, SentInv, ConfirmedInv
    <3> QED BY <2>3, <3>6, <3>7, <3>8 DEF CurrentInv
  <2> QED BY <2>4, <2>5
<1>3. ASSUME NEW r \in Requests, Failed(r) PROVE CurrentInv'
  BY <1>3, ReturnStep DEF Failed
<1>4. ASSUME NEW r \in Requests, Confirm(r) PROVE CurrentInv'
  BY <1>4, ReturnStep DEF Confirm
<1>5. ASSUME NEW r \in Requests, NoBody(r) PROVE CurrentInv'
  <2> DEFINE forgetting == [req[r] EXCEPT !.pc = "forgetting"]
  <2>1. req[r].pc = "notModified" /\ UNCHANGED <<current, stored>>
    BY <1>5 DEF NoBody
  <2>2. /\ forgetting \in Request /\ forgetting.pc = "forgetting"
        /\ forgetting.url = req[r].url /\ forgetting.due = req[r].due
    BY <1>t, <2>1 DEF Request
  <2>3. Become(r, forgetting)
    BY <1>5 DEF NoBody
  <2> HIDE DEF forgetting
  <2>4. req'[r] = forgetting /\ \A q \in Requests \ {r} : req'[q] = req[q]
    BY <2>2, <2>3, BecomeType
  <2> QED BY <2>1, <2>2, <2>4
          DEF CurrentInv, StoreInv, OwedInv, AnswersInv, SentInv, ConfirmedInv
<1>6. ASSUME NEW r \in Requests, Forget(r) PROVE CurrentInv'
  <2>1. Become(r, Idle) /\ current' = current /\ stored' = Without({req[r].url})
    BY <1>6 DEF Forget
  <2>2. req'[r] = Idle /\ \A q \in Requests \ {r} : req'[q] = req[q]
    BY <2>1, States, BecomeType DEF Become, TypeOK
  <2>3. \A q \in Requests : req'[q].pc # "idle" => q # r /\ req'[q] = req[q]
    BY <2>2 DEF Idle
  <2>4. /\ IsFiniteSet(DOMAIN stored')
        /\ \A w \in DOMAIN stored' : w \in DOMAIN stored /\ stored'[w] = stored[w]
    BY <2>1, Forgotten DEF CurrentInv
  <2>5. StoreInv'
    BY <2>4 DEF CurrentInv, StoreInv
  <2>6. OwedInv' /\ AnswersInv'
    BY <2>1, <2>3 DEF CurrentInv, OwedInv, AnswersInv
  <2>7. SentInv' /\ ConfirmedInv'
    BY <2>3, <2>4 DEF CurrentInv, SentInv, ConfirmedInv
  <2> QED BY <2>5, <2>6, <2>7 DEF CurrentInv
<1>7. ASSUME NEW r \in Requests, Remember(r) PROVE CurrentInv'
  <2> DEFINE u == req[r].url
             v == req[r].body
  <2>1. req[r].pc = "full" /\ Become(r, Idle) /\ current' = current
    BY <1>7 DEF Remember
  <2>2. u \in Urls /\ v \in Versions
    BY <1>t, <2>1, RequestFields
  <2>3. CASE UNCHANGED stored
    BY <2>1, <2>3, ReturnStep
  <2>4. CASE \E gone \in Evicted :
               stored' = [w \in (DOMAIN stored \ gone) \cup {u} |->
                            IF w = u THEN NewEntry(u, v) ELSE stored[w]]
    <3>1. req'[r] = Idle /\ \A q \in Requests \ {r} : req'[q] = req[q]
      BY <2>1, States, BecomeType DEF Become, TypeOK
    <3>2. \A q \in Requests : req'[q].pc # "idle" => q # r /\ req'[q] = req[q]
      BY <3>1 DEF Idle
    <3>3. \A q \in Requests : Busy(q) /\ req[q].url = u => req[q].due =< v
      BY <2>1 DEF CurrentInv, AnswersInv
    <3> HIDE DEF u, v
    <3>4. /\ IsFiniteSet(DOMAIN stored')
          /\ stored'[u] = NewEntry(u, v)
          /\ \A w \in DOMAIN stored' \ {u} : w \in DOMAIN stored /\ stored'[w] = stored[w]
      BY <2>2, <2>4, Remembered DEF CurrentInv
    <3>5. stored'[u].etag = v /\ stored'[u].body = v
      BY <2>2, <3>4, NewEntryType
    <3>6. StoreInv'
      BY <3>4, <3>5 DEF CurrentInv, StoreInv
    <3>7. OwedInv' /\ AnswersInv'
      BY <2>1, <3>2 DEF CurrentInv, OwedInv, AnswersInv
    <3>8. SentInv'
      BY <3>2, <3>3, <3>4, <3>5 DEF CurrentInv, SentInv
    <3>9. ConfirmedInv'
      BY <3>2, <3>3, <3>4, <3>5 DEF CurrentInv, ConfirmedInv
    <3> QED BY <3>6, <3>7, <3>8, <3>9 DEF CurrentInv
  <2> QED BY <1>7, <2>3, <2>4 DEF Remember
<1>8. ASSUME NEW u \in Urls, Change(u) PROVE CurrentInv'
  <2>1. UNCHANGED <<stored, req>>
    BY <1>8 DEF Change
  <2>2. \A w \in Urls : current[w] \in Nat /\ current'[w] \in Nat /\ current[w] =< current'[w]
    BY <1>8, Numbers DEF Change, TypeOK
  <2>3. OwedInv'
    BY <2>1, <2>2, Numbers DEF CurrentInv, OwedInv
  <2> QED BY <2>1, <2>3 DEF CurrentInv, StoreInv, AnswersInv, SentInv, ConfirmedInv
<1>9. CASE UNCHANGED vars
  BY <1>9 DEF vars, CurrentInv, StoreInv, OwedInv, AnswersInv, SentInv, ConfirmedInv
<1> QED BY <1>1, <1>2, <1>3, <1>4, <1>5, <1>6, <1>7, <1>8, <1>9 DEF Next

LEMMA InitCurrent == Init => CurrentInv
<1> SUFFICES ASSUME Init PROVE CurrentInv
  OBVIOUS
<1>1. DOMAIN stored = {} /\ \A r \in Requests : req[r].pc = "idle"
  BY DEF Init, Idle
<1>2. StoreInv
  BY <1>1, InitType
<1> QED BY <1>1, <1>2 DEF CurrentInv, OwedInv, AnswersInv, SentInv, ConfirmedInv, Busy

----------------------------------------------------------------------------
(* Theorems *)

\* Both invariants at once: that the store is finite is part of the second.
LEMMA Invariant == Spec => [](TypeOK /\ CurrentInv)
<1>1. Init => TypeOK /\ CurrentInv
  BY InitType, InitCurrent
<1>2. TypeOK /\ CurrentInv /\ [Next]_vars => (TypeOK /\ CurrentInv)'
  BY TypeStep, CurrentStep DEF CurrentInv
<1> QED BY <1>1, <1>2, PTL DEF Spec

\* Requests, entries and answers hold what the code puts in them, and there
\* are never more than maxConditionalEntries entries (remember, evict).
THEOREM TypeCorrect == Spec => []TypeOK
<1>1. TypeOK /\ CurrentInv => TypeOK
  OBVIOUS
<1> QED BY <1>1, Invariant, PTL

\* A step answers with a body that is no older than what the request is owed.
LEMMA AnswerStep ==
  TypeOK /\ CurrentInv /\ ConfirmedIsCurrent /\ [Next]_vars => ConfirmedIsCurrent'
<1> SUFFICES ASSUME TypeOK, CurrentInv, ConfirmedIsCurrent, [Next]_vars PROVE ConfirmedIsCurrent'
  OBVIOUS
<1>1. ASSUME answer' = {} PROVE ConfirmedIsCurrent'
  BY <1>1 DEF ConfirmedIsCurrent
<1>2. ASSUME NEW r \in Requests, Confirm(r) PROVE ConfirmedIsCurrent'
  <2>1. req[r].due =< stored[req[r].url].body
    BY <1>2 DEF Confirm, CurrentInv, ConfirmedInv
  <2>2. req[r].due \in Nat /\ stored[req[r].url].body \in Nat
    BY <1>2, Numbers DEF Confirm, Busy
  <2> QED BY <1>2, <2>1, <2>2 DEF Confirm, Return, ConfirmedIsCurrent
<1>3. ASSUME NEW r \in Requests, Remember(r) PROVE ConfirmedIsCurrent'
  <2>1. req[r].due =< req[r].body
    BY <1>3 DEF Remember, CurrentInv, AnswersInv, Busy
  <2>2. req[r].due \in Nat /\ req[r].body \in Nat
    BY <1>3, Numbers DEF Remember, Busy
  <2> QED BY <1>3, <2>1, <2>2 DEF Remember, Return, ConfirmedIsCurrent
<1>4. ASSUME NEW r \in Requests, Answered(r) \/ Failed(r) \/ NoBody(r) \/ Forget(r)
      PROVE ConfirmedIsCurrent'
  BY <1>1, <1>4 DEF Answered, Failed, NoBody, Forget, Silent
<1>5. ASSUME NEW r \in Requests, NEW u \in Urls, Ask(r, u) PROVE ConfirmedIsCurrent'
  BY <1>1, <1>5 DEF Ask, Silent
<1>6. ASSUME NEW u \in Urls, Change(u) PROVE ConfirmedIsCurrent'
  BY <1>1, <1>6 DEF Change, Silent
<1>7. CASE UNCHANGED vars
  BY <1>7 DEF vars, ConfirmedIsCurrent
<1> QED BY <1>2, <1>3, <1>4, <1>5, <1>6, <1>7 DEF Next

\* Asking with a validator never gives an older answer than asking without,
\* to a request that was the only one for its URL when it was sent.
THEOREM AlwaysCurrent == Spec => []ConfirmedIsCurrent
<1>1. Init => ConfirmedIsCurrent
  BY DEF Init, ConfirmedIsCurrent
<1> QED BY <1>1, Invariant, AnswerStep, PTL DEF Spec

=============================================================================
