-------------------------- MODULE FollowAccessProofs --------------------------
(***************************************************************************)
(* Safety of FollowAccess, for any number of people, tokens and requests   *)
(* and every size of the map.                                              *)
(***************************************************************************)
EXTENDS FollowAccess, FiniteSetTheorems, TLAPS

(* The inductive invariant *)

Tokened(p) == IF req[p].pc = "revoking" THEN req[p].tokens ELSE {}

\* What is in the table, or was when a revocation began, has been handed out,
\* so a fresh token is none of these.
IssuedInv ==
  /\ \A l \in links : l.token \in issued
  /\ \A p \in Requests : Tokened(p) \subseteq issued

\* A row whose revocation has begun is gone, and lookups that read it before
\* are known.
RevokedInv ==
  /\ \A l \in links : l.token \notin revoked
  /\ \A p \in Requests : \A l \in links : l.token \notin Tokened(p)
  /\ \A t \in revoked \ overtaken : ~PastQuery(t)

FiniteMap == IsFiniteSet(DOMAIN cache)

TypeInv == TypeOK /\ IssuedInv /\ FiniteMap

----------------------------------------------------------------------------
(* Operators *)

\* What a request holds in each of its states.
LEMMA RequestFields ==
  ASSUME NEW r \in Request
  PROVE  /\ r.pc \in {"idle", "missed", "found", "saving", "revoking"}
         /\ r.pc \in {"missed", "found"} => r.token \in Tokens /\ r.user \subseteq Spectators
         /\ r.pc = "found" => r.rows \subseteq Link
         /\ r.pc = "saving" => r.user \in Spectators /\ r.via \in Tokens \cup {Picked}
         /\ r.pc = "revoking" => r.tokens \subseteq Tokens
  BY DEF Request

\* One request moves to another of its states.
LEMMA BecomeType ==
  ASSUME TypeOK, NEW p \in Requests, NEW state \in Request, Become(p, state)
  PROVE  /\ req' \in [Requests -> Request]
         /\ req'[p] = state
         /\ \A q \in Requests \ {p} : req'[q] = req[q]
  BY DEF TypeOK, Become

IdleRequest == [pc |-> "idle"]

LEMMA IdleType == IdleRequest \in Request /\ IdleRequest.pc = "idle"
  BY DEF Request, IdleRequest

\* A lookup ends, or goes on to the saving of what it found.
LEMMA AnsweredState ==
  ASSUME TypeOK, NEW p \in Requests, NEW user \in SUBSET Spectators, NEW rows \in SUBSET Link,
         Answered(p, user, rows)
  PROVE  /\ req' \in [Requests -> Request]
         /\ req'[p].pc \in {"idle", "saving"}
         /\ \A q \in Requests \ {p} : req'[q] = req[q]
<1> DEFINE state ==
      IF \E u \in user, l \in rows : l.owner # u
      THEN [pc |-> "saving", user |-> CHOOSE u \in user : TRUE,
            via |-> (CHOOSE l \in rows : TRUE).id]
      ELSE [pc |-> "idle"]
<1>1. state \in Request /\ state.pc \in {"idle", "saving"}
  <2>1. CASE \E u \in user, l \in rows : l.owner # u
    <3>1. (CHOOSE u \in user : TRUE) \in Spectators
      BY <2>1
    <3>2. (CHOOSE l \in rows : TRUE) \in Link
      BY <2>1
    <3>3. (CHOOSE l \in rows : TRUE).id \in Tokens
      BY <3>2 DEF Link
    <3> QED BY <2>1, <3>1, <3>3 DEF Request
  <2>2. CASE ~(\E u \in user, l \in rows : l.owner # u)
    BY <2>2 DEF Request
  <2> QED BY <2>1, <2>2
<1>2. Become(p, state)
  BY DEF Answered
<1> HIDE DEF state
<1> QED BY <1>1, <1>2, BecomeType

\* n is the one link u has left after sharing.
Shared(n, u, t) ==
  /\ n.owner = u /\ n.expiry = "ahead"
  /\ \A l : l \in links' <=> (l \in links /\ l.owner # u) \/ l = n
  /\ issued' = issued \cup {n.token}
  /\ \/ n.token = t
     \/ \E l \in links : l.owner = u /\ l.expiry # "past" /\ l.token = n.token
  /\ \A l \in links : l.owner = u => n.id = l.id

\* Sharing leaves one link of u that resolves, with the id of the row there was,
\* and with its token, if that had not expired, or a fresh one.
LEMMA EnsureLinkEffect ==
  ASSUME TypeOK, NEW u \in Sharers, NEW t \in Tokens, EnsureLink(u, t)
  PROVE  \E n \in Link : Shared(n, u, t)
<1> DEFINE old == {l \in links : l.owner = u}
<1>1. CASE /\ old = {}
           /\ links' = links \cup {[id |-> t, token |-> t, owner |-> u, expiry |-> "ahead"]}
           /\ issued' = issued \cup {t}
  <2> DEFINE n == [id |-> t, token |-> t, owner |-> u, expiry |-> "ahead"]
  <2>1. n \in Link
    BY DEF Link, Expiries
  <2>2. n.owner = u /\ n.expiry = "ahead" /\ n.token = t
    OBVIOUS
  <2>3. \A m \in links : m.owner # u
    BY <1>1
  <2>4. links' = links \cup {n} /\ issued' = issued \cup {t}
    BY <1>1
  <2> HIDE DEF n, old
  <2> QED BY <2>1, <2>2, <2>3, <2>4 DEF Shared
<1>2. ASSUME NEW l \in old, NEW k \in TokensFor(l, t),
             links' = (links \ old) \cup {[l EXCEPT !.token = k, !.expiry = "ahead"]},
             issued' = issued \cup {k}
      PROVE  \E n \in Link : Shared(n, u, t)
  <2>1. l \in links /\ l.owner = u /\ l \in Link /\ l.token \in Tokens
    BY DEF TypeOK, Link
  <2>2. \A m \in links : m.owner = u <=> m = l
    BY <2>1 DEF TypeOK
  <2>3. k \in Tokens /\ (k = t \/ (l.expiry # "past" /\ k = l.token))
    BY <2>1 DEF TokensFor
  <2> DEFINE once == [l EXCEPT !.token = k]
             n == [l EXCEPT !.token = k, !.expiry = "ahead"]
  <2>4. /\ once \in Link
        /\ once.id = l.id /\ once.token = k /\ once.owner = l.owner
    BY <2>1, <2>3 DEF Link
  <2>5. /\ n = [once EXCEPT !.expiry = "ahead"]
        /\ links' = (links \ old) \cup {n} /\ issued' = issued \cup {k}
    BY <1>2, <2>1 DEF Link
  <2> HIDE DEF n, once
  <2>6. n \in Link /\ n.owner = u /\ n.expiry = "ahead" /\ n.token = k /\ n.id = l.id
    BY <2>1, <2>4, <2>5 DEF Link, Expiries
  <2>7. \A m : m \in links' <=> (m \in links /\ m.owner # u) \/ m = n
    BY <2>5
  <2>8. \/ n.token = t
        \/ \E m \in links : m.owner = u /\ m.expiry # "past" /\ m.token = n.token
    BY <2>1, <2>3, <2>6
  <2>9. issued' = issued \cup {n.token} /\ \A m \in links : m.owner = u => n.id = m.id
    BY <2>2, <2>5, <2>6
  <2> QED BY <2>6, <2>7, <2>8, <2>9 DEF Shared
<1> QED BY <1>1, <1>2 DEF EnsureLink

\* A link that comes closer to its end stays what it was otherwise.
LEMMA ExpireLinkEffect ==
  ASSUME TypeOK, NEW l \in links, ExpireLink(l)
  PROVE  \E n \in Link :
           /\ n.id = l.id /\ n.token = l.token /\ n.owner = l.owner
           /\ l.expiry # "past" /\ n.expiry # "ahead"
           /\ links' = (links \ {l}) \cup {n}
<1> DEFINE later == IF l.expiry = "ahead" THEN "now" ELSE "past"
           n == [l EXCEPT !.expiry = later]
<1>1. l \in Link
  BY DEF TypeOK
<1>2. later \in Expiries /\ later # "ahead"
  BY DEF Expiries
<1>3. links' = (links \ {l}) \cup {n} /\ l.expiry # "past"
  BY <1>1 DEF ExpireLink, Link
<1> HIDE DEF later
<1>4. /\ n \in Link /\ n.expiry = later
      /\ n.id = l.id /\ n.token = l.token /\ n.owner = l.owner
  BY <1>1, <1>2 DEF Link
<1> QED BY <1>2, <1>3, <1>4

\* An expiring row of a spectator too.
LEMMA ExpireSpectatedEffect ==
  ASSUME TypeOK, NEW s \in spectating, ExpireSpectated(s)
  PROVE  \E n \in Spectated :
           /\ n.user = s.user /\ n.via = s.via
           /\ spectating' = (spectating \ {s}) \cup {n}
<1>1. s \in Spectated
  BY DEF TypeOK
<1>2. /\ [s EXCEPT !.live = FALSE] \in Spectated
      /\ [s EXCEPT !.live = FALSE].user = s.user /\ [s EXCEPT !.live = FALSE].via = s.via
  BY <1>1 DEF Spectated
<1> QED BY <1>2 DEF ExpireSpectated

\* What is stored is one entry more, in a map that has room for it.
LEMMA StoredMap ==
  ASSUME TypeOK, FiniteMap, NEW t \in Tokens, NEW entry \in CachedLink, cache' = Stored(t, entry)
  PROVE  /\ DOMAIN cache' \subseteq DOMAIN cache \cup {t}
         /\ cache' \in [DOMAIN cache' -> CachedLink]
         /\ cache'[t] = entry
         /\ \A x \in DOMAIN cache' \ {t} : cache'[x] = cache[x]
         /\ IsFiniteSet(DOMAIN cache')
         /\ Cardinality(DOMAIN cache') =< MaxEntries
<1> DEFINE kept == IF Cardinality(DOMAIN cache) >= MaxEntries THEN {} ELSE DOMAIN cache \ {t}
<1>1. cache' = [x \in kept \cup {t} |-> IF x = t THEN entry ELSE cache[x]]
  BY DEF Stored
<1>2. kept \subseteq DOMAIN cache
  OBVIOUS
<1>3. IsFiniteSet(kept) /\ Cardinality(kept) \in Nat /\ Cardinality(kept) + 1 =< MaxEntries
  <2>1. IsFiniteSet(DOMAIN cache) /\ Cardinality(DOMAIN cache) \in Nat
    BY FS_CardinalityType DEF FiniteMap
  <2>2. CASE Cardinality(DOMAIN cache) >= MaxEntries
    <3>1. kept = {}
      BY <2>2
    <3> QED BY <3>1, FS_EmptySet, MaxEntriesAssumption
  <2>3. CASE ~(Cardinality(DOMAIN cache) >= MaxEntries)
    <3>1. kept = DOMAIN cache \ {t} /\ kept \in SUBSET DOMAIN cache
      BY <2>3
    <3> HIDE DEF kept
    <3>2. IsFiniteSet(kept) /\ Cardinality(kept) =< Cardinality(DOMAIN cache)
      BY <2>1, <3>1, FS_Subset
    <3>3. Cardinality(kept) \in Nat
      BY <3>2, FS_CardinalityType
    <3> QED BY <2>1, <2>3, <3>2, <3>3, MaxEntriesAssumption
  <2> QED BY <2>2, <2>3
<1> HIDE DEF kept
<1>4. DOMAIN cache' = kept \cup {t}
  BY <1>1
<1>5. cache'[t] = entry /\ \A x \in kept \ {t} : cache'[x] = cache[x]
  BY <1>1
<1>6. cache' \in [DOMAIN cache' -> CachedLink]
  <2>1. \A x \in kept : cache[x] \in CachedLink
    BY <1>2 DEF TypeOK
  <2>2. \A x \in kept \cup {t} : (IF x = t THEN entry ELSE cache[x]) \in CachedLink
    BY <2>1
  <2> QED BY <1>1, <1>4, <2>2
<1>7. IsFiniteSet(kept \cup {t}) /\ Cardinality(kept \cup {t}) =< MaxEntries
  <2>1. /\ IsFiniteSet(kept \cup {t})
        /\ Cardinality(kept \cup {t}) = IF t \in kept THEN Cardinality(kept) ELSE Cardinality(kept) + 1
    BY <1>3, FS_AddElement
  <2> QED BY <2>1, <1>3, MaxEntriesAssumption
<1> QED BY <1>2, <1>4, <1>5, <1>6, <1>7

\* Without entries the map is one.
LEMMA EmptyMap ==
  ASSUME NEW m, m = [t \in {} |-> t]
  PROVE  /\ DOMAIN m = {} /\ m \in [DOMAIN m -> CachedLink]
         /\ IsFiniteSet(DOMAIN m) /\ Cardinality(DOMAIN m) =< MaxEntries
<1>1. DOMAIN m = {} /\ m \in [DOMAIN m -> CachedLink]
  OBVIOUS
<1>2. IsFiniteSet(DOMAIN m) /\ Cardinality(DOMAIN m) = 0
  BY <1>1, FS_EmptySet
<1> QED BY <1>1, <1>2, MaxEntriesAssumption

----------------------------------------------------------------------------
(* Types *)

\* What a sweep, an expiry or the end of a spectator's row leaves is typed,
\* and each spectator has one row still.
LEMMA SpectatingSubset ==
  ASSUME TypeOK, spectating' \subseteq spectating
  PROVE  /\ spectating' \subseteq Spectated
         /\ \A s, r \in spectating' : s.user = r.user => s = r
  BY DEF TypeOK

LEMMA LinksSubset ==
  ASSUME TypeOK, IssuedInv, links' \subseteq links
  PROVE  /\ links' \subseteq Link
         /\ \A l, m \in links' : l.owner = m.owner \/ l.token = m.token => l = m
         /\ \A l \in links' : l.token \in issued
  BY DEF TypeOK, IssuedInv

\* A cascading delete leaves less of both tables.
LEMMA DeleteEffect ==
  ASSUME NEW gone, Delete(gone)
  PROVE  links' \subseteq links /\ spectating' \subseteq spectating
  BY DEF Delete, Cascade

\* A fresh token is nobody's, so each link keeps an owner and a token to itself.
LEMMA EnsureLinkKeepsUnique ==
  ASSUME TypeOK, IssuedInv, NEW u \in Sharers, NEW t \in Tokens, EnsureLink(u, t)
  PROVE  /\ links' \subseteq Link /\ issued' \subseteq Tokens /\ issued \subseteq issued'
         /\ \A l, m \in links' : l.owner = m.owner \/ l.token = m.token => l = m
         /\ \A l \in links' : l.token \in issued'
<1>1. PICK n \in Link : Shared(n, u, t)
  BY EnsureLinkEffect
<1> USE DEF Shared
<1>2. t \notin issued
  BY DEF EnsureLink
<1>3. n.token \in Tokens
  BY DEF Link
<1>4. \A l \in links : l.owner # u => l.token # n.token
  BY <1>1, <1>2 DEF TypeOK, IssuedInv
<1> QED BY <1>1, <1>3, <1>4 DEF TypeOK, IssuedInv

\* Every step keeps every variable's type, each owner's and each token's one
\* link, and each spectator's one row.
LEMMA TypeStep == TypeInv /\ [Next]_vars => TypeInv'
<1> SUFFICES ASSUME TypeOK, IssuedInv, FiniteMap, [Next]_vars PROVE TypeInv'
  BY DEF TypeInv
<1> USE DEF TypeInv, History
<1>t. \A p \in Requests : req[p] \in Request
  BY DEF TypeOK
<1>1. ASSUME NEW u \in Sharers, NEW t \in Tokens, EnsureLink(u, t) PROVE TypeInv'
  <2>1. /\ links' \subseteq Link /\ issued' \subseteq Tokens /\ issued \subseteq issued'
        /\ \A l, m \in links' : l.owner = m.owner \/ l.token = m.token => l = m
        /\ \A l \in links' : l.token \in issued'
    BY <1>1, EnsureLinkKeepsUnique
  <2>2. UNCHANGED <<spectating, cache, req, revoked, overtaken>>
    BY <1>1 DEF EnsureLink
  <2> QED BY <2>1, <2>2 DEF TypeOK, IssuedInv, FiniteMap, Tokened
<1>2. ASSUME NEW p \in Requests, NEW u \in Sharers, DeleteRow(p, u) PROVE TypeInv'
  <2> DEFINE gone == {l \in links : l.owner = u}
             state == [pc |-> "revoking", tokens |-> {l.token : l \in gone}]
  <2>1. Delete(gone) /\ UNCHANGED <<cache, issued, revoked, overtaken>>
    BY <1>2 DEF DeleteRow
  <2>2. Become(p, state) \/ UNCHANGED req
    BY <1>2 DEF DeleteRow
  <2>3. state.tokens \subseteq issued /\ state.tokens \subseteq Tokens /\ state.pc = "revoking"
    BY DEF IssuedInv, TypeOK
  <2>4. state \in Request
    <3> DEFINE tokens == {l.token : l \in gone}
    <3>1. tokens \in SUBSET Tokens
      BY <2>3
    <3> HIDE DEF tokens
    <3>2. [pc |-> "revoking", tokens |-> tokens] \in Request
      BY <3>1 DEF Request
    <3> QED BY <3>2 DEF tokens
  <2> HIDE DEF gone, state
  <2>5. req' \in [Requests -> Request] /\ \A q \in Requests : Tokened(q)' \subseteq issued
    <3>1. CASE Become(p, state)
      <4>1. /\ req' \in [Requests -> Request] /\ req'[p] = state
            /\ \A q \in Requests \ {p} : req'[q] = req[q]
        BY <3>1, <2>4, BecomeType
      <4> QED BY <4>1, <2>3 DEF IssuedInv, Tokened
    <3>2. CASE UNCHANGED req
      BY <3>2 DEF IssuedInv, Tokened, TypeOK
    <3> QED BY <2>2, <3>1, <3>2
  <2>6. links' \subseteq links /\ spectating' \subseteq spectating
    BY <2>1, DeleteEffect
  <2> QED BY <2>1, <2>5, <2>6, LinksSubset, SpectatingSubset DEF TypeOK, IssuedInv, FiniteMap
<1>3. ASSUME NEW p \in Requests, NEW state \in Request, Become(p, state), state.pc # "revoking",
             UNCHANGED <<links, spectating, cache, issued, revoked, overtaken>>
      PROVE  TypeInv'
  <2>1. /\ req' \in [Requests -> Request] /\ req'[p] = state
        /\ \A q \in Requests \ {p} : req'[q] = req[q]
    BY <1>3, BecomeType
  <2> QED BY <1>3, <2>1 DEF TypeOK, IssuedInv, FiniteMap, Tokened
<1>4. ASSUME NEW p \in Requests, NEW u \in Spectators, Pick(p, u) PROVE TypeInv'
  <2>1. [pc |-> "saving", user |-> u, via |-> Picked] \in Request
    BY DEF Request
  <2> QED BY <1>3, <1>4, <2>1 DEF Pick
<1>5. ASSUME NEW p \in Requests, NEW t \in Tokens, NEW user \in Callers, Hit(p, t, user)
      PROVE  TypeInv'
  <2>1. user \in SUBSET Spectators /\ cache[t].rows \in SUBSET Link
    BY <1>5 DEF Callers, Hit, Usable, TypeOK, CachedLink
  <2>2. /\ req' \in [Requests -> Request] /\ req'[p].pc \in {"idle", "saving"}
        /\ \A q \in Requests \ {p} : req'[q] = req[q]
    BY <1>5, <2>1, AnsweredState DEF Hit
  <2> QED BY <1>5, <2>2 DEF Hit, TypeOK, IssuedInv, FiniteMap, Tokened
<1>6. ASSUME NEW p \in Requests, NEW t \in Tokens, NEW user \in Callers, Miss(p, t, user)
      PROVE  TypeInv'
  <2>1. [pc |-> "missed", token |-> t, user |-> user] \in Request
    BY DEF Request, Callers
  <2> QED BY <1>3, <1>6, <2>1 DEF Miss
<1>7. ASSUME NEW p \in Requests, Forget(p) PROVE TypeInv'
  <2>1. /\ req' \in [Requests -> Request] /\ req'[p] = IdleRequest
        /\ \A q \in Requests \ {p} : req'[q] = req[q]
    BY <1>7, BecomeType, IdleType DEF Forget, IdleRequest
  <2>2. req[p].tokens \subseteq issued
    BY <1>7 DEF Forget, IssuedInv, Tokened
  <2>3. /\ DOMAIN cache' = {} /\ cache' \in [DOMAIN cache' -> CachedLink]
        /\ IsFiniteSet(DOMAIN cache') /\ Cardinality(DOMAIN cache') =< MaxEntries
    BY <1>7, EmptyMap DEF Forget, Forgotten
  <2>4. revoked' \subseteq issued' /\ overtaken' \subseteq issued'
    BY <1>7, <2>2 DEF Forget, TypeOK
  <2>5. UNCHANGED <<links, spectating, issued>>
    BY <1>7 DEF Forget
  <2> QED BY <2>1, <2>3, <2>4, <2>5, IdleType DEF TypeOK, IssuedInv, FiniteMap, Tokened
<1>8. ASSUME NEW p \in Requests, Find(p) PROVE TypeInv'
  <2>1. req[p].token \in Tokens /\ req[p].user \subseteq Spectators
    BY <1>t, <1>8, RequestFields DEF Find
  <2>2. ASSUME NEW rows \in {LiveWith(req[p].token), {}}
        PROVE  [pc |-> "found", token |-> req[p].token, user |-> req[p].user, rows |-> rows]
                 \in Request
    BY <2>1, <2>2 DEF LiveWith, TypeOK, Request
  <2>3. [pc |-> "idle"] \in Request
    BY DEF Request
  <2> QED BY <1>3, <1>8, <2>2, <2>3 DEF Find
<1>9. ASSUME NEW p \in Requests, Remember(p) PROVE TypeInv'
  <2>1. req[p].token \in Tokens /\ req[p].user \in SUBSET Spectators /\ req[p].rows \in SUBSET Link
    BY <1>t, <1>9, RequestFields DEF Remember
  <2>2. /\ req' \in [Requests -> Request] /\ req'[p].pc \in {"idle", "saving"}
        /\ \A q \in Requests \ {p} : req'[q] = req[q]
    BY <1>9, <2>1, AnsweredState DEF Remember
  <2> DEFINE entry == [rows |-> req[p].rows, fresh |-> TRUE]
  <2>3. entry \in CachedLink /\ cache' = Stored(req[p].token, entry)
    BY <1>9, <2>1 DEF CachedLink, Remember
  <2> HIDE DEF entry
  <2>4. /\ DOMAIN cache' \subseteq DOMAIN cache \cup {req[p].token}
        /\ cache' \in [DOMAIN cache' -> CachedLink]
        /\ IsFiniteSet(DOMAIN cache') /\ Cardinality(DOMAIN cache') =< MaxEntries
    BY <2>1, <2>3, StoredMap
  <2>5. UNCHANGED <<links, spectating, issued, revoked, overtaken>>
    BY <1>9 DEF Remember
  <2> QED BY <2>1, <2>2, <2>4, <2>5 DEF TypeOK, IssuedInv, FiniteMap, Tokened
<1>10. ASSUME NEW p \in Requests, Save(p) PROVE TypeInv'
  <2>1. req[p].user \in Spectators /\ req[p].via \in Tokens \cup {Picked}
    BY <1>t, <1>10, RequestFields DEF Save
  <2>2. /\ req' \in [Requests -> Request] /\ req'[p] = IdleRequest
        /\ \A q \in Requests \ {p} : req'[q] = req[q]
    BY <1>10, BecomeType, IdleType DEF Save, IdleRequest
  <2>3. PICK live \in BOOLEAN :
          spectating' = {s \in spectating : s.user # req[p].user}
                          \cup {[user |-> req[p].user, via |-> req[p].via, live |-> live]}
    BY <1>10 DEF Save
  <2> DEFINE row == [user |-> req[p].user, via |-> req[p].via, live |-> live]
  <2>4. row \in Spectated /\ row.user = req[p].user
    BY <2>1 DEF Spectated
  <2>5. spectating' = {s \in spectating : s.user # row.user} \cup {row}
    BY <2>3
  <2> HIDE DEF row
  <2>6. spectating' \subseteq Spectated /\ \A s, r \in spectating' : s.user = r.user => s = r
    BY <2>4, <2>5 DEF TypeOK
  <2>7. UNCHANGED <<links, cache, issued, revoked, overtaken>>
    BY <1>10 DEF Save
  <2> QED BY <2>2, <2>6, <2>7, IdleType DEF TypeOK, IssuedInv, FiniteMap, Tokened
<1>11. ASSUME NEW p \in Requests, NotSaved(p) PROVE TypeInv'
  <2>1. [pc |-> "idle"] \in Request
    BY DEF Request
  <2> QED BY <1>3, <1>11, <2>1 DEF NotSaved
<1>12. ASSUME spectating' \subseteq spectating, UNCHANGED <<links, cache, req, issued, revoked, overtaken>>
       PROVE  TypeInv'
  BY <1>12, SpectatingSubset DEF TypeOK, IssuedInv, FiniteMap, Tokened
<1>13. ASSUME NEW u \in Spectators, DeleteSpectating(u) PROVE TypeInv'
  BY <1>12, <1>13 DEF DeleteSpectating
<1>14. ASSUME NEW l \in links, ExpireLink(l) PROVE TypeInv'
  <2>1. PICK n \in Link :
           /\ n.id = l.id /\ n.token = l.token /\ n.owner = l.owner
           /\ l.expiry # "past" /\ n.expiry # "ahead"
           /\ links' = (links \ {l}) \cup {n}
    BY <1>14, ExpireLinkEffect
  <2>2. /\ links' \subseteq Link
        /\ \A k, m \in links' : k.owner = m.owner \/ k.token = m.token => k = m
        /\ \A m \in links' : m.token \in issued
    BY <2>1 DEF TypeOK, IssuedInv
  <2>3. UNCHANGED <<spectating, cache, req, issued, revoked, overtaken>>
    BY <1>14 DEF ExpireLink
  <2> QED BY <2>2, <2>3 DEF TypeOK, IssuedInv, FiniteMap, Tokened
<1>15. ASSUME NEW s \in spectating, ExpireSpectated(s) PROVE TypeInv'
  <2>1. PICK n \in Spectated :
           /\ n.user = s.user /\ n.via = s.via
           /\ spectating' = (spectating \ {s}) \cup {n}
    BY <1>15, ExpireSpectatedEffect
  <2>2. spectating' \subseteq Spectated /\ \A r, q \in spectating' : r.user = q.user => r = q
    BY <2>1 DEF TypeOK
  <2>3. UNCHANGED <<links, cache, req, issued, revoked, overtaken>>
    BY <1>15 DEF ExpireSpectated
  <2> QED BY <2>2, <2>3 DEF TypeOK, IssuedInv, FiniteMap, Tokened
<1>16. ASSUME NEW t \in Tokens, Lapse(t) PROVE TypeInv'
  <2>1. t \in DOMAIN cache /\ cache' = [cache EXCEPT ![t].fresh = FALSE]
    BY <1>16 DEF Lapse, Usable
  <2>2. DOMAIN cache' = DOMAIN cache
    BY <2>1
  <2>3. cache' \in [DOMAIN cache' -> CachedLink]
    <3>1. cache[t] \in CachedLink /\ cache \in [DOMAIN cache -> CachedLink]
      BY <2>1 DEF TypeOK
    <3>2. [cache[t] EXCEPT !.fresh = FALSE] \in CachedLink
      BY <3>1 DEF CachedLink
    <3>3. cache' = [cache EXCEPT ![t] = [cache[t] EXCEPT !.fresh = FALSE]]
      BY <2>1, <3>1
    <3> QED BY <2>1, <2>2, <3>1, <3>2, <3>3
  <2>4. UNCHANGED <<links, spectating, req, issued, revoked, overtaken>>
    BY <1>16 DEF Lapse
  <2> QED BY <2>2, <2>3, <2>4 DEF TypeOK, IssuedInv, FiniteMap, Tokened
<1>17. CASE SweepSpectating
  BY <1>12, <1>17 DEF SweepSpectating
<1>18. CASE SweepLinks
  <2>1. links' \subseteq links /\ spectating' \subseteq spectating
    BY <1>18, DeleteEffect DEF SweepLinks
  <2> QED BY <1>18, <2>1, LinksSubset, SpectatingSubset
       DEF SweepLinks, TypeOK, IssuedInv, FiniteMap, Tokened
<1>19. CASE Restart
  <2>1. /\ DOMAIN cache' = {} /\ cache' \in [DOMAIN cache' -> CachedLink]
        /\ IsFiniteSet(DOMAIN cache') /\ Cardinality(DOMAIN cache') =< MaxEntries
    BY <1>19, EmptyMap DEF Restart
  <2>2. req' \in [Requests -> Request] /\ \A p \in Requests : req'[p].pc = "idle"
    BY <1>19 DEF Restart, Request
  <2>3. UNCHANGED <<links, spectating, issued, revoked, overtaken>>
    BY <1>19 DEF Restart
  <2> QED BY <2>1, <2>2, <2>3 DEF TypeOK, IssuedInv, FiniteMap, Tokened
<1>20. CASE UNCHANGED vars
  BY <1>20 DEF vars, TypeOK, IssuedInv, FiniteMap, Tokened
<1> QED BY <1>1, <1>2, <1>4, <1>5, <1>6, <1>7, <1>8, <1>9, <1>10, <1>11, <1>13, <1>14, <1>15,
          <1>16, <1>17, <1>18, <1>19, <1>20 DEF Next

LEMMA InitType == Init => TypeInv
<1> SUFFICES ASSUME Init PROVE TypeInv
  OBVIOUS
<1>1. /\ DOMAIN cache = {} /\ cache \in [DOMAIN cache -> CachedLink]
      /\ IsFiniteSet(DOMAIN cache) /\ Cardinality(DOMAIN cache) =< MaxEntries
  BY EmptyMap DEF Init
<1>2. req \in [Requests -> Request] /\ \A p \in Requests : req[p].pc = "idle"
  BY DEF Init, Request
<1> QED BY <1>1, <1>2 DEF Init, TypeInv, TypeOK, IssuedInv, FiniteMap, Tokened

\* Every variable keeps its type, the map stays within linkCacheMaxEntries,
\* each player of the event shares one link, no two links have a token in
\* common, and each spectator has one row (the keys of the two tables).
THEOREM TypeCorrect == Spec => []TypeOK
<1>1. TypeInv => TypeOK
  BY DEF TypeInv
<1> QED BY <1>1, InitType, TypeStep, PTL DEF Spec

LEMMA Typed == Spec => []TypeInv
  BY InitType, TypeStep, PTL DEF Spec

----------------------------------------------------------------------------
(* Spectators and their links *)

\* A delete takes the rows that came from the deleted links with it, and a save
\* whose link is gone is refused.
LEMMA SpectatorsStep ==
  ASSUME TypeOK, SpectatorsLoseIt, [Next]_vars
  PROVE  SpectatorsLoseIt'
<1> USE DEF SpectatorsLoseIt
<1>1. ASSUME \A l \in links : \E m \in links' : m.id = l.id, spectating' \subseteq spectating
      PROVE  SpectatorsLoseIt'
  BY <1>1
<1>2. ASSUME NEW u \in Sharers, NEW t \in Tokens, EnsureLink(u, t) PROVE SpectatorsLoseIt'
  <2>1. PICK n \in Link : Shared(n, u, t)
    BY <1>2, EnsureLinkEffect
  <2>2. \A l \in links : \E m \in links' : m.id = l.id
    BY <2>1 DEF Shared
  <2> QED BY <1>1, <1>2, <2>2 DEF EnsureLink
<1>3. ASSUME NEW gone, Delete(gone) PROVE SpectatorsLoseIt'
  BY <1>3 DEF Delete, Cascade
<1>4. ASSUME NEW p \in Requests, NEW u \in Sharers, DeleteRow(p, u) PROVE SpectatorsLoseIt'
  BY <1>3, <1>4 DEF DeleteRow
<1>5. ASSUME NEW p \in Requests, Save(p) PROVE SpectatorsLoseIt'
  <2>1. \A s \in spectating' : s \in spectating \/ s.via = req[p].via
    BY <1>5 DEF Save
  <2>2. References(req[p].via) /\ UNCHANGED links
    BY <1>5 DEF Save
  <2> QED BY <2>1, <2>2 DEF References
<1>6. ASSUME NEW l \in links, ExpireLink(l) PROVE SpectatorsLoseIt'
  <2>1. PICK n \in Link :
           /\ n.id = l.id /\ n.token = l.token /\ n.owner = l.owner
           /\ l.expiry # "past" /\ n.expiry # "ahead"
           /\ links' = (links \ {l}) \cup {n}
    BY <1>6, ExpireLinkEffect
  <2>2. \A k \in links : \E m \in links' : m.id = k.id
    BY <2>1
  <2> QED BY <1>1, <1>6, <2>2 DEF ExpireLink
<1>7. ASSUME NEW s \in spectating, ExpireSpectated(s) PROVE SpectatorsLoseIt'
  <2>1. PICK n \in Spectated :
           /\ n.user = s.user /\ n.via = s.via
           /\ spectating' = (spectating \ {s}) \cup {n}
    BY <1>7, ExpireSpectatedEffect
  <2> QED BY <1>7, <2>1 DEF ExpireSpectated
<1>8. ASSUME NEW u \in Spectators, DeleteSpectating(u) PROVE SpectatorsLoseIt'
  BY <1>1, <1>8 DEF DeleteSpectating
<1>9. CASE SweepSpectating
  BY <1>1, <1>9 DEF SweepSpectating
<1>10. CASE SweepLinks
  BY <1>3, <1>10 DEF SweepLinks
<1>11. CASE UNCHANGED <<links, spectating>>
  BY <1>11
<1> QED BY <1>2, <1>4, <1>5, <1>6, <1>7, <1>8, <1>9, <1>10, <1>11
     DEF Next, Pick, Hit, Miss, Forget, Find, Remember, NotSaved, Lapse, Restart, vars

\* A spectated event that came from a link goes with the link, whatever saves
\* of it are under way.
THEOREM SpectatorsAlwaysLoseIt == Spec => []SpectatorsLoseIt
<1>1. Init => SpectatorsLoseIt
  BY DEF Init, SpectatorsLoseIt
<1>2. TypeOK /\ SpectatorsLoseIt /\ [Next]_vars => SpectatorsLoseIt'
  BY SpectatorsStep
<1> QED BY <1>1, <1>2, TypeCorrect, PTL DEF Spec

----------------------------------------------------------------------------
(* Tokens *)

\* A token in use again is a fresh one or that of a link not past its expiry.
LEMMA NeverRevivedStep ==
  ASSUME TypeInv, Next, NEW t \in issued, KeptBy(t) = {}
  PROVE  KeptBy(t)' = {}
<1> USE DEF KeptBy
<1>1. TypeOK
  BY DEF TypeInv
<1>2. CASE links' \subseteq links
  BY <1>2
<1>3. ASSUME NEW u \in Sharers, NEW f \in Tokens, EnsureLink(u, f) PROVE KeptBy(t)' = {}
  <2>1. PICK n \in Link : Shared(n, u, f)
    BY <1>1, <1>3, EnsureLinkEffect
  <2>2. f \notin issued
    BY <1>3 DEF EnsureLink
  <2>3. n.token # t
    BY <2>1, <2>2 DEF Shared
  <2> QED BY <2>1, <2>3 DEF Shared
<1>4. ASSUME NEW l \in links, ExpireLink(l) PROVE KeptBy(t)' = {}
  <2>1. PICK n \in Link :
           /\ n.id = l.id /\ n.token = l.token /\ n.owner = l.owner
           /\ l.expiry # "past" /\ n.expiry # "ahead"
           /\ links' = (links \ {l}) \cup {n}
    BY <1>1, <1>4, ExpireLinkEffect
  <2> QED BY <2>1
<1>5. ASSUME NEW gone, Delete(gone) PROVE KeptBy(t)' = {}
  BY <1>2, <1>5, DeleteEffect
<1> QED BY <1>2, <1>3, <1>4, <1>5
     DEF Next, DeleteRow, Pick, Hit, Miss, Forget, Find, Remember, Save, NotSaved,
         DeleteSpectating, ExpireSpectated, Lapse, SweepSpectating, SweepLinks, Restart

\* A token whose link is revoked, swept or past its expiry never resolves again,
\* whatever is shared afterwards.
THEOREM NeverRevivedAction == Spec => NeverRevived
<1>1. TypeInv /\ [Next]_vars => [\A t \in issued : KeptBy(t) = {} => KeptBy(t)' = {}]_vars
  BY NeverRevivedStep
<1> QED BY <1>1, Typed, PTL DEF Spec, NeverRevived

----------------------------------------------------------------------------
(* Revocations *)

\* Where no request has read a row, begun a revocation or ended one, and no
\* token is new in the table, nothing is owed to a revocation.
LEMMA QuietStep ==
  ASSUME RevokedInv, UNCHANGED <<revoked, overtaken>>,
         \A l \in links' : \E m \in links : m.token = l.token,
         \A q \in Requests : req'[q] = req[q] \/ req'[q].pc \notin {"found", "revoking"}
  PROVE  RevokedInv'
<1>1. \A l \in links' : l.token \notin revoked'
  BY DEF RevokedInv
<1>2. \A p \in Requests : \A l \in links' : l.token \notin Tokened(p)'
  BY DEF RevokedInv, Tokened
<1>3. \A t \in revoked' \ overtaken' : ~PastQuery(t)'
  BY DEF RevokedInv, PastQuery
<1> QED BY <1>1, <1>2, <1>3 DEF RevokedInv

\* The token a share hands out is no revoked one, nor one being revoked.
LEMMA EnsureLinkRevoked ==
  ASSUME TypeInv, RevokedInv, NEW u \in Sharers, NEW t \in Tokens, EnsureLink(u, t)
  PROVE  RevokedInv'
<1>1. TypeOK /\ IssuedInv
  BY DEF TypeInv
<1>2. PICK n \in Link : Shared(n, u, t)
  BY <1>1, EnsureLinkEffect
<1>3. t \notin issued /\ UNCHANGED <<req, revoked, overtaken>>
  BY DEF EnsureLink
<1>4. \A l \in links' : l.token = t \/ \E m \in links : m.token = l.token
  BY <1>2 DEF Shared
<1>5. t \notin revoked /\ \A p \in Requests : t \notin Tokened(p)
  BY <1>1, <1>3 DEF TypeOK, IssuedInv
<1>6. /\ \A p \in Requests : Tokened(p)' = Tokened(p)
      /\ \A x : PastQuery(x)' = PastQuery(x)
  BY <1>3 DEF Tokened, PastQuery
<1> QED BY <1>3, <1>4, <1>5, <1>6 DEF RevokedInv

\* The row goes before its revocation is under way.
LEMMA DeleteRowRevoked ==
  ASSUME TypeInv, RevokedInv, NEW p \in Requests, NEW u \in Sharers, DeleteRow(p, u)
  PROVE  RevokedInv'
<1> DEFINE gone == {l \in links : l.owner = u}
           tokens == {l.token : l \in gone}
<1>1. TypeOK
  BY DEF TypeInv
<1>2. links' = links \ gone /\ UNCHANGED <<revoked, overtaken>>
  BY DEF DeleteRow, Delete, History
<1>3. CASE UNCHANGED req
  BY <1>2, <1>3, QuietStep
<1>4. CASE Become(p, [pc |-> "revoking", tokens |-> tokens])
  <2>1. /\ req'[p].pc = "revoking" /\ req'[p].tokens = tokens
        /\ \A q \in Requests \ {p} : req'[q] = req[q]
    BY <1>1, <1>4 DEF Become, TypeOK
  <2>2. \A l \in links' : l.token \notin tokens
    BY <1>1, <1>2 DEF TypeOK
  <2> HIDE DEF tokens, gone
  <2>3. \A l \in links' : l \in links
    BY <1>2
  <2>4. \A q \in Requests : \A l \in links' : l.token \notin Tokened(q)'
    BY <2>1, <2>2, <2>3 DEF RevokedInv, Tokened
  <2>5. \A t \in revoked' \ overtaken' : ~PastQuery(t)'
    BY <1>2, <2>1 DEF RevokedInv, PastQuery
  <2>6. \A l \in links' : l.token \notin revoked'
    BY <1>2, <2>3 DEF RevokedInv
  <2> QED BY <2>4, <2>5, <2>6 DEF RevokedInv
<1> QED BY <1>3, <1>4 DEF DeleteRow

\* A lookup that finds the row of a token cannot be of a revoked one.
LEMMA FindRevoked ==
  ASSUME TypeInv, RevokedInv, NEW p \in Requests, Find(p)
  PROVE  RevokedInv'
<1>1. TypeOK
  BY DEF TypeInv
<1>2. UNCHANGED <<links, revoked, overtaken>>
  BY DEF Find, History
<1>3. CASE Become(p, [pc |-> "idle"])
  <2>1. req'[p].pc = "idle" /\ \A q \in Requests \ {p} : req'[q] = req[q]
    BY <1>1, <1>3 DEF Become, TypeOK
  <2> QED BY <1>2, <2>1, QuietStep
<1>4. ASSUME NEW rows \in {LiveWith(req[p].token), {}},
             Become(p, [pc |-> "found", token |-> req[p].token, user |-> req[p].user,
                        rows |-> rows])
      PROVE  RevokedInv'
  <2>1. /\ req'[p].pc = "found" /\ req'[p].token = req[p].token /\ req'[p].rows = rows
        /\ \A q \in Requests \ {p} : req'[q] = req[q]
    BY <1>1, <1>4 DEF Become, TypeOK
  <2>2. rows # {} => req[p].token \notin revoked
    BY <1>4 DEF LiveWith, RevokedInv
  <2>3. \A t \in revoked' \ overtaken' : ~PastQuery(t)'
    BY <1>2, <2>1, <2>2 DEF RevokedInv, PastQuery
  <2>4. \A q \in Requests : \A l \in links' : l.token \notin Tokened(q)'
    BY <1>2, <2>1 DEF RevokedInv, Tokened
  <2> QED BY <1>2, <2>3, <2>4 DEF RevokedInv
<1> QED BY <1>3, <1>4 DEF Find

\* A revocation that returns takes into account the lookups past their query.
LEMMA ForgetRevoked ==
  ASSUME TypeInv, RevokedInv, NEW p \in Requests, Forget(p)
  PROVE  RevokedInv'
<1>1. req'[p].pc = "idle" /\ \A q \in Requests \ {p} : req'[q] = req[q]
  BY DEF Forget, Become, TypeInv, TypeOK
<1>2. \A t : PastQuery(t)' => PastQuery(t)
  BY <1>1 DEF PastQuery
<1>3. UNCHANGED links /\ revoked' = revoked \cup req[p].tokens
  BY DEF Forget
<1>4. overtaken' = overtaken \cup {t \in req[p].tokens : PastQuery(t)}
  BY DEF Forget
<1>5. Tokened(p) = req[p].tokens
  BY DEF Forget, Tokened
<1>6. \A l \in links' : l.token \notin revoked'
  BY <1>3, <1>5 DEF RevokedInv
<1>7. \A q \in Requests : \A l \in links' : l.token \notin Tokened(q)'
  BY <1>1, <1>3 DEF RevokedInv, Tokened
<1>8. \A t \in revoked' \ overtaken' : ~PastQuery(t)'
  BY <1>2, <1>3, <1>4 DEF RevokedInv
<1> QED BY <1>6, <1>7, <1>8 DEF RevokedInv

\* Every step keeps the revoked rows away and the lookups of them known.
LEMMA RevokedStep == TypeInv /\ RevokedInv /\ [Next]_vars => RevokedInv'
<1> SUFFICES ASSUME TypeInv, RevokedInv, [Next]_vars PROVE RevokedInv'
  OBVIOUS
<1> USE DEF History
<1>t. TypeOK /\ \A p \in Requests : req[p] \in Request
  BY DEF TypeInv, TypeOK
<1>1. ASSUME NEW p \in Requests, NEW state, Become(p, state),
             state.pc \notin {"found", "revoking"}, UNCHANGED <<links, revoked, overtaken>>
      PROVE  RevokedInv'
  <2>1. req'[p] = state /\ \A q \in Requests \ {p} : req'[q] = req[q]
    BY <1>t, <1>1 DEF Become, TypeOK
  <2> QED BY <1>1, <2>1, QuietStep
<1>2. ASSUME NEW p \in Requests, NEW u \in Spectators, Pick(p, u) PROVE RevokedInv'
  BY <1>1, <1>2 DEF Pick
<1>3. ASSUME NEW p \in Requests, NEW user \in SUBSET Spectators, NEW rows \in SUBSET Link,
             Answered(p, user, rows), UNCHANGED <<links, revoked, overtaken>>
      PROVE  RevokedInv'
  <2>1. /\ req'[p].pc \in {"idle", "saving"}
        /\ \A q \in Requests \ {p} : req'[q] = req[q]
    BY <1>t, <1>3, AnsweredState
  <2> QED BY <1>3, <2>1, QuietStep
<1>4. ASSUME NEW p \in Requests, NEW t \in Tokens, NEW user \in Callers, Hit(p, t, user)
      PROVE  RevokedInv'
  <2>1. user \in SUBSET Spectators /\ cache[t].rows \in SUBSET Link
    BY <1>t, <1>4 DEF Callers, Hit, Usable, TypeOK, CachedLink
  <2> QED BY <1>3, <1>4, <2>1 DEF Hit
<1>5. ASSUME NEW p \in Requests, NEW t \in Tokens, NEW user \in Callers, Miss(p, t, user)
      PROVE  RevokedInv'
  BY <1>1, <1>5 DEF Miss
<1>6. ASSUME NEW p \in Requests, Remember(p) PROVE RevokedInv'
  <2>1. req[p].user \in SUBSET Spectators /\ req[p].rows \in SUBSET Link
    BY <1>t, <1>6, RequestFields DEF Remember
  <2> QED BY <1>3, <1>6, <2>1 DEF Remember
<1>7. ASSUME NEW p \in Requests, Save(p) \/ NotSaved(p) PROVE RevokedInv'
  BY <1>1, <1>7 DEF Save, NotSaved
<1>8. ASSUME NEW l \in links, ExpireLink(l) PROVE RevokedInv'
  <2>1. PICK n \in Link :
           /\ n.id = l.id /\ n.token = l.token /\ n.owner = l.owner
           /\ l.expiry # "past" /\ n.expiry # "ahead"
           /\ links' = (links \ {l}) \cup {n}
    BY <1>t, <1>8, ExpireLinkEffect
  <2>2. \A k \in links' : \E m \in links : m.token = k.token
    BY <2>1
  <2> QED BY <1>8, <2>2, QuietStep DEF ExpireLink
<1>9. CASE SweepLinks
  <2>1. links' \subseteq links
    BY <1>9, DeleteEffect DEF SweepLinks
  <2> QED BY <1>9, <2>1, QuietStep DEF SweepLinks
<1>10. CASE Restart
  <2>1. \A q \in Requests : req'[q].pc = "idle"
    BY <1>10 DEF Restart
  <2> QED BY <1>10, <2>1, QuietStep DEF Restart
<1>11. CASE UNCHANGED <<links, req, revoked, overtaken>>
  BY <1>11, QuietStep
<1> QED BY <1>2, <1>4, <1>5, <1>6, <1>7, <1>8, <1>9, <1>10, <1>11,
          EnsureLinkRevoked, DeleteRowRevoked, FindRevoked, ForgetRevoked
     DEF Next, DeleteSpectating, ExpireSpectated, Lapse, SweepSpectating, vars

\* The map is cleared by each revocation that returns, and gains an answer for
\* a revoked token only from a lookup past its query.
LEMMA CleanStep ==
  ASSUME TypeInv, RevokedInv, CleanRevocation, [Next]_vars
  PROVE  CleanRevocation'
<1> USE DEF CleanRevocation, Usable, History
<1>t. TypeOK /\ FiniteMap /\ \A p \in Requests : req[p] \in Request
  BY DEF TypeInv, TypeOK
<1>1. ASSUME DOMAIN cache' = {} PROVE CleanRevocation'
  BY <1>1
<1>2. ASSUME NEW p \in Requests, Forget(p) PROVE CleanRevocation'
  BY <1>1, <1>2 DEF Forget, Forgotten
<1>3. ASSUME NEW p \in Requests, Remember(p) PROVE CleanRevocation'
  <2> DEFINE entry == [rows |-> req[p].rows, fresh |-> TRUE]
  <2>1. req[p].token \in Tokens /\ req[p].rows \subseteq Link
    BY <1>t, <1>3, RequestFields DEF Remember
  <2>2. entry \in CachedLink /\ entry.rows = req[p].rows /\ cache' = Stored(req[p].token, entry)
    BY <1>3, <2>1 DEF CachedLink, Remember
  <2> HIDE DEF entry
  <2>3. /\ DOMAIN cache' \subseteq DOMAIN cache \cup {req[p].token}
        /\ cache'[req[p].token] = entry
        /\ \A x \in DOMAIN cache' \ {req[p].token} : cache'[x] = cache[x]
    BY <1>t, <2>1, <2>2, StoredMap
  <2>4. req[p].token \in revoked \ overtaken => req[p].rows = {}
    BY <1>3 DEF RevokedInv, PastQuery, Remember
  <2>5. UNCHANGED <<revoked, overtaken>>
    BY <1>3 DEF Remember
  <2> QED BY <2>2, <2>3, <2>4, <2>5
<1>4. ASSUME NEW t \in Tokens, Lapse(t) PROVE CleanRevocation'
  <2>1. /\ DOMAIN cache' = DOMAIN cache
        /\ \A x \in DOMAIN cache : x # t => cache'[x] = cache[x]
        /\ cache'[t].fresh = FALSE
    BY <1>t, <1>4 DEF Lapse, TypeOK, CachedLink
  <2> QED BY <1>4, <2>1 DEF Lapse
<1>5. CASE Restart
  BY <1>1, <1>5 DEF Restart
<1>6. CASE UNCHANGED <<cache, revoked, overtaken>>
  BY <1>6
<1> QED BY <1>2, <1>3, <1>4, <1>5, <1>6
     DEF Next, EnsureLink, DeleteRow, Delete, Pick, Hit, Miss, Find, Save, NotSaved,
         DeleteSpectating, ExpireLink, ExpireSpectated, SweepSpectating, SweepLinks, vars

\* Once a revocation has returned, the map does not answer for the token,
\* except through a lookup that had already read the row.
THEOREM RevocationClean == Spec => []CleanRevocation
<1>1. Init => RevokedInv /\ CleanRevocation
  BY DEF Init, RevokedInv, CleanRevocation, Tokened, PastQuery
<1>2. TypeInv /\ RevokedInv /\ CleanRevocation /\ [Next]_vars => CleanRevocation'
  BY CleanStep
<1> QED BY <1>1, <1>2, Typed, RevokedStep, PTL DEF Spec

----------------------------------------------------------------------------
(* After a token's last answer *)

\* Lookups that read a row of t and have yet to store it.
LateFinds(t) == {p \in Requests : req[p].pc = "found" /\ req[p].token = t /\ req[p].rows # {}}

\* The map answers for t with a link.
Answers(t) == Usable(t) /\ cache[t].rows # {}

\* Lookups past their query run out: no later query finds a row, and the map
\* answers for t again only where one of them is spent.
AnswersRunOut ==
  [][\A t \in issued : LiveWith(t) = {} =>
       /\ LateFinds(t)' \subseteq LateFinds(t)
       /\ Answers(t)' /\ ~Answers(t) => LateFinds(t)' # LateFinds(t)]_vars

\* Nothing is left that answers for t or could.
Spent(t) == t \in issued /\ KeptBy(t) = {} /\ LateFinds(t) = {} /\ ~Answers(t)

\* Only a query finds rows, and for a token that does not resolve it finds none.
LEMMA LateFindsShrink ==
  ASSUME TypeInv, Next, NEW t \in issued, LiveWith(t) = {}
  PROVE  LateFinds(t)' \subseteq LateFinds(t)
<1> DEFINE Late(r) == r.pc = "found" /\ r.token = t /\ r.rows # {}
<1>t. TypeOK /\ \A p \in Requests : req[p] \in Request
  BY DEF TypeInv, TypeOK
<1>0. ASSUME \A q \in Requests : req'[q] = req[q] \/ ~Late(req'[q])
      PROVE  LateFinds(t)' \subseteq LateFinds(t)
  BY <1>0 DEF LateFinds
<1>1. ASSUME NEW p \in Requests, NEW state, Become(p, state), ~Late(state)
      PROVE  LateFinds(t)' \subseteq LateFinds(t)
  <2>1. req'[p] = state /\ \A q \in Requests \ {p} : req'[q] = req[q]
    BY <1>t, <1>1 DEF Become, TypeOK
  <2> HIDE DEF Late
  <2> QED BY <1>0, <1>1, <2>1
<1>2. ASSUME NEW p \in Requests, NEW user \in SUBSET Spectators, NEW rows \in SUBSET Link,
             Answered(p, user, rows)
      PROVE  LateFinds(t)' \subseteq LateFinds(t)
  <2>1. req'[p].pc \in {"idle", "saving"} /\ \A q \in Requests \ {p} : req'[q] = req[q]
    BY <1>t, <1>2, AnsweredState
  <2>2. ~Late(req'[p])
    BY <2>1
  <2> HIDE DEF Late
  <2> QED BY <1>0, <2>1, <2>2
<1>3. ASSUME NEW p \in Requests, NEW u \in Sharers, DeleteRow(p, u)
      PROVE  LateFinds(t)' \subseteq LateFinds(t)
  <2>1. CASE UNCHANGED req
    BY <1>0, <2>1
  <2> QED BY <1>1, <1>3, <2>1 DEF DeleteRow
<1>4. ASSUME NEW p \in Requests, NEW u \in Spectators, Pick(p, u)
      PROVE  LateFinds(t)' \subseteq LateFinds(t)
  BY <1>1, <1>4 DEF Pick
<1>5. ASSUME NEW p \in Requests, NEW x \in Tokens, NEW user \in Callers, Hit(p, x, user)
      PROVE  LateFinds(t)' \subseteq LateFinds(t)
  <2>1. user \in SUBSET Spectators /\ cache[x].rows \in SUBSET Link
    BY <1>t, <1>5 DEF Callers, Hit, Usable, TypeOK, CachedLink
  <2> QED BY <1>2, <1>5, <2>1 DEF Hit
<1>6. ASSUME NEW p \in Requests, NEW x \in Tokens, NEW user \in Callers, Miss(p, x, user)
      PROVE  LateFinds(t)' \subseteq LateFinds(t)
  BY <1>1, <1>6 DEF Miss
<1>7. ASSUME NEW p \in Requests, Find(p)
      PROVE  LateFinds(t)' \subseteq LateFinds(t)
  <2>1. CASE Become(p, [pc |-> "idle"])
    BY <1>1, <2>1
  <2>2. ASSUME NEW rows \in {LiveWith(req[p].token), {}},
               Become(p, [pc |-> "found", token |-> req[p].token, user |-> req[p].user,
                          rows |-> rows])
        PROVE  LateFinds(t)' \subseteq LateFinds(t)
    <3>1. req[p].token = t => rows = {}
      BY <2>2
    <3> QED BY <1>1, <2>2, <3>1
  <2> QED BY <1>7, <2>1, <2>2 DEF Find
<1>8. ASSUME NEW p \in Requests, Remember(p)
      PROVE  LateFinds(t)' \subseteq LateFinds(t)
  <2>1. req[p].user \in SUBSET Spectators /\ req[p].rows \in SUBSET Link
    BY <1>t, <1>8, RequestFields DEF Remember
  <2> QED BY <1>2, <1>8, <2>1 DEF Remember
<1>9. ASSUME NEW p \in Requests, Forget(p) \/ Save(p) \/ NotSaved(p)
      PROVE  LateFinds(t)' \subseteq LateFinds(t)
  BY <1>1, <1>9 DEF Forget, Save, NotSaved
<1>10. CASE Restart
  <2>1. \A q \in Requests : req'[q].pc = "idle"
    BY <1>10 DEF Restart
  <2> QED BY <1>0, <2>1
<1>11. CASE UNCHANGED req
  BY <1>0, <1>11
<1> HIDE DEF Late
<1> QED BY <1>3, <1>4, <1>5, <1>6, <1>7, <1>8, <1>9, <1>10, <1>11
     DEF Next, EnsureLink, DeleteSpectating, ExpireLink, ExpireSpectated, Lapse,
         SweepSpectating, SweepLinks

\* The map gains an answer only from a lookup that ends with it.
LEMMA NewAnswerSpendsOne ==
  ASSUME TypeInv, Next, NEW t \in issued, Answers(t)', ~Answers(t)
  PROVE  LateFinds(t)' # LateFinds(t)
<1> USE DEF Answers, Usable
<1>t. TypeOK /\ FiniteMap /\ \A p \in Requests : req[p] \in Request
  BY DEF TypeInv, TypeOK
<1>1. ASSUME NEW p \in Requests, Remember(p)
      PROVE  LateFinds(t)' # LateFinds(t)
  <2> DEFINE entry == [rows |-> req[p].rows, fresh |-> TRUE]
  <2>1. /\ req[p].token \in Tokens /\ req[p].rows \in SUBSET Link
        /\ req[p].user \in SUBSET Spectators
    BY <1>t, <1>1, RequestFields DEF Remember
  <2>2. entry \in CachedLink /\ entry.rows = req[p].rows /\ cache' = Stored(req[p].token, entry)
    BY <1>1, <2>1 DEF CachedLink, Remember
  <2> HIDE DEF entry
  <2>3. /\ DOMAIN cache' \subseteq DOMAIN cache \cup {req[p].token}
        /\ cache'[req[p].token] = entry
        /\ \A x \in DOMAIN cache' \ {req[p].token} : cache'[x] = cache[x]
    BY <1>t, <2>1, <2>2, StoredMap
  <2>4. req[p].token = t /\ req[p].rows # {}
    BY <2>2, <2>3
  <2>5. req'[p].pc # "found"
    BY <1>t, <1>1, <2>1, AnsweredState DEF Remember
  <2> QED BY <1>1, <2>4, <2>5 DEF LateFinds, Remember
<1>2. CASE DOMAIN cache' = {}
  BY <1>2
<1>3. ASSUME NEW x \in Tokens, Lapse(x)
      PROVE  LateFinds(t)' # LateFinds(t)
  <2>1. /\ DOMAIN cache' = DOMAIN cache
        /\ \A y \in DOMAIN cache : y # x => cache'[y] = cache[y]
        /\ cache'[x].fresh = FALSE
    BY <1>t, <1>3 DEF Lapse, TypeOK, CachedLink
  <2> QED BY <1>3, <2>1 DEF Lapse
<1>4. CASE UNCHANGED cache
  BY <1>4
<1> QED BY <1>1, <1>2, <1>3, <1>4
     DEF Next, EnsureLink, DeleteRow, Pick, Hit, Miss, Forget, Forgotten, Find, Save, NotSaved,
         DeleteSpectating, ExpireLink, ExpireSpectated, SweepSpectating, SweepLinks, Restart

\* What a token that resolves no more still gets through with is bounded by the
\* lookups past their query at that moment, one answer stored for each.
THEOREM AnswersAlwaysRunOut == Spec => AnswersRunOut
<1>1. TypeInv /\ [Next]_vars
        => [\A t \in issued : LiveWith(t) = {} =>
              /\ LateFinds(t)' \subseteq LateFinds(t)
              /\ Answers(t)' /\ ~Answers(t) => LateFinds(t)' # LateFinds(t)]_vars
  BY LateFindsShrink, NewAnswerSpendsOne
<1> QED BY <1>1, Typed, PTL DEF Spec, AnswersRunOut

\* A token is handed out for good.
LEMMA IssuedGrows ==
  ASSUME TypeInv, Next
  PROVE  issued \subseteq issued'
BY DEF Next, EnsureLink, DeleteRow, Pick, Hit, Miss, Forget, Find, Remember, Save, NotSaved,
       DeleteSpectating, ExpireLink, ExpireSpectated, Lapse, SweepSpectating, SweepLinks,
       Restart, History

\* What resolves has not expired.
LEMMA LiveIsKept == \A t : LiveWith(t) \subseteq KeptBy(t)
  BY DEF LiveWith, KeptBy

\* A spent token stays spent.
LEMMA SpentStep ==
  ASSUME TypeInv, [Next]_vars, NEW t \in Tokens, Spent(t)
  PROVE  Spent(t)'
<1>1. CASE Next
  <2>1. t \in issued' /\ KeptBy(t)' = {} /\ LiveWith(t) = {}
    BY <1>1, IssuedGrows, NeverRevivedStep, LiveIsKept DEF Spent
  <2>2. LateFinds(t)' = {}
    BY <1>1, <2>1, LateFindsShrink DEF Spent
  <2>3. ~Answers(t)'
    BY <1>1, <2>2, NewAnswerSpendsOne DEF Spent
  <2> QED BY <2>1, <2>2, <2>3 DEF Spent
<1>2. CASE UNCHANGED vars
  BY <1>2 DEF vars, Spent, KeptBy, LateFinds, Answers, Usable
<1> QED BY <1>1, <1>2

\* The safety half of RevocationSettles: once nothing is left to answer for a
\* token whose link is revoked, swept or past its expiry, it is refused for good,
\* whatever links are shared and whatever restarts follow.
THEOREM RefusalLasts ==
  Spec => \A t \in Tokens : [](Spent(t) => [](Usable(t) => cache[t].rows = {}))
<1> SUFFICES ASSUME NEW t \in Tokens
             PROVE  Spec => [](Spent(t) => [](Usable(t) => cache[t].rows = {}))
  OBVIOUS
<1>1. Spent(t) => (Usable(t) => cache[t].rows = {})
  BY DEF Spent, Answers
<1>2. TypeInv /\ Spent(t) /\ [Next]_vars => Spent(t)'
  BY SpentStep
<1> QED BY <1>1, <1>2, Typed, PTL DEF Spec

=============================================================================
