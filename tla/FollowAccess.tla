---------------------------- MODULE FollowAccess ----------------------------
(***************************************************************************)
(* Follow links for one event: the follow_links and spectating tables of   *)
(* internal/follow, the token cache of FollowAccess in front of them, and  *)
(* the routes of FollowHandler, all of internal/api/follow.go.             *)
(*                                                                         *)
(* A request that carries a token reads the map (Hit or Miss), the         *)
(* database (Find), and stores what it found (Remember), letting go of the *)
(* lock in between.  Revoking a link deletes the row and then clears the   *)
(* map.  Saving a spectated event looks the token up, then the event's     *)
(* roster, and then inserts.  Steps of different requests interleave.      *)
(*                                                                         *)
(* Tokens are random and never reused; a link's id is the token it was     *)
(* created with.  A link's expiry lies ahead, is now, or is past; a        *)
(* spectated row's expiry and an entry's linkCacheTTL are abstracted to    *)
(* whether they have passed.  Time may move on at any moment.              *)
(***************************************************************************)
EXTENDS Integers, FiniteSets

CONSTANTS
  Sharers,         \* who may be on the event's roster, and share a link
  Spectators,      \* who may save the event to follow a player
  Tokens, Requests,
  Picked,          \* follow_link_id of a player picked without a link: null
  MaxEntries       \* linkCacheMaxEntries

ASSUME PickedAssumption == Picked \notin Tokens
ASSUME MaxEntriesAssumption == MaxEntries \in Nat \ {0}

VARIABLES
  links,       \* follow_links, this event's rows
  spectating,  \* spectating, this event's rows
  cache,       \* the map: token -> [rows, fresh], rows empty for a token not found
  req,         \* what each request is in the middle of
  issued,      \* history: the tokens handed out
  revoked,     \* history: those whose revocation has returned
  overtaken    \* history: those with a lookup already past its query then

vars == <<links, spectating, cache, req, issued, revoked, overtaken>>

----------------------------------------------------------------------------
\* now: the instant of expires_at itself, and for statements that began by then.
Expiries == {"ahead", "now", "past"}

Link == [id : Tokens, token : Tokens, owner : Sharers, expiry : Expiries]
Spectated == [user : Spectators, via : Tokens \cup {Picked}, live : BOOLEAN]
CachedLink == [rows : SUBSET Link, fresh : BOOLEAN]

\* user is the caller of POST spectating, and nobody for the other routes.
Request ==
  [pc : {"idle"}]
    \cup [pc : {"missed"}, token : Tokens, user : SUBSET Spectators]
    \cup [pc : {"found"}, token : Tokens, user : SUBSET Spectators, rows : SUBSET Link]
    \cup [pc : {"saving"}, user : Spectators, via : Tokens \cup {Picked}]
    \cup [pc : {"revoking"}, tokens : SUBSET Tokens]

TypeOK ==
  /\ links \subseteq Link /\ spectating \subseteq Spectated
  /\ DOMAIN cache \subseteq Tokens /\ cache \in [DOMAIN cache -> CachedLink]
  /\ Cardinality(DOMAIN cache) =< MaxEntries
  /\ req \in [Requests -> Request]
  /\ revoked \subseteq issued /\ overtaken \subseteq issued /\ issued \subseteq Tokens
  /\ \A l, m \in links : l.owner = m.owner \/ l.token = m.token => l = m
  /\ \A s, r \in spectating : s.user = r.user => s = r

Init ==
  /\ links = {} /\ spectating = {}
  /\ cache = [t \in {} |-> t]
  /\ req = [p \in Requests |-> [pc |-> "idle"]]
  /\ issued = {} /\ revoked = {} /\ overtaken = {}

Become(p, state) == req' = [req EXCEPT ![p] = state]
Idle(p) == req[p].pc = "idle"
History == <<issued, revoked, overtaken>>

(* follow_links *)

\* Fault: an expired link is revived under the token it had.
TokenKept(l, t) == {l.token}

\* The tokens the upsert may leave a row with.  Expired (expires_at < now()) it
\* still holds the slot and gets the fresh one.  Lookups want expires_at > now():
\* between the two, and if the statement began before the instant of expiry, the
\* row keeps a token that no longer resolves.
TokensFor(l, t) ==
  (IF l.expiry = "past" THEN {} ELSE {l.token}) \cup (IF l.expiry = "ahead" THEN {} ELSE {t})

\* The upsert, with t freshly drawn; the caller is on the roster and the event
\* is not long over.  The row's id never changes.
\* The token of a row that keeps its own is drawn in vain.
EnsureLink(u, t) ==
  LET old == {l \in links : l.owner = u} IN
  /\ t \notin issued
  /\ \/ /\ old = {}
        /\ links' = links \cup {[id |-> t, token |-> t, owner |-> u, expiry |-> "ahead"]}
        /\ issued' = issued \cup {t}
     \/ \E l \in old : \E token \in TokensFor(l, t) :
          /\ links' = (links \ old) \cup {[l EXCEPT !.token = token, !.expiry = "ahead"]}
          /\ issued' = issued \cup {token}
  /\ UNCHANGED <<spectating, cache, req, revoked, overtaken>>

\* ON DELETE CASCADE.
Cascade(gone) == {s \in spectating : s.via \notin {l.id : l \in gone}}

Delete(gone) ==
  /\ links' = links \ gone
  /\ spectating' = Cascade(gone)

\* DeleteLink's row.  An error may come back although the row is gone, and
\* then the route stops here.
DeleteRow(p, u) ==
  LET gone == {l \in links : l.owner = u} IN
  /\ Idle(p)
  /\ Delete(gone)
  /\ \/ Become(p, [pc |-> "revoking", tokens |-> {l.token : l \in gone}])
     \/ UNCHANGED req
  /\ UNCHANGED <<cache, History>>

\* Fault: the revocation leaves the map alone.
Remembered == cache

Forgotten == [t \in {} |-> t]

\* Lookups whose query found the token's row and that have yet to store it.
PastQuery(t) == \E q \in Requests : req[q].pc = "found" /\ req[q].token = t /\ req[q].rows # {}

Forget(p) ==
  /\ req[p].pc = "revoking"
  /\ cache' = Forgotten
  /\ revoked' = revoked \cup req[p].tokens
  /\ overtaken' = overtaken \cup {t \in req[p].tokens : PastQuery(t)}
  /\ Become(p, [pc |-> "idle"])
  /\ UNCHANGED <<links, spectating, issued>>

(* lookup *)

\* Fault: an entry is good for ever.
UsableForever(t) == t \in DOMAIN cache

Usable(t) == t \in DOMAIN cache /\ cache[t].fresh

\* The caller's next step with the rows lookup returned: letting a request
\* through and resolving a token end here; saving goes on to the roster, if
\* the link is not the caller's own.
Answered(p, user, rows) ==
  Become(p, IF \E u \in user, l \in rows : l.owner # u
            THEN [pc |-> "saving", user |-> CHOOSE u \in user : TRUE,
                  via |-> (CHOOSE l \in rows : TRUE).id]
            ELSE [pc |-> "idle"])

Callers == {{}} \cup {{u} : u \in Spectators}

Hit(p, t, user) ==
  /\ Idle(p) /\ Usable(t)
  /\ Answered(p, user, cache[t].rows)
  /\ UNCHANGED <<links, spectating, cache, History>>

Miss(p, t, user) ==
  /\ Idle(p) /\ ~Usable(t) /\ t \in issued
  /\ Become(p, [pc |-> "missed", token |-> t, user |-> user])
  /\ UNCHANGED <<links, spectating, cache, History>>

\* WHERE token = $1 AND expires_at > now()
LiveWith(t) == {l \in links : l.token = t /\ l.expiry = "ahead"}

\* GetLinkByToken.  A link that expires right after is not found either; a
\* failed query is an error and is not remembered.
Find(p) ==
  LET r == req[p] IN
  /\ r.pc = "missed"
  /\ \/ \E rows \in {LiveWith(r.token), {}} :
          Become(p, [pc |-> "found", token |-> r.token, user |-> r.user, rows |-> rows])
     \/ Become(p, [pc |-> "idle"])
  /\ UNCHANGED <<links, spectating, cache, History>>

\* Fault: nothing bounds the map.
StoredBeside(t, entry) ==
  [x \in DOMAIN cache \cup {t} |-> IF x = t THEN entry ELSE cache[x]]

\* A full map is cleared first, even to replace an entry.
Stored(t, entry) ==
  LET kept == IF Cardinality(DOMAIN cache) >= MaxEntries THEN {} ELSE DOMAIN cache \ {t}
  IN [x \in kept \cup {t} |-> IF x = t THEN entry ELSE cache[x]]

Remember(p) ==
  LET r == req[p] IN
  /\ r.pc = "found"
  /\ cache' = Stored(r.token, [rows |-> r.rows, fresh |-> TRUE])
  /\ Answered(p, r.user, r.rows)
  /\ UNCHANGED <<links, spectating, History>>

(* spectating *)

\* The route without a token: the player was picked from a search.
Pick(p, u) ==
  /\ Idle(p)
  /\ Become(p, [pc |-> "saving", user |-> u, via |-> Picked])
  /\ UNCHANGED <<links, spectating, cache, History>>

\* Fault: follow_link_id is not a foreign key.
Accepted(via) == TRUE

\* REFERENCES follow_links(id): inserting a row for a deleted link fails.
References(via) == via = Picked \/ \E l \in links : l.id = via

\* The upsert.  The expiry, copied from the link when it was looked up, may
\* have passed.
Save(p) ==
  LET r == req[p] IN
  /\ r.pc = "saving" /\ References(r.via)
  /\ \E live \in BOOLEAN :
       spectating' = {s \in spectating : s.user # r.user}
                       \cup {[user |-> r.user, via |-> r.via, live |-> live]}
  /\ Become(p, [pc |-> "idle"])
  /\ UNCHANGED <<links, cache, History>>

\* The caller plays in the event, the player does not, the event is over, or
\* a request or the insert fails.
NotSaved(p) ==
  /\ req[p].pc = "saving"
  /\ Become(p, [pc |-> "idle"])
  /\ UNCHANGED <<links, spectating, cache, History>>

DeleteSpectating(u) ==
  /\ spectating' = {s \in spectating : s.user # u}
  /\ UNCHANGED <<links, cache, req, History>>

(* Time and restarts *)

ExpireLink(l) ==
  /\ l.expiry # "past"
  /\ links' = (links \ {l}) \cup {[l EXCEPT !.expiry = IF @ = "ahead" THEN "now" ELSE "past"]}
  /\ UNCHANGED <<spectating, cache, req, History>>

ExpireSpectated(s) ==
  /\ s.live
  /\ spectating' = (spectating \ {s}) \cup {[s EXCEPT !.live = FALSE]}
  /\ UNCHANGED <<links, cache, req, History>>

Lapse(t) ==
  /\ Usable(t)
  /\ cache' = [cache EXCEPT ![t].fresh = FALSE]
  /\ UNCHANGED <<links, spectating, req, History>>

\* DeleteExpired, at start-up in the background: two statements.
SweepSpectating ==
  /\ spectating' = {s \in spectating : s.live}
  /\ UNCHANGED <<links, cache, req, History>>

SweepLinks ==
  /\ Delete({l \in links : l.expiry # "ahead"})
  /\ UNCHANGED <<cache, req, History>>

\* The container sleeps or is replaced.
Restart ==
  /\ cache' = [t \in {} |-> t]
  /\ req' = [p \in Requests |-> [pc |-> "idle"]]
  /\ UNCHANGED <<links, spectating, History>>

Next ==
  \/ \E u \in Sharers, t \in Tokens : EnsureLink(u, t)
  \/ \E p \in Requests, u \in Sharers : DeleteRow(p, u)
  \/ \E p \in Requests, u \in Spectators : Pick(p, u)
  \/ \E p \in Requests, t \in Tokens, user \in Callers : Hit(p, t, user) \/ Miss(p, t, user)
  \/ \E p \in Requests : Forget(p) \/ Find(p) \/ Remember(p) \/ Save(p) \/ NotSaved(p)
  \/ \E u \in Spectators : DeleteSpectating(u)
  \/ \E l \in links : ExpireLink(l)
  \/ \E s \in spectating : ExpireSpectated(s)
  \/ \E t \in Tokens : Lapse(t)
  \/ SweepSpectating \/ SweepLinks \/ Restart

Spec == Init /\ [][Next]_vars

\* A started request goes on, and time passes.
Fairness ==
  /\ \A p \in Requests :
       WF_vars(Forget(p)) /\ WF_vars(Find(p)) /\ WF_vars(Remember(p))
         /\ WF_vars(Save(p) \/ NotSaved(p))
  /\ \A t \in Tokens : WF_vars(Lapse(t))

FairSpec == Spec /\ Fairness

----------------------------------------------------------------------------
(* Properties. *)

\* A spectated event that came from a link goes with the link, and no save
\* that was under way puts it back ("Spectators who saved it lose the event").
SpectatorsLoseIt ==
  \A s \in spectating : s.via = Picked \/ \E l \in links : l.id = s.via

\* The rows under which t resolves, or could again by being renewed in time.
KeptBy(t) == {l \in links : l.token = t /\ l.expiry # "past"}

\* A token that was handed out and whose link is revoked, swept or past its expiry
\* never resolves again: an expired link is replaced with a fresh token rather
\* than revived.  (At the instant of its expiry it still may be: TokensFor.)
NeverRevived == [][\A t \in issued : KeptBy(t) = {} => KeptBy(t)' = {}]_vars

\* Once a revocation has returned, the map does not answer for the token,
\* except through a lookup that had already read the row (forget).
CleanRevocation ==
  \A t \in revoked \ overtaken : Usable(t) => cache[t].rows = {}

\* A token that can resolve in the database no more ends up refused for good,
\* also where a lookup stored it afterwards (linkCacheTTL).
RevocationSettles ==
  \A t \in Tokens :
    t \in issued /\ KeptBy(t) = {} ~> [](Usable(t) => cache[t].rows = {})

=============================================================================
