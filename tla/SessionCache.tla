---------------------------- MODULE SessionCache ----------------------------
(***************************************************************************)
(* Session resolution: the users and sessions tables of internal/user and  *)
(* the short-lived cache of internal/api/sessioncache.go in front of them. *)
(*                                                                         *)
(* A request resolves a token in up to three steps, since the lock is not  *)
(* held around the query: read the map (Hit or Miss), read the database    *)
(* (Find), store and return (Remember).  Signing out is two steps, the row *)
(* and then the entry; so is every write to a users row, the row and then  *)
(* a flush of the whole map.  Steps of different requests interleave.      *)
(*                                                                         *)
(* A users row is the number of writes made to it, so a copy is stale when *)
(* its number is lower.  An entry's age is abstracted to whether it is     *)
(* still within sessionCacheTTL, which Lapse ends at any moment.  Tokens   *)
(* are random and never reused.                                            *)
(***************************************************************************)
EXTENDS Integers, FiniteSets, Functions

CONSTANTS
  Users, Tokens,
  Owner,          \* the user each token would sign in
  Requests,       \* concurrent requests
  MaxSessions,    \* maxSessionCacheEntries, where inserting also sweeps
  MaxWrites,      \* bound on the writes to one users row
  MaxFlushes      \* bound on the flushes started

ASSUME OwnerAssumption == Owner \in [Tokens -> Users]
ASSUME BoundsAssumption ==
  MaxSessions \in Nat /\ MaxWrites \in Nat /\ MaxFlushes \in Nat

VARIABLES
  row,         \* users: how many writes each row has seen
  session,     \* sessions: the state of each token's row
  entries,     \* the cache's map: token -> [ver, fresh]
  generation,  \* goes up on every flush
  req,         \* what each request is in the middle of
  answered,    \* what GetUserBySession returned in the last step, if it did, and
               \* the write that was visible when the lookup started
  visible,     \* history: the rows as they were when a write last returned
  signedOut,   \* history: the tokens whose sign-out has completed
  overtaken    \* history: those with a lookup already past its query then

vars == <<row, session, entries, generation, req, answered, visible, signedOut, overtaken>>

----------------------------------------------------------------------------
Entry == [ver : Nat, fresh : BOOLEAN]
Lookup == [user : Users, ver : Nat, floor : Nat]
RowState == {"unused", "live", "expired", "deleted"}

Request ==
  [pc : {"idle"}]
    \cup [pc : {"missed"}, token : Tokens, gen : Nat, floor : Nat]
    \cup [pc : {"found"}, token : Tokens, gen : Nat, floor : Nat, ver : Nat]
    \cup [pc : {"dropping"}, token : Tokens, deleted : BOOLEAN]
    \cup [pc : {"flushing"}]

TypeOK ==
  /\ row \in [Users -> Nat]
  /\ session \in [Tokens -> RowState]
  /\ DOMAIN entries \subseteq Tokens /\ entries \in [DOMAIN entries -> Entry]
  /\ generation \in Nat
  /\ req \in [Requests -> Request]
  /\ answered \subseteq Lookup /\ \A a, b \in answered : a = b
  /\ visible \in [Users -> Nat]
  /\ signedOut \subseteq Tokens /\ overtaken \subseteq Tokens

----------------------------------------------------------------------------
EmptyMap == [t \in {} |-> t]
With(m, t, v) == [x \in DOMAIN m \cup {t} |-> IF x = t THEN v ELSE m[x]]

Init ==
  /\ row = [u \in Users |-> 0]
  /\ session = [t \in Tokens |-> "unused"]
  /\ entries = EmptyMap
  /\ generation = 0
  /\ req = [p \in Requests |-> [pc |-> "idle"]]
  /\ answered = {}
  /\ visible = row
  /\ signedOut = {}
  /\ overtaken = {}

Become(p, state) == req' = [req EXCEPT ![p] = state]
Idle(p) == req[p].pc = "idle"
Answer(t, ver, floor) == answered' = {[user |-> Owner[t], ver |-> ver, floor |-> floor]}
Quiet == answered' = {}

(* GetUserBySession *)

\* Fault: nothing looks at the age of an entry.
UsableForever(t) == t \in DOMAIN entries

Usable(t) == t \in DOMAIN entries /\ entries[t].fresh

Hit(p, t) ==
  /\ Idle(p) /\ Usable(t)
  /\ Answer(t, entries[t].ver, visible[Owner[t]])
  /\ UNCHANGED <<row, session, entries, generation, req, visible, signedOut, overtaken>>

Miss(p, t) ==
  /\ Idle(p) /\ ~Usable(t)
  /\ Become(p, [pc |-> "missed", token |-> t, gen |-> generation,
                floor |-> visible[Owner[t]]])
  /\ Quiet
  /\ UNCHANGED <<row, session, entries, generation, visible, signedOut, overtaken>>

\* WHERE s.token = $1 AND s.expires_at > now()
Valid(t) == session[t] = "live"

\* The query, which reads the sessions and the users row at one instant.  No
\* row, or a failed query, is an error, and errors are not remembered.
Find(p) ==
  LET t == req[p].token IN
  /\ req[p].pc = "missed"
  /\ \/ /\ Valid(t)
        /\ Become(p, [pc |-> "found", token |-> t, gen |-> req[p].gen,
                      floor |-> req[p].floor, ver |-> row[Owner[t]]])
     \/ Become(p, [pc |-> "idle"])
  /\ Quiet
  /\ UNCHANGED <<row, session, entries, generation, visible, signedOut, overtaken>>

\* Inserting into a full map first drops the entries past their TTL.
Swept == IF Cardinality(DOMAIN entries) < MaxSessions THEN entries
         ELSE Restrict(entries, {t \in DOMAIN entries : entries[t].fresh})

\* Fault: a lookup stores whatever it found, whatever happened meanwhile.
StoreAlways(p) ==
  entries' = With(Swept, req[p].token, [ver |-> req[p].ver, fresh |-> TRUE])

\* A lookup that a flush overtook does not store what it found.
StoreUnlessFlushed(p) ==
  entries' = IF generation = req[p].gen
               THEN With(Swept, req[p].token, [ver |-> req[p].ver, fresh |-> TRUE])
               ELSE entries

Remember(p) ==
  /\ req[p].pc = "found"
  /\ StoreUnlessFlushed(p)
  /\ Answer(req[p].token, req[p].ver, req[p].floor)
  /\ Become(p, [pc |-> "idle"])
  /\ UNCHANGED <<row, session, generation, visible, signedOut, overtaken>>

Lapse(t) ==
  /\ Usable(t)
  /\ entries' = [entries EXCEPT ![t].fresh = FALSE]
  /\ Quiet
  /\ UNCHANGED <<row, session, generation, req, visible, signedOut, overtaken>>

(* DeleteSession, called by Logout. *)

\* DELETE FROM sessions, which may fail and leave the row.  Deleting a row that
\* is gone already is no failure.
DeleteRow(p, t) ==
  /\ Idle(p)
  /\ session[t] # "unused"
  /\ \E done \in BOOLEAN :
       /\ session' = IF done THEN [session EXCEPT ![t] = "deleted"] ELSE session
       /\ Become(p, [pc |-> "dropping", token |-> t, deleted |-> done])
  /\ Quiet
  /\ UNCHANGED <<row, entries, generation, visible, signedOut, overtaken>>

\* Fault: signing out only deletes the row.
KeepEntry(t) == UNCHANGED entries

\* Fault: the entry is overwritten with the zero value, not removed.
ZeroEntry(t) == entries' = With(entries, t, [fresh |-> FALSE])

DropEntry(t) == entries' = Restrict(entries, DOMAIN entries \ {t})

FinishSignOut(p) ==
  LET t == req[p].token
      lookups == {q \in Requests : req[q].pc = "found" /\ req[q].token = t}
  IN
  /\ req[p].pc = "dropping"
  /\ DropEntry(t)
  /\ signedOut' = IF req[p].deleted THEN signedOut \cup {t} ELSE signedOut
  /\ overtaken' = IF req[p].deleted /\ lookups # {} THEN overtaken \cup {t} ELSE overtaken
  /\ Become(p, [pc |-> "idle"])
  /\ Quiet
  /\ UNCHANGED <<row, session, generation, visible>>

(* Every write to a users row through CachedUserStore. *)

\* The UPDATE or upsert; it may fail, and may fail after it took effect.
WriteRow(p, u) ==
  /\ Idle(p)
  /\ row[u] < MaxWrites /\ generation < MaxFlushes
  /\ row' = [row EXCEPT ![u] = @ + 1] \/ UNCHANGED row
  /\ Become(p, [pc |-> "flushing"])
  /\ Quiet
  /\ UNCHANGED <<session, entries, generation, visible, signedOut, overtaken>>

\* Fault: a flush empties the map and leaves the generation alone.
EmptyOnly == entries' = EmptyMap /\ UNCHANGED generation

EmptyAndBump == entries' = EmptyMap /\ generation' = generation + 1

\* flush, after which the write returns to its caller.
Flush(p) ==
  /\ req[p].pc = "flushing"
  /\ EmptyAndBump
  /\ visible' = row
  /\ Become(p, [pc |-> "idle"])
  /\ Quiet
  /\ UNCHANGED <<row, session, signedOut, overtaken>>

(* Sign-in, and what happens outside the process. *)

\* CreateSession: a fresh token, and a sweep of the expired rows that may fail.
CreateSession(t) ==
  /\ session[t] = "unused"
  /\ \E sweep \in BOOLEAN :
       session' = [x \in Tokens |-> IF x = t THEN "live"
                                    ELSE IF sweep /\ session[x] = "expired" THEN "deleted"
                                    ELSE session[x]]
  /\ Quiet
  /\ UNCHANGED <<row, entries, generation, req, visible, signedOut, overtaken>>

Expire(t) ==
  /\ session[t] = "live"
  /\ session' = [session EXCEPT ![t] = "expired"]
  /\ Quiet
  /\ UNCHANGED <<row, entries, generation, req, visible, signedOut, overtaken>>

\* An edit of the row made outside this process, which flushes nothing.
OutsideWrite(u) ==
  /\ row[u] < MaxWrites
  /\ row' = [row EXCEPT ![u] = @ + 1]
  /\ Quiet
  /\ UNCHANGED <<session, entries, generation, req, visible, signedOut, overtaken>>

\* The container sleeps or dies: memory and the requests in it are gone.
Restart ==
  /\ entries' = EmptyMap
  /\ generation' = 0
  /\ req' = [p \in Requests |-> [pc |-> "idle"]]
  /\ Quiet
  /\ UNCHANGED <<row, session, visible, signedOut, overtaken>>

Next ==
  \/ \E p \in Requests, t \in Tokens : Hit(p, t) \/ Miss(p, t) \/ DeleteRow(p, t)
  \/ \E p \in Requests : Find(p) \/ Remember(p) \/ FinishSignOut(p) \/ Flush(p)
  \/ \E p \in Requests, u \in Users : WriteRow(p, u)
  \/ \E t \in Tokens : Lapse(t) \/ CreateSession(t) \/ Expire(t)
  \/ \E u \in Users : OutsideWrite(u)
  \/ Restart

\* Queries return, the locked sections after them run, and time passes.
Fairness ==
  /\ \A p \in Requests : WF_vars(Find(p)) /\ WF_vars(Remember(p))
  /\ \A t \in Tokens : WF_vars(Lapse(t))

Spec == Init /\ [][Next]_vars
FairSpec == Spec /\ Fairness

----------------------------------------------------------------------------
(* Properties. *)

\* Once a write to a users row through this store has returned, no lookup that
\* starts afterwards answers with the row as it was before that write: an
\* approval, a rejection or a demotion takes effect on the next request, however
\* lookups, flushes, failed writes and restarts interleave.
WritesAreSeen == \A a \in answered : a.ver >= a.floor

\* Once a sign-out has completed, the token has no entry in the cache, unless a
\* lookup had already run its query when the entry was dropped.
CleanSignOut == \A t \in signedOut \ overtaken : t \notin DOMAIN entries

\* Even then the token of a completed sign-out stops being good: from some moment
\* on, no request can be answered from the cache with it again (sessioncache.go:
\* the TTL is what an entry stored behind the sign-out's back runs into).  When
\* that moment comes is not said.
SignOutIsFinal == \A t \in Tokens : t \in signedOut ~> []~Usable(t)

\* The cache implements what handlers rely on: see SessionRows.  A row may still
\* be resolved to, although it was written since, from the first write that no
\* flush has followed.
Sessions == INSTANCE SessionRows WITH
  Lookups <- Requests,
  stale <- [u \in Users |-> visible[u]..(row[u] - 1)],
  found <- [p \in Requests |->
              IF req[p].pc = "found"
              THEN {[user |-> Owner[req[p].token], row |-> req[p].ver]} ELSE {}],
  answered <- {[user |-> a.user, row |-> a.ver] : a \in answered}
ImplementsSessions == Sessions!Spec

=============================================================================
