---------------------------- MODULE FriendsProofs ----------------------------
(***************************************************************************)
(* Safety of Friends and of the Accounts within it, for any number of      *)
(* accounts, of admin requests and of calls to the friends routes.         *)
(***************************************************************************)
EXTENDS Friends, TLAPS

(* The inductive invariants *)

Promote == [column |-> "role", to |-> "admin"]
Approve == [column |-> "status", to |-> "approved"]

\* Accounts are never deleted, and a sign-in promotes first and approves then.
RequestInv ==
  \A r \in Requests : req[r] # Idle =>
    /\ req[r].user \in Accounts
    /\ req[r].pc = "writing" /\ req[r].then = "approve" => req[r].change = Promote
    /\ req[r].pc = "writing" /\ req[r].then = "greet" => req[r].change = Approve

\* Nobody sends a request to themselves.
CallInv == \A c \in Calls : call[c].pc = "sending" => call[c].as # call[c].with

TypeInv == TypeOK /\ RequestInv /\ CallInv

\* How far an undisturbed sign-in has come.
HalfWay(r) ==
  \/ req[r].pc = "flushing" /\ req[r].then = "approve"
  \/ req[r].pc = "writing" /\ req[r].then = "greet"

Through(r) ==
  \/ req[r].pc = "flushing" /\ req[r].then = "greet"
  \/ req[r].pc = "greeting" /\ req[r].listed

Reached(r) ==
  /\ HalfWay(r) => users[req[r].user].role = "admin"
  /\ Through(r) => users[req[r].user] = Admin

BootInv == \A r \in Requests \ disturbed : Reached(r)

\* Whoever is out resolves to a rejected row only, and so calls as Nobody.
OutInv == \A u \in out : \A row \in Resolved(u) : row.status = "rejected"

LateInv == \A c \in Calls : call[c] # Idle /\ call[c].late => call[c].as = Nobody

\* Who asked has, and an accepted row takes both.
AgreedInv == DOMAIN rows \subseteq agreed /\ FriendsAgree

----------------------------------------------------------------------------
(* Records *)

Thens == {"return", "approve", "greet"}

\* A request with a change in hand.
Written ==
  [pc : {"writing", "flushing"}, user : Users, change : Change, then : Thens, refused : BOOLEAN]

\* What a request holds in each of its states.
LEMMA RequestFields ==
  ASSUME NEW q \in Request
  PROVE  /\ q.pc \in {"idle", "writing", "flushing", "greeting"}
         /\ q = Idle <=> q.pc = "idle"
         /\ q.pc \in {"writing", "flushing"} => /\ q \in Written /\ q.user \in Users
                                                /\ q.change \in Change /\ q.then \in Thens
         /\ q.pc = "greeting" => q.user \in Users
  BY DEF Request, Idle, Written, Thens

LEMMA WrittenType == Written \subseteq Request
  BY DEF Written, Request, Thens

LEMMA ChangeFields ==
  ASSUME NEW change \in Change
  PROVE  /\ change.column = "role" => change.to \in {"user", "admin"}
         /\ change.column # "role" => change.to \in {"approved", "rejected"}
  BY DEF Change

LEMMA Changes ==
  /\ Promote \in Change /\ Promote.column = "role" /\ Promote.to = "admin"
  /\ Approve \in Change /\ Approve.column = "status" /\ Approve.to = "approved"
  BY DEF Change, Promote, Approve

LEMMA RowFields ==
  ASSUME NEW row \in Row
  PROVE  /\ row.role \in {"user", "admin"} /\ row.status \in {"pending", "approved", "rejected"}
         /\ row = Admin <=> row.role = "admin" /\ row.status = "approved"
  BY DEF Row, Admin

\* A statement changes the one column of the row.
LEMMA ChangedRow ==
  ASSUME NEW row \in Row, NEW change \in Change
  PROVE  /\ Changed(row, change) \in Row
         /\ change.column = "role" => /\ Changed(row, change).role = change.to
                                      /\ Changed(row, change).status = row.status
         /\ change.column # "role" => /\ Changed(row, change).role = row.role
                                      /\ Changed(row, change).status = change.to
<1>1. CASE change.column = "role"
  BY <1>1, ChangeFields DEF Changed, Row
<1>2. CASE change.column # "role"
  BY <1>2, ChangeFields DEF Changed, Row
<1> QED BY <1>1, <1>2

\* The record of a request that goes on to its next step.
Moved(q, pc, then) == [q EXCEPT !.pc = pc, !.then = then]

LEMMA NextState ==
  ASSUME NEW q \in Written, NEW pc \in {"writing", "flushing"}, NEW then \in Thens
  PROVE  /\ Moved(q, pc, then) \in Written
         /\ Moved(q, pc, then).pc = pc /\ Moved(q, pc, then).then = then
         /\ Moved(q, pc, then).user = q.user /\ Moved(q, pc, then).change = q.change
<1> DEFINE once == [q EXCEPT !.pc = pc]
<1>1. once \in Written /\ once.pc = pc /\ once.user = q.user /\ once.change = q.change
  BY DEF Written
<1>2. Moved(q, pc, then) = [once EXCEPT !.then = then]
  BY DEF Moved, Written
<1> HIDE DEF once
<1> QED BY <1>1, <1>2 DEF Written

\* That of a sign-in that has promoted and is to approve.
Promoted(q) == [q EXCEPT !.pc = "writing", !.then = "greet", !.change = Approve]

LEMMA NextChange ==
  ASSUME NEW q \in Written
  PROVE  /\ Promoted(q) \in Written /\ Promoted(q).pc = "writing" /\ Promoted(q).then = "greet"
         /\ Promoted(q).user = q.user /\ Promoted(q).change = Approve
<1> DEFINE once == Moved(q, "writing", "greet")
<1>1. once \in Written /\ once.pc = "writing" /\ once.then = "greet" /\ once.user = q.user
  <2>1. "writing" \in {"writing", "flushing"} /\ "greet" \in Thens
    BY DEF Thens
  <2> QED BY <2>1, NextState
<1>2. Promoted(q) = [once EXCEPT !.change = Approve]
  BY DEF Written, Moved, Promoted
<1> HIDE DEF once
<1> QED BY <1>1, <1>2, Changes DEF Written

\* One request moves to another of its states.
LEMMA BecomeType ==
  ASSUME AccountsTypeOK, NEW r \in Requests, NEW state \in Request, Become(r, state)
  PROVE  /\ req' \in [Requests -> Request]
         /\ req'[r] = state
         /\ \A q \in Requests \ {r} : req'[q] = req[q]
  BY DEF AccountsTypeOK, Become

----------------------------------------------------------------------------
(* What each step of a request does *)

\* Both outcomes of a statement leave the request to empty the cache, and do
\* not approve what they failed to promote.
LEMMA WrittenNext ==
  ASSUME AccountsTypeOK, NEW r \in Requests, req[r].pc = "writing", NEW fails \in BOOLEAN,
         Become(r, [req[r] EXCEPT !.pc = "flushing",
                                  !.then = IF fails /\ @ = "approve" THEN "greet" ELSE @])
  PROVE  /\ req' \in [Requests -> Request]
         /\ req'[r].pc = "flushing" /\ req'[r].user = req[r].user /\ req'[r].change = req[r].change
         /\ req'[r].then = IF fails /\ req[r].then = "approve" THEN "greet" ELSE req[r].then
         /\ \A q \in Requests \ {r} : req'[q] = req[q]
<1>1. req[r] \in Written
  BY RequestFields DEF AccountsTypeOK
<1> DEFINE then == IF fails /\ req[r].then = "approve" THEN "greet" ELSE req[r].then
           state == Moved(req[r], "flushing", then)
<1>2. then \in Thens /\ "flushing" \in {"writing", "flushing"}
  BY <1>1 DEF Written, Thens
<1>3. Become(r, state)
  BY <1>1 DEF Written, Moved
<1>4. state \in Written /\ state.pc = "flushing" /\ state.then = then
      /\ state.user = req[r].user /\ state.change = req[r].change
  <2> HIDE DEF then
  <2> QED BY <1>1, <1>2, NextState
<1> HIDE DEF state
<1> QED BY <1>3, <1>4, WrittenType, BecomeType

\* The statement changes the account's row and nobody else's.
LEMMA UpdateRows ==
  ASSUME AccountsTypeOK, RequestInv, NEW r \in Requests, NEW fails \in BOOLEAN, Update(r, fails)
  PROVE  /\ req[r].user \in Accounts /\ req[r].change \in Change
         /\ Accounts' = Accounts /\ users' \in [Accounts -> Row]
         /\ users'[req[r].user] = Changed(users[req[r].user], req[r].change)
         /\ \A v \in Accounts \ {req[r].user} : users'[v] = users[v]
<1>1. req[r] \in Request /\ req[r].pc = "writing"
  BY DEF AccountsTypeOK, Update
<1>2. req[r].user \in Accounts /\ req[r].change \in Change
  BY <1>1, RequestFields DEF RequestInv
<1>3. users \in [Accounts -> Row] /\ users[req[r].user] \in Row
  BY <1>2 DEF AccountsTypeOK
<1>4. Changed(users[req[r].user], req[r].change) \in Row
  BY <1>2, <1>3, ChangedRow
<1>5. users' = [users EXCEPT ![req[r].user] = Changed(users[req[r].user], req[r].change)]
  BY DEF Update
<1> QED BY <1>2, <1>3, <1>4, <1>5 DEF Accounts

LEMMA FlushNext ==
  ASSUME AccountsTypeOK, NEW r \in Requests, Flush(r)
  PROVE  /\ req' \in [Requests -> Request]
         /\ req[r].then = "return" => req'[r] = Idle
         /\ req[r].then = "greet" => /\ req'[r].pc = "greeting"
                                     /\ req'[r].user = req[r].user
         /\ req[r].then = "approve" => /\ req'[r].pc = "writing" /\ req'[r].then = "greet"
                                       /\ req'[r].user = req[r].user /\ req'[r].change = Approve
         /\ \A q \in Requests \ {r} : req'[q] = req[q]
<1>1. req[r] \in Written /\ req[r].then \in Thens /\ req[r].user \in Users
  BY RequestFields DEF AccountsTypeOK, Flush
<1>2. CASE req[r].then = "return"
  <2>1. Become(r, Idle)
    BY <1>2 DEF Flush
  <2>2. Idle \in Request
    BY DEF Request, Idle
  <2> QED BY <1>2, <2>1, <2>2, BecomeType
<1>3. CASE req[r].then = "greet"
  <2> DEFINE state == [pc |-> "greeting", user |-> req[r].user, listed |-> TRUE]
  <2>1. Become(r, state)
    BY <1>3 DEF Flush
  <2>2. state \in Request /\ state.pc = "greeting" /\ state.user = req[r].user
    BY <1>1 DEF Request
  <2> HIDE DEF state
  <2> QED BY <1>3, <2>1, <2>2, BecomeType
<1>4. CASE req[r].then = "approve"
  <2> DEFINE state == Promoted(req[r])
  <2>1. Become(r, state)
    BY <1>4 DEF Flush, Approve, Promoted
  <2>2. state \in Written /\ state.pc = "writing" /\ state.then = "greet"
        /\ state.user = req[r].user /\ state.change = Approve
    BY <1>1, NextChange
  <2> HIDE DEF state
  <2> QED BY <1>4, <2>1, <2>2, WrittenType, BecomeType
<1> QED BY <1>1, <1>2, <1>3, <1>4 DEF Thens

\* A sign-in creates its account or leaves it as it is, and goes on to promote
\* it, or has nothing to do.
LEMMA CallbackEffect ==
  ASSUME AccountsTypeOK, NEW r \in Requests, NEW u \in Users, NEW listed \in BOOLEAN,
         Callback(r, u, listed)
  PROVE  /\ Accounts' = Accounts \cup {u} /\ users' \in [Accounts' -> Row]
         /\ \A v \in Accounts : users'[v] = users[v]
         /\ req' \in [Requests -> Request]
         /\ \A q \in Requests \ {r} : req'[q] = req[q]
         /\ req'[r].user = u
         /\ \/ /\ req'[r].pc = "writing" /\ req'[r].then = "approve"
               /\ req'[r].change = Promote
            \/ /\ req'[r].pc = "greeting"
               /\ req'[r].listed => users'[u] = Admin
<1>1. Upserted(u) \in Row /\ (u \in Accounts => Upserted(u) = users[u])
  BY DEF Upserted, AccountsTypeOK, Row
<1>2. users' = [v \in Accounts \cup {u} |-> IF v = u THEN Upserted(u) ELSE users[v]]
  BY DEF Callback
<1>3. /\ Accounts' = Accounts \cup {u} /\ users' \in [Accounts' -> Row] /\ users'[u] = Upserted(u)
      /\ \A v \in Accounts : users'[v] = users[v]
  BY <1>1, <1>2 DEF AccountsTypeOK, Accounts
<1>4. CASE listed /\ NotAdminYet(Upserted(u))
  <2> DEFINE state == [pc |-> "writing", user |-> u, change |-> Promote, then |-> "approve",
                       refused |-> FALSE]
  <2>1. Become(r, state)
    BY <1>4 DEF Callback, Promote
  <2>2. /\ state \in Request /\ state.pc = "writing" /\ state.user = u /\ state.change = Promote
        /\ state.then = "approve"
    BY Changes DEF Request
  <2> HIDE DEF state
  <2> QED BY <1>3, <2>1, <2>2, BecomeType
<1>5. CASE ~(listed /\ NotAdminYet(Upserted(u)))
  <2> DEFINE state == [pc |-> "greeting", user |-> u, listed |-> listed]
  <2>1. Become(r, state)
    BY <1>5 DEF Callback
  <2>2. state \in Request /\ state.pc = "greeting" /\ state.user = u /\ state.listed = listed
    BY DEF Request
  <2>3. listed => users'[u] = Admin
    BY <1>3, <1>5 DEF NotAdminYet
  <2> HIDE DEF state
  <2> QED BY <1>3, <2>1, <2>2, <2>3, BecomeType
<1> QED BY <1>4, <1>5

\* An admin route is for an account that exists, and ends with its change.
LEMMA RouteEffect ==
  ASSUME AccountsTypeOK, NEW r \in Requests, NEW u \in Users, NEW target \in Users,
         NEW change \in Change, SetStatusOrRole(r, u, target, change)
  PROVE  /\ target \in Accounts
         /\ req' \in [Requests -> Request]
         /\ req'[r].pc = "writing" /\ req'[r].user = target /\ req'[r].then = "return"
         /\ \A q \in Requests \ {r} : req'[q] = req[q]
<1>1. PICK refused \in BOOLEAN :
        Become(r, [pc |-> "writing", user |-> target, change |-> change, then |-> "return",
                   refused |-> refused])
  BY DEF SetStatusOrRole
<1> DEFINE state == [pc |-> "writing", user |-> target, change |-> change, then |-> "return",
                     refused |-> refused]
<1>2. /\ state \in Request /\ state.pc = "writing" /\ state.user = target
      /\ state.then = "return"
  BY DEF Request
<1>3. Become(r, state)
  BY <1>1
<1> HIDE DEF state
<1> QED BY <1>2, <1>3, BecomeType DEF SetStatusOrRole

----------------------------------------------------------------------------
(* Accounts: types *)

\* What a session may resolve to after a statement are rows.
LEMMA UpdateStale ==
  ASSUME AccountsTypeOK, RequestInv, NEW r \in Requests, NEW fails \in BOOLEAN, Update(r, fails)
  PROVE  /\ stale' \in [Users -> SUBSET Row]
         /\ \A v \in Users : stale'[v] \subseteq
              stale[v] \cup (IF v = req[r].user THEN {users[v]} ELSE {})
<1> DEFINE u == req[r].user
<1>1. u \in Accounts /\ u \in Users /\ users[u] \in Row
  BY UpdateRows DEF AccountsTypeOK
<1>2. stale' = [stale EXCEPT ![u] = (stale[u] \cup {users[u]}) \ {users'[u]}]
  BY DEF Update
<1>3. stale \in [Users -> SUBSET Row]
  BY DEF AccountsTypeOK
<1> HIDE DEF u
<1>4. /\ stale' \in [Users -> SUBSET Row]
      /\ \A v \in Users : stale'[v] \subseteq stale[v] \cup (IF v = u THEN {users[v]} ELSE {})
  BY <1>1, <1>2, <1>3
<1> QED BY <1>4 DEF u

\* A step of the accounts keeps their types, and every account.
LEMMA AccountsStep ==
  ASSUME AccountsTypeOK, RequestInv, AccountsNext
  PROVE  AccountsTypeOK' /\ RequestInv' /\ Accounts \subseteq Accounts'
<1>t. \A r \in Requests : req[r] \in Request
  BY DEF AccountsTypeOK
<1>e. Emptied \in [Users -> SUBSET Row]
  BY DEF Emptied
<1>1. ASSUME NEW r \in Requests, NEW u \in Users, NEW target \in Users, NEW change \in Change,
             SetStatusOrRole(r, u, target, change)
      PROVE  AccountsTypeOK' /\ RequestInv' /\ Accounts \subseteq Accounts'
  <2>1. /\ target \in Accounts
        /\ req' \in [Requests -> Request]
        /\ req'[r].pc = "writing" /\ req'[r].user = target /\ req'[r].then = "return"
        /\ \A q \in Requests \ {r} : req'[q] = req[q]
    BY <1>1, RouteEffect
  <2>2. UNCHANGED <<users, stale, disturbed, out>>
    BY <1>1 DEF SetStatusOrRole
  <2> QED BY <2>1, <2>2 DEF AccountsTypeOK, RequestInv, Accounts
<1>2. ASSUME NEW r \in Requests, NEW fails \in BOOLEAN, Update(r, fails)
      PROVE  AccountsTypeOK' /\ RequestInv' /\ Accounts \subseteq Accounts'
  <2>1. /\ req[r].user \in Accounts
        /\ Accounts' = Accounts /\ users' \in [Accounts -> Row]
    BY <1>2, UpdateRows
  <2>2. stale' \in [Users -> SUBSET Row]
    BY <1>2, UpdateStale
  <2>3. /\ req' \in [Requests -> Request]
        /\ req'[r].pc = "flushing" /\ req'[r].user = req[r].user
        /\ \A q \in Requests \ {r} : req'[q] = req[q]
    BY <1>2, WrittenNext DEF Update
  <2>4. disturbed' \subseteq Requests /\ out' \subseteq Accounts
    BY <1>2 DEF Update, Busy, AccountsTypeOK
  <2> QED BY <2>1, <2>2, <2>3, <2>4 DEF AccountsTypeOK, RequestInv
<1>3. ASSUME NEW r \in Requests, UpdateFails(r)
      PROVE  AccountsTypeOK' /\ RequestInv' /\ Accounts \subseteq Accounts'
  <2>1. req[r].pc = "writing" /\ req[r].user \in Accounts
    BY <1>3, <1>t, RequestFields DEF UpdateFails, RequestInv
  <2>2. /\ req' \in [Requests -> Request]
        /\ req'[r].pc = "flushing" /\ req'[r].user = req[r].user
        /\ \A q \in Requests \ {r} : req'[q] = req[q]
    <3>1. Become(r, [req[r] EXCEPT !.pc = "flushing",
                                   !.then = IF TRUE /\ @ = "approve" THEN "greet" ELSE @])
      BY <1>3 DEF UpdateFails
    <3> QED BY <2>1, <3>1, WrittenNext
  <2> QED BY <1>3, <2>1, <2>2 DEF UpdateFails, AccountsTypeOK, RequestInv, Accounts
<1>4. ASSUME NEW r \in Requests, Flush(r)
      PROVE  AccountsTypeOK' /\ RequestInv' /\ Accounts \subseteq Accounts'
  <2>1. req[r] \in Written /\ req[r].user \in Accounts /\ req[r].then \in Thens
    BY <1>4, <1>t, RequestFields DEF Flush, RequestInv
  <2>2. UNCHANGED users /\ stale' = Emptied
    BY <1>4 DEF Flush
  <2>3. disturbed' \subseteq Requests /\ out' \subseteq Accounts
    BY <1>4, <2>1 DEF Flush, AccountsTypeOK
  <2>4. req' \in [Requests -> Request]
    BY <1>4, FlushNext
  <2>5. RequestInv'
    <3>1. /\ req'[r] # Idle => req'[r].user \in Accounts
          /\ req'[r] # Idle /\ req'[r].pc = "writing" =>
               req'[r].then = "greet" /\ req'[r].change = Approve
      BY <1>4, <2>1, FlushNext DEF Thens
    <3>2. \A q \in Requests \ {r} : req'[q] = req[q]
      BY <1>4, FlushNext
    <3> QED BY <2>2, <3>1, <3>2 DEF RequestInv, Accounts
  <2> QED BY <1>e, <2>2, <2>3, <2>4, <2>5 DEF AccountsTypeOK, Accounts
<1>5. ASSUME NEW r \in Requests, NEW u \in Users, NEW listed \in BOOLEAN, Callback(r, u, listed)
      PROVE  AccountsTypeOK' /\ RequestInv' /\ Accounts \subseteq Accounts'
  <2>1. /\ Accounts' = Accounts \cup {u} /\ users' \in [Accounts' -> Row]
        /\ req' \in [Requests -> Request]
        /\ \A q \in Requests \ {r} : req'[q] = req[q]
        /\ req'[r].user = u
        /\ \/ req'[r].pc = "writing" /\ req'[r].then = "approve" /\ req'[r].change = Promote
           \/ req'[r].pc = "greeting"
    BY <1>5, CallbackEffect
  <2>2. stale' = Emptied /\ UNCHANGED <<disturbed, out>>
    BY <1>5 DEF Callback
  <2> QED BY <1>e, <2>1, <2>2 DEF AccountsTypeOK, RequestInv
<1>6. ASSUME NEW r \in Requests, Greet(r)
      PROVE  AccountsTypeOK' /\ RequestInv' /\ Accounts \subseteq Accounts'
  <2>1. Idle \in Request /\ Become(r, Idle)
    BY <1>6 DEF Request, Idle, Greet
  <2>2. /\ req' \in [Requests -> Request] /\ req'[r] = Idle
        /\ \A q \in Requests \ {r} : req'[q] = req[q]
    BY <2>1, BecomeType
  <2> QED BY <1>6, <2>2 DEF Greet, AccountsTypeOK, RequestInv, Accounts
<1> QED BY <1>1, <1>2, <1>3, <1>4, <1>5, <1>6 DEF AccountsNext

----------------------------------------------------------------------------
(* Accounts: the bootstrap *)

\* A statement, a callback or another request cannot undo what an undisturbed
\* sign-in has reached, and each of its own steps adds to it.
LEMMA BootStep ==
  ASSUME AccountsTypeOK, RequestInv, BootInv, AccountsNext
  PROVE  BootInv'
<1>t. /\ \A r \in Requests : req[r] \in Request
      /\ \A r \in Requests : req[r] # Idle => req[r].user \in Accounts
      /\ \A r \in Requests : req[r].pc # "idle" => req[r] # Idle
  BY DEF AccountsTypeOK, RequestInv, Idle
\* Requests that neither moved nor saw their account change.
<1>o. ASSUME NEW q \in Requests \ disturbed, req'[q] = req[q],
             req[q] # Idle => users'[req[q].user] = users[req[q].user]
      PROVE  Reached(q)'
  BY <1>o, <1>t DEF BootInv, Reached, HalfWay, Through
<1>1. ASSUME NEW r \in Requests, NEW u \in Users, NEW target \in Users, NEW change \in Change,
             SetStatusOrRole(r, u, target, change)
      PROVE  BootInv'
  <2>1. /\ req'[r].pc = "writing" /\ req'[r].then = "return"
        /\ \A q \in Requests \ {r} : req'[q] = req[q]
    BY <1>1, RouteEffect
  <2>2. UNCHANGED <<users, disturbed>>
    BY <1>1 DEF SetStatusOrRole
  <2> QED BY <1>o, <2>1, <2>2 DEF BootInv, Reached, HalfWay, Through
<1>2. ASSUME NEW r \in Requests, NEW fails \in BOOLEAN, Update(r, fails)
      PROVE  BootInv'
  <2> DEFINE u == req[r].user
  <2>1. /\ u \in Accounts /\ req[r].change \in Change
        /\ users'[u] = Changed(users[u], req[r].change)
        /\ \A v \in Accounts \ {u} : users'[v] = users[v]
    BY <1>2, UpdateRows
  <2>2. /\ req'[r].pc = "flushing" /\ req'[r].user = u /\ req'[r].change = req[r].change
        /\ req'[r].then = IF fails /\ req[r].then = "approve" THEN "greet" ELSE req[r].then
        /\ \A q \in Requests \ {r} : req'[q] = req[q]
    BY <1>2, WrittenNext DEF Update
  <2>3. req[r].pc = "writing" /\ disturbed' = disturbed \cup (Busy(u) \ {r}) \cup (IF fails THEN {r} ELSE {})
    BY <1>2 DEF Update
  <2>4. users[u] \in Row
    BY <2>1 DEF AccountsTypeOK
  <2>5. ASSUME NEW q \in Requests \ disturbed', q # r
        PROVE  req[q] # Idle => req[q].user # u
    BY <2>3, <2>5 DEF Busy
  <2>6. ASSUME r \notin disturbed'
        PROVE  /\ req'[r].then = req[r].then /\ r \notin disturbed
               /\ req[r].then = "approve" => users'[u].role = "admin"
               /\ req[r].then = "greet" => users'[u] = Admin
    <3>1. ~fails /\ r \notin disturbed
      BY <2>3, <2>6
    <3>2. req[r].then = "approve" => users'[u].role = "admin"
      <4> SUFFICES ASSUME req[r].then = "approve" PROVE users'[u].role = "admin"
        OBVIOUS
      <4>1. req[r].change = Promote
        BY <1>t, <2>3 DEF RequestInv
      <4> QED BY <2>1, <2>4, <4>1, ChangedRow, Changes
    <3>3. req[r].then = "greet" => users'[u] = Admin
      <4> SUFFICES ASSUME req[r].then = "greet" PROVE users'[u] = Admin
        OBVIOUS
      <4>1. req[r].change = Approve
        BY <1>t, <2>3 DEF RequestInv
      <4>2. users[u].role = "admin"
        BY <2>3, <3>1 DEF BootInv, Reached, HalfWay, Through
      <4>3. users'[u] \in Row /\ users'[u].role = "admin" /\ users'[u].status = "approved"
        BY <2>1, <2>4, <4>1, <4>2, ChangedRow, Changes
      <4> QED BY <4>3, RowFields
    <3> QED BY <2>2, <3>1, <3>2, <3>3
  <2> HIDE DEF u
  <2>7. ASSUME NEW q \in Requests \ disturbed', q # r
        PROVE  Reached(q)'
    <3>1. q \notin disturbed /\ req'[q] = req[q]
      BY <2>2, <2>3, <2>7
    <3>2. req[q] # Idle => users'[req[q].user] = users[req[q].user]
      BY <1>t, <2>1, <2>5, <2>7
    <3> QED BY <1>o, <3>1, <3>2
  <2> QED BY <2>2, <2>6, <2>7 DEF BootInv, Reached, HalfWay, Through
<1>3. ASSUME NEW r \in Requests, UpdateFails(r) PROVE BootInv'
  <2>1. r \in disturbed' /\ disturbed \subseteq disturbed' /\ UNCHANGED users
    BY <1>3 DEF UpdateFails
  <2>2. \A q \in Requests \ {r} : req'[q] = req[q]
    BY <1>3 DEF UpdateFails, Become, AccountsTypeOK
  <2> QED BY <1>o, <2>1, <2>2 DEF BootInv, Reached, HalfWay, Through
<1>4. ASSUME NEW r \in Requests, Flush(r) PROVE BootInv'
  <2>1. req[r].pc = "flushing" /\ req[r] \in Written /\ req[r].then \in Thens
    BY <1>4, <1>t, RequestFields DEF Flush
  <2>2. UNCHANGED users /\ disturbed \ {r} \subseteq disturbed'
    BY <1>4 DEF Flush
  <2>3. req[r].then # "return" => disturbed' = disturbed
    BY <1>4 DEF Flush
  <2>4. \A q \in Requests \ {r} : req'[q] = req[q]
    BY <1>4, FlushNext
  <2>5. CASE req[r].then = "return"
    <3>1. req'[r].pc = "idle"
      BY <1>4, <2>5, FlushNext DEF Idle
    <3> QED BY <1>o, <2>2, <2>4, <3>1 DEF BootInv, Reached, HalfWay, Through
  <2>6. CASE req[r].then = "approve"
    <3>1. req'[r].pc = "writing" /\ req'[r].user = req[r].user
      BY <1>4, <2>6, FlushNext
    <3>2. r \notin disturbed' => users'[req'[r].user].role = "admin"
      BY <2>1, <2>2, <2>3, <2>6, <3>1 DEF BootInv, Reached, HalfWay, Through
    <3> QED BY <1>o, <2>2, <2>4, <3>1, <3>2 DEF BootInv, Reached, HalfWay, Through
  <2>7. CASE req[r].then = "greet"
    <3>1. req'[r].pc = "greeting" /\ req'[r].user = req[r].user
      BY <1>4, <2>7, FlushNext
    <3>2. r \notin disturbed' => users'[req'[r].user] = Admin
      BY <2>1, <2>2, <2>3, <2>7, <3>1 DEF BootInv, Reached, HalfWay, Through
    <3> QED BY <1>o, <2>2, <2>4, <3>1, <3>2 DEF BootInv, Reached, HalfWay, Through
  <2> QED BY <2>1, <2>5, <2>6, <2>7 DEF Thens
<1>5. ASSUME NEW r \in Requests, NEW u \in Users, NEW listed \in BOOLEAN, Callback(r, u, listed)
      PROVE  BootInv'
  <2>1. /\ \A v \in Accounts : users'[v] = users[v]
        /\ \A q \in Requests \ {r} : req'[q] = req[q]
        /\ req'[r].user = u
        /\ \/ req'[r].pc = "writing" /\ req'[r].then = "approve"
           \/ req'[r].pc = "greeting" /\ (req'[r].listed => users'[u] = Admin)
    BY <1>5, CallbackEffect
  <2>2. UNCHANGED disturbed
    BY <1>5 DEF Callback
  <2> QED BY <1>o, <1>t, <2>1, <2>2 DEF BootInv, Reached, HalfWay, Through
<1>6. ASSUME NEW r \in Requests, Greet(r) PROVE BootInv'
  <2>1. req'[r].pc = "idle" /\ \A q \in Requests \ {r} : req'[q] = req[q]
    BY <1>6 DEF Greet, Become, Idle, AccountsTypeOK
  <2>2. UNCHANGED users /\ disturbed \ {r} \subseteq disturbed'
    BY <1>6 DEF Greet
  <2> QED BY <1>o, <2>1, <2>2 DEF BootInv, Reached, HalfWay, Through
<1> QED BY <1>1, <1>2, <1>3, <1>4, <1>5, <1>6 DEF AccountsNext

----------------------------------------------------------------------------
(* Accounts: rejections *)

\* Only an approval brings back who is out.
LEMMA OutStep ==
  ASSUME AccountsTypeOK, RequestInv, OutInv, AccountsNext
  PROVE  OutInv'
<1>t. /\ \A r \in Requests : req[r] \in Request
      /\ out \subseteq Accounts /\ Accounts \subseteq Users
  BY DEF AccountsTypeOK
<1>e. \A u \in Users : Emptied[u] = {}
  BY DEF Emptied
<1>1. ASSUME UNCHANGED <<users, stale, out>> PROVE OutInv'
  BY <1>1 DEF OutInv, Resolved, Sessions!MayResolve
<1>2. ASSUME NEW r \in Requests, NEW fails \in BOOLEAN, Update(r, fails) PROVE OutInv'
  <2> DEFINE u == req[r].user
  <2>1. /\ u \in Accounts /\ req[r].change \in Change
        /\ users'[u] = Changed(users[u], req[r].change)
        /\ \A v \in Accounts \ {u} : users'[v] = users[v]
    BY <1>2, UpdateRows
  <2>2. \A v \in Users : stale'[v] \subseteq stale[v] \cup (IF v = u THEN {users[v]} ELSE {})
    BY <1>2, UpdateStale
  <2>3. out' = IF req[r].change.to = "approved" THEN out \ {u} ELSE out
    BY <1>2 DEF Update
  <2>4. users[u] \in Row
    BY <2>1 DEF AccountsTypeOK
  <2> HIDE DEF u
  <2>5. ASSUME NEW v \in out', NEW row \in {users'[v]} \cup stale'[v]
        PROVE  row.status = "rejected"
    <3>1. v \in out /\ v \in Accounts /\ v \in Users
      BY <1>t, <2>3
    <3>2. users[v].status = "rejected" /\ \A x \in stale[v] : x.status = "rejected"
      BY <3>1 DEF OutInv, Resolved, Sessions!MayResolve
    <3>3. CASE row \in stale'[v]
      BY <2>2, <3>1, <3>2, <3>3
    <3>4. CASE row = users'[v] /\ v # u
      BY <2>1, <3>1, <3>2, <3>4
    <3>5. CASE row = users'[v] /\ v = u
      <4>1. req[r].change.to # "approved"
        BY <2>3, <2>5, <3>5
      <4>2. Changed(users[u], req[r].change).status = "rejected"
        BY <2>1, <2>4, <3>2, <3>5, <4>1, ChangedRow, ChangeFields
      <4> QED BY <2>1, <3>5, <4>2
    <3> QED BY <2>5, <3>3, <3>4, <3>5
  <2> QED BY <2>5 DEF OutInv, Resolved, Sessions!MayResolve
<1>3. ASSUME NEW r \in Requests, Flush(r) PROVE OutInv'
  <2>1. UNCHANGED users /\ stale' = Emptied
    BY <1>3 DEF Flush
  <2>2. \A v \in out' : v \in out \/ (v = req[r].user /\ users[v].status = "rejected")
    BY <1>3 DEF Flush
  <2>3. \A v \in out' : v \in Users
    BY <1>3, <1>t, <2>2, RequestFields DEF Flush
  <2>4. \A v \in out : users[v].status = "rejected"
    BY DEF OutInv, Resolved, Sessions!MayResolve
  <2> QED BY <1>e, <2>1, <2>2, <2>3, <2>4 DEF OutInv, Resolved, Sessions!MayResolve
<1>4. ASSUME NEW r \in Requests, NEW u \in Users, NEW listed \in BOOLEAN, Callback(r, u, listed)
      PROVE  OutInv'
  <2>1. \A v \in Accounts : users'[v] = users[v]
    BY <1>4, CallbackEffect
  <2>2. stale' = Emptied /\ UNCHANGED out
    BY <1>4 DEF Callback
  <2>3. \A v \in out : v \in Accounts /\ v \in Users /\ users[v].status = "rejected"
    BY <1>t DEF OutInv, Resolved, Sessions!MayResolve
  <2> QED BY <1>e, <2>1, <2>2, <2>3 DEF OutInv, Resolved, Sessions!MayResolve
<1> QED BY <1>1, <1>2, <1>3, <1>4 DEF AccountsNext, SetStatusOrRole, UpdateFails, Greet

----------------------------------------------------------------------------
(* Friends: types *)

\* What a call holds in each of its states.
LEMMA CallFields ==
  ASSUME NEW k \in Call
  PROVE  /\ k.pc \in {"idle", "sending", "removing", "accepting", "declining"}
         /\ k = Idle <=> k.pc = "idle"
         /\ k.pc # "idle" => k.as \in Users \cup {Nobody}
         /\ k.pc \in {"sending", "removing"} => k.with \in Users
         /\ k.pc \in {"accepting", "declining"} => k.id \in Pairs
  BY DEF Call, Idle

\* One call moves to another of its states.
LEMMA ProceedType ==
  ASSUME TypeOK, NEW c \in Calls, NEW state \in Call, Proceed(c, state)
  PROVE  /\ call' \in [Calls -> Call]
         /\ call'[c] = state
         /\ \A d \in Calls \ {c} : call'[d] = call[d]
  BY DEF TypeOK, Proceed

LEMMA IdleCall == Idle \in Call /\ Idle.pc = "idle"
  BY DEF Call, Idle

\* A call begins as its caller, or as Nobody.
LEMMA CallerType ==
  ASSUME NEW u \in Users, NEW as \in Caller(u)
  PROVE  as = u \/ as = Nobody
  BY DEF Caller, ApprovedUser

LEMMA BeginEffect ==
  ASSUME TypeOK, NEW c \in Calls, NEW u \in Users,
         \/ \E v \in Users : SendRequest(c, u, v) \/ RemoveFriend(c, u, v)
         \/ \E id \in Pairs, pc \in {"accepting", "declining"} : Respond(c, u, id, pc)
  PROVE  /\ call' \in [Calls -> Call] /\ call'[c].as \in Caller(u)
         /\ call'[c].late = (u \in out) /\ u \in Accounts
         /\ call'[c].pc = "sending" => call'[c].as # call'[c].with
         /\ \A d \in Calls \ {c} : call'[d] = call[d]
         /\ UNCHANGED <<accounts, rows, agreed>>
<1>1. \A as \in Caller(u) : as \in Users \cup {Nobody}
  BY CallerType
<1>2. (u \in out) \in BOOLEAN
  OBVIOUS
<1>3. ASSUME NEW v \in Users, SendRequest(c, u, v) \/ RemoveFriend(c, u, v)
      PROVE  \E state \in Call : /\ Proceed(c, state) /\ state.as \in Caller(u)
                                 /\ state.late = (u \in out)
                                 /\ state.pc = "sending" => state.as # state.with
  <2>1. PICK as \in Caller(u), pc \in {"sending", "removing"} :
          /\ pc = "sending" => as # v
          /\ Proceed(c, [pc |-> pc, as |-> as, with |-> v, late |-> u \in out])
    BY <1>3 DEF SendRequest, RemoveFriend
  <2> DEFINE state == [pc |-> pc, as |-> as, with |-> v, late |-> u \in out]
  <2>2. state \in Call
    BY <1>1, <1>2 DEF Call
  <2>3. state.as = as /\ state.late = (u \in out) /\ state.pc = pc /\ state.with = v
    OBVIOUS
  <2> HIDE DEF state
  <2>4. Proceed(c, state)
    BY <2>1 DEF state
  <2> QED BY <2>1, <2>2, <2>3, <2>4
<1>4. ASSUME NEW id \in Pairs, NEW pc \in {"accepting", "declining"}, Respond(c, u, id, pc)
      PROVE  \E state \in Call : /\ Proceed(c, state) /\ state.as \in Caller(u)
                                 /\ state.late = (u \in out)
                                 /\ state.pc = "sending" => state.as # state.with
  <2>1. PICK as \in Caller(u) : Proceed(c, [pc |-> pc, as |-> as, id |-> id, late |-> u \in out])
    BY <1>4 DEF Respond
  <2> DEFINE state == [pc |-> pc, as |-> as, id |-> id, late |-> u \in out]
  <2>2. state \in Call
    BY <1>1, <1>2 DEF Call
  <2>3. state.as = as /\ state.late = (u \in out) /\ state.pc = pc
    OBVIOUS
  <2> HIDE DEF state
  <2>4. Proceed(c, state)
    BY <2>1 DEF state
  <2> QED BY <2>1, <2>2, <2>3, <2>4
<1>5. PICK state \in Call : /\ Proceed(c, state) /\ state.as \in Caller(u)
                            /\ state.late = (u \in out)
                            /\ state.pc = "sending" => state.as # state.with
  BY <1>3, <1>4
<1>6. u \in Accounts /\ UNCHANGED <<accounts, rows, agreed>>
  BY DEF SendRequest, RemoveFriend, Respond
<1> QED BY <1>5, <1>6, ProceedType

\* The rows less some are rows.
LEMMA WithoutRows ==
  ASSUME NEW gone, rows' = Without(gone), rows \in [DOMAIN rows -> {"pending", "accepted"}]
  PROVE  /\ DOMAIN rows' = DOMAIN rows \ gone
         /\ rows' \in [DOMAIN rows' -> {"pending", "accepted"}]
         /\ \A p \in DOMAIN rows' : rows'[p] = rows[p]
  BY DEF Without

\* A call's statement ends it.
LEMMA StatementEffect ==
  ASSUME TypeOK, NEW c \in Calls, Insert(c) \/ Accept(c) \/ Decline(c) \/ Remove(c) \/ Nothing(c)
  PROVE  /\ call' \in [Calls -> Call] /\ call'[c] = Idle /\ call[c] # Idle
         /\ \A d \in Calls \ {c} : call'[d] = call[d]
         /\ UNCHANGED accounts
<1>1. Proceed(c, Idle) /\ UNCHANGED accounts /\ call[c] # Idle
  BY DEF Insert, Accept, Decline, Remove, Nothing, Idle
<1> QED BY <1>1, IdleCall, ProceedType

\* What an insert adds is a pair of different accounts.
LEMMA InsertEffect ==
  ASSUME TypeOK, CallInv, NEW c \in Calls, Insert(c)
  PROVE  \E p \in Pairs :
           /\ p \notin DOMAIN rows /\ p \in Accounts \X Accounts /\ p[1] = call[c].as
           /\ DOMAIN rows' = DOMAIN rows \cup {p}
           /\ rows' \in [DOMAIN rows' -> {"pending", "accepted"}]
           /\ rows'[p] = "pending"
           /\ \A q \in DOMAIN rows : rows'[q] = rows[q]
           /\ agreed' = agreed \cup {p}
<1> DEFINE p == <<call[c].as, call[c].with>>
<1>1. p[1] \in Accounts /\ p[2] \in Accounts /\ p \notin DOMAIN rows
  BY DEF Insert, Insertable, Live
<1>2. p[1] # p[2]
  BY DEF Insert, CallInv
<1>3. p \in Pairs /\ p \in Accounts \X Accounts
  BY <1>1, <1>2 DEF Pairs, TypeOK, AccountsTypeOK
<1>4. /\ rows' = [q \in DOMAIN rows \cup {p} |-> IF q = p THEN "pending" ELSE rows[q]]
      /\ agreed' = agreed \cup {p}
  BY DEF Insert
<1>5. p[1] = call[c].as
  OBVIOUS
<1>6. \A q \in DOMAIN rows : rows[q] \in {"pending", "accepted"}
  BY DEF TypeOK
<1> HIDE DEF p
<1>7. /\ DOMAIN rows' = DOMAIN rows \cup {p} /\ rows'[p] = "pending"
      /\ rows' \in [DOMAIN rows' -> {"pending", "accepted"}]
      /\ \A q \in DOMAIN rows : rows'[q] = rows[q]
  BY <1>1, <1>4, <1>6
<1> QED BY <1>1, <1>3, <1>4, <1>5, <1>7

\* What an acceptance changes is a pending row that is addressed to the caller.
LEMMA AcceptEffect ==
  ASSUME TypeOK, NEW c \in Calls, Accept(c)
  PROVE  \E p \in DOMAIN rows :
           /\ rows[p] = "pending" /\ p[2] = call[c].as /\ p \in Pairs
           /\ DOMAIN rows' = DOMAIN rows
           /\ rows' \in [DOMAIN rows' -> {"pending", "accepted"}]
           /\ rows'[p] = "accepted"
           /\ \A q \in DOMAIN rows \ {p} : rows'[q] = rows[q]
           /\ agreed' = agreed \cup {<<p[2], p[1]>>} /\ <<p[2], p[1]>> \in Pairs
<1> DEFINE p == call[c].id
<1>1. p \in DOMAIN rows /\ rows[p] = "pending" /\ p[2] = call[c].as /\ p \in Pairs
  BY DEF Accept, Answerable, Pending, Live, TypeOK
<1>2. rows' = [rows EXCEPT ![p] = "accepted"] /\ agreed' = agreed \cup {<<p[2], p[1]>>}
  BY <1>1 DEF Accept
<1>3. <<p[2], p[1]>> \in Pairs
  BY <1>1 DEF Pairs
<1>4. rows \in [DOMAIN rows -> {"pending", "accepted"}]
  BY DEF TypeOK
<1> HIDE DEF p
<1> QED BY <1>1, <1>2, <1>3, <1>4

\* Every step keeps every variable's type.
LEMMA TypeStep == TypeInv /\ [Next]_vars => TypeInv'
<1> SUFFICES ASSUME TypeOK, RequestInv, CallInv, [Next]_vars PROVE TypeInv'
  BY DEF TypeInv
<1>t. /\ AccountsTypeOK /\ DOMAIN rows \subseteq Pairs
      /\ rows \in [DOMAIN rows -> {"pending", "accepted"}]
  BY DEF TypeOK
<1>a. ASSUME UNCHANGED accounts PROVE AccountsTypeOK' /\ RequestInv' /\ Accounts' = Accounts
  BY <1>t, <1>a DEF accounts, AccountsTypeOK, RequestInv, Accounts
<1>1. ASSUME AccountsNext, UNCHANGED friends PROVE TypeInv'
  <2>1. AccountsTypeOK' /\ RequestInv' /\ Accounts \subseteq Accounts'
    BY <1>t, <1>1, AccountsStep
  <2>2. DOMAIN rows \subseteq Accounts' \X Accounts'
    BY <2>1 DEF TypeOK
  <2> QED BY <1>1, <2>1, <2>2 DEF friends, TypeInv, TypeOK, CallInv
<1>2. ASSUME NEW c \in Calls, NEW u \in Users,
             \/ \E v \in Users : SendRequest(c, u, v) \/ RemoveFriend(c, u, v)
             \/ \E id \in Pairs, pc \in {"accepting", "declining"} : Respond(c, u, id, pc)
      PROVE  TypeInv'
  <2>1. /\ call' \in [Calls -> Call]
        /\ call'[c].pc = "sending" => call'[c].as # call'[c].with
        /\ \A d \in Calls \ {c} : call'[d] = call[d]
        /\ UNCHANGED <<accounts, rows, agreed>>
    BY <1>2, BeginEffect
  <2>2. CallInv'
    BY <2>1 DEF CallInv
  <2> QED BY <1>a, <2>1, <2>2 DEF TypeInv, TypeOK
<1>3. ASSUME NEW c \in Calls, Insert(c) \/ Accept(c) \/ Decline(c) \/ Remove(c) \/ Nothing(c),
             DOMAIN rows' \subseteq Accounts \X Accounts, DOMAIN rows' \subseteq Pairs,
             rows' \in [DOMAIN rows' -> {"pending", "accepted"}], agreed' \subseteq Pairs
      PROVE  TypeInv'
  <2>1. /\ call' \in [Calls -> Call] /\ call'[c].pc = "idle"
        /\ \A d \in Calls \ {c} : call'[d] = call[d]
        /\ UNCHANGED accounts
    BY <1>3, StatementEffect, IdleCall
  <2>2. CallInv'
    BY <2>1 DEF CallInv
  <2> QED BY <1>3, <1>a, <2>1, <2>2 DEF TypeInv, TypeOK
<1>4. ASSUME NEW c \in Calls, Insert(c) PROVE TypeInv'
  BY <1>3, <1>4, InsertEffect DEF TypeOK
<1>5. ASSUME NEW c \in Calls, Accept(c) PROVE TypeInv'
  BY <1>3, <1>5, AcceptEffect DEF TypeOK
<1>6. ASSUME NEW c \in Calls, Decline(c) \/ Remove(c) PROVE TypeInv'
  <2>1. PICK gone : rows' = Without(gone)
    BY <1>6 DEF Decline, Remove
  <2>2. agreed' \subseteq agreed
    BY <1>6 DEF Decline, Remove
  <2> QED BY <1>3, <1>6, <1>t, <2>1, <2>2, WithoutRows DEF TypeOK
<1>7. ASSUME NEW c \in Calls, Nothing(c) PROVE TypeInv'
  BY <1>3, <1>7 DEF Nothing, TypeOK
<1>8. CASE UNCHANGED vars
  BY <1>a, <1>8 DEF vars, friends, TypeInv, TypeOK, CallInv
<1> QED BY <1>1, <1>2, <1>4, <1>5, <1>6, <1>7, <1>8 DEF Next

LEMMA InitType == Init => TypeInv
<1> SUFFICES ASSUME Init PROVE TypeInv
  OBVIOUS
<1>1. Accounts = {} /\ users \in [Accounts -> Row]
  BY DEF Init, AccountsInit, Accounts
<1>2. stale \in [Users -> SUBSET Row]
  BY DEF Init, AccountsInit
<1>3. req \in [Requests -> Request] /\ \A r \in Requests : req[r] = Idle
  BY DEF Init, AccountsInit, Idle, Request
<1>4. call \in [Calls -> Call] /\ \A c \in Calls : call[c].pc = "idle"
  BY IdleCall DEF Init
<1>5. DOMAIN rows = {} /\ rows \in [DOMAIN rows -> {"pending", "accepted"}]
  BY DEF Init
<1> QED BY <1>1, <1>2, <1>3, <1>4, <1>5
     DEF Init, AccountsInit, TypeInv, TypeOK, AccountsTypeOK, RequestInv, CallInv

LEMMA Typed == Spec => []TypeInv
  BY InitType, TypeStep, PTL DEF Spec

\* Every variable keeps its type: both sides of a row are accounts, and
\* different ones.
THEOREM TypeCorrect == Spec => []TypeOK
<1>1. TypeInv => TypeOK
  BY DEF TypeInv
<1> QED BY <1>1, Typed, PTL

----------------------------------------------------------------------------
(* The bootstrap *)

\* A step is one of the accounts or leaves them alone.
LEMMA StepOfAccounts ==
  ASSUME TypeInv, [Next]_vars
  PROVE  \/ AccountsNext /\ UNCHANGED friends
         \/ UNCHANGED accounts
<1>1. ASSUME NEW c \in Calls, NEW u \in Users,
             \/ \E v \in Users : SendRequest(c, u, v) \/ RemoveFriend(c, u, v)
             \/ \E id \in Pairs, pc \in {"accepting", "declining"} : Respond(c, u, id, pc)
      PROVE  UNCHANGED accounts
  BY <1>1 DEF SendRequest, RemoveFriend, Respond
<1>2. ASSUME NEW c \in Calls, Insert(c) \/ Accept(c) \/ Decline(c) \/ Remove(c) \/ Nothing(c)
      PROVE  UNCHANGED accounts
  BY <1>2 DEF Insert, Accept, Decline, Remove, Nothing
<1> QED BY <1>1, <1>2 DEF Next, vars

\* When a sign-in of a listed account comes to its end undisturbed, the account
\* is an approved admin, whatever an earlier one left half done.
THEOREM BootstrapAlwaysHeals == Spec => []BootstrapHeals
<1> USE DEF Reached, HalfWay, Through
<1>1. Init => BootInv
  BY DEF Init, AccountsInit, BootInv, Idle
<1>2. TypeInv /\ BootInv /\ [Next]_vars => BootInv'
  <2> SUFFICES ASSUME TypeInv, BootInv, [Next]_vars PROVE BootInv'
    OBVIOUS
  <2>1. CASE AccountsNext
    BY <2>1, BootStep DEF TypeInv, TypeOK
  <2>2. CASE UNCHANGED accounts
    BY <2>2 DEF accounts, BootInv
  <2> QED BY <2>1, <2>2, StepOfAccounts
<1>3. BootInv => BootstrapHeals
  BY DEF BootInv, BootstrapHeals
<1> QED BY <1>1, <1>2, <1>3, Typed, PTL DEF Spec

----------------------------------------------------------------------------
(* Friendships *)

\* A row and the one the other way are of the same two.
LEMMA BothPairs ==
  ASSUME NEW p \in Pairs
  PROVE  /\ p = <<p[1], p[2]>> /\ <<p[2], p[1]>> \in Pairs
         /\ \A q \in Pairs : q \in Both(p) => Both(q) = Both(p)
         /\ \A q \in Pairs : q \notin Both(p) => Both(q) \cap Both(p) = {}
<1>1. p = <<p[1], p[2]>> /\ <<p[2], p[1]>> \in Pairs
  BY DEF Pairs
<1>2. ASSUME NEW q \in Pairs
      PROVE  /\ q \in Both(p) => Both(q) = Both(p)
             /\ q \notin Both(p) => Both(q) \cap Both(p) = {}
  <2>1. q = <<q[1], q[2]>>
    BY DEF Pairs
  <2> QED BY <1>1, <2>1 DEF Both
<1> QED BY <1>1, <1>2

\* Rows that stay, while what their two asked for is not settled.
LEMMA AgreedLess ==
  ASSUME TypeOK, AgreedInv, NEW gone, rows' = Without(gone), NEW b, agreed' = agreed \ b,
         \A q \in DOMAIN rows \ gone : Both(q) \cap b = {}
  PROVE  AgreedInv'
<1>1. /\ DOMAIN rows' = DOMAIN rows \ gone
      /\ \A q \in DOMAIN rows' : rows'[q] = rows[q]
  BY WithoutRows DEF TypeOK
<1>2. \A q : q \in Both(q)
  BY DEF Both
<1>3. DOMAIN rows' \subseteq agreed'
  BY <1>1, <1>2 DEF AgreedInv
<1>4. FriendsAgree'
  BY <1>1 DEF AgreedInv, FriendsAgree, Accepted, Live
<1> QED BY <1>3, <1>4 DEF AgreedInv

\* Every step keeps each row agreed by whoever it takes.
LEMMA AgreedStep == TypeInv /\ AgreedInv /\ [Next]_vars => AgreedInv'
<1> SUFFICES ASSUME TypeOK, CallInv, AgreedInv, TypeInv, [Next]_vars PROVE AgreedInv'
  BY DEF TypeInv
<1>0. CASE UNCHANGED <<rows, agreed>>
  BY <1>0 DEF AgreedInv, FriendsAgree, Accepted, Live
<1>1. ASSUME NEW c \in Calls, Insert(c) PROVE AgreedInv'
  <2>1. PICK p \in Pairs :
           /\ p \notin DOMAIN rows
           /\ DOMAIN rows' = DOMAIN rows \cup {p}
           /\ rows'[p] = "pending"
           /\ \A q \in DOMAIN rows : rows'[q] = rows[q]
           /\ agreed' = agreed \cup {p}
    BY <1>1, InsertEffect
  <2> QED BY <2>1 DEF AgreedInv, FriendsAgree, Accepted, Live
<1>2. ASSUME NEW c \in Calls, Accept(c) PROVE AgreedInv'
  <2>1. PICK p \in DOMAIN rows :
           /\ DOMAIN rows' = DOMAIN rows
           /\ rows'[p] = "accepted"
           /\ \A q \in DOMAIN rows \ {p} : rows'[q] = rows[q]
           /\ agreed' = agreed \cup {<<p[2], p[1]>>}
    BY <1>2, AcceptEffect
  <2>2. DOMAIN rows' \subseteq agreed'
    BY <2>1 DEF AgreedInv
  <2>3. Both(p) \subseteq agreed'
    BY <2>1 DEF AgreedInv, Both
  <2>4. FriendsAgree'
    BY <2>1, <2>3 DEF AgreedInv, FriendsAgree, Accepted, Live
  <2> QED BY <2>2, <2>4 DEF AgreedInv
<1>3. ASSUME NEW c \in Calls, Decline(c) PROVE AgreedInv'
  <2> DEFINE p == call[c].id
  <2>1. p \in Pairs /\ p \in DOMAIN rows
    BY <1>3 DEF Decline, Answerable, Pending, Live, TypeOK
  <2>2. /\ rows' = Without({p})
        /\ agreed' = IF Live(<<p[2], p[1]>>) THEN agreed ELSE agreed \ Both(p)
    BY <1>3 DEF Decline
  <2> HIDE DEF p
  <2>3. CASE Live(<<p[2], p[1]>>)
    <3>1. agreed' = agreed \ {} /\ \A q \in DOMAIN rows : Both(q) \cap {} = {}
      BY <2>2, <2>3
    <3> QED BY <2>2, <3>1, AgreedLess
  <2>4. CASE ~Live(<<p[2], p[1]>>)
    <3>1. \A q \in DOMAIN rows \ {p} : q \in Pairs /\ q \notin Both(p)
      BY <2>4 DEF Live, Both, TypeOK
    <3>2. \A q \in DOMAIN rows \ {p} : Both(q) \cap Both(p) = {}
      BY <2>1, <3>1, BothPairs
    <3> QED BY <2>2, <2>4, <3>2, AgreedLess
  <2> QED BY <2>3, <2>4
<1>4. ASSUME NEW c \in Calls, Remove(c) PROVE AgreedInv'
  <2> DEFINE p == <<call[c].as, call[c].with>>
             gone == Friendship(p)
  <2>1. /\ rows' = Without(gone)
        /\ agreed' = IF \E q \in Both(p) : Pending(q) THEN agreed ELSE agreed \ Both(p)
    BY <1>4 DEF Remove
  <2>2. p = <<p[1], p[2]>>
    OBVIOUS
  <2>3. gone = {q \in Both(p) : Accepted(q)}
    BY DEF Friendship
  <2> HIDE DEF p, gone
  <2>4. CASE \E q \in Both(p) : Pending(q)
    <3>1. agreed' = agreed \ {} /\ \A q \in DOMAIN rows : Both(q) \cap {} = {}
      BY <2>1, <2>4
    <3> QED BY <2>1, <3>1, AgreedLess
  <2>5. CASE ~(\E q \in Both(p) : Pending(q))
    <3>1. \A q \in DOMAIN rows : q \in Pairs /\ (Accepted(q) \/ Pending(q))
      BY DEF TypeOK, Accepted, Pending, Live
    <3>2. \A q \in DOMAIN rows \ gone : q \notin Both(p)
      BY <2>3, <2>5, <3>1
    <3>3. ASSUME NEW q \in DOMAIN rows \ gone PROVE Both(q) \cap Both(p) = {}
      <4>1. q \notin Both(p) /\ q = <<q[1], q[2]>>
        BY <3>1, <3>2, BothPairs
      <4> QED BY <2>2, <4>1 DEF Both
    <3>4. agreed' = agreed \ Both(p)
      BY <2>1, <2>5
    <3> QED BY <2>1, <3>3, <3>4, AgreedLess
  <2> QED BY <2>4, <2>5
<1> QED BY <1>0, <1>1, <1>2, <1>3, <1>4
     DEF Next, SendRequest, RemoveFriend, Respond, Nothing, vars, friends

\* A friendship takes both: each of the two has asked for it or accepted it
\* since they were last neither friends nor asking.
THEOREM FriendsAlwaysAgree == Spec => []FriendsAgree
<1>1. Init => AgreedInv
  BY DEF Init, AgreedInv, FriendsAgree
<1>2. AgreedInv => FriendsAgree
  BY DEF AgreedInv
<1> QED BY <1>1, <1>2, Typed, AgreedStep, PTL DEF Spec

----------------------------------------------------------------------------
(* Rejections *)

\* Whoever is out calls as Nobody.
LEMMA LateStep ==
  ASSUME TypeInv, OutInv, LateInv, [Next]_vars
  PROVE  LateInv'
<1>t. TypeOK /\ AccountsTypeOK
  BY DEF TypeInv, TypeOK
<1>1. ASSUME NEW c \in Calls, NEW u \in Users,
             \/ \E v \in Users : SendRequest(c, u, v) \/ RemoveFriend(c, u, v)
             \/ \E id \in Pairs, pc \in {"accepting", "declining"} : Respond(c, u, id, pc)
      PROVE  LateInv'
  <2>1. /\ call'[c].as \in Caller(u) /\ call'[c].late = (u \in out)
        /\ \A d \in Calls \ {c} : call'[d] = call[d]
    BY <1>t, <1>1, BeginEffect
  <2>2. u \in out => call'[c].as = Nobody
    BY <2>1 DEF OutInv, Caller, ApprovedUser, MayUse
  <2> QED BY <2>1, <2>2 DEF LateInv
<1>2. ASSUME NEW c \in Calls, Insert(c) \/ Accept(c) \/ Decline(c) \/ Remove(c) \/ Nothing(c)
      PROVE  LateInv'
  BY <1>t, <1>2, StatementEffect DEF LateInv
<1>3. CASE UNCHANGED call
  BY <1>3 DEF LateInv
<1> QED BY <1>1, <1>2, <1>3 DEF Next, friends, vars

\* Nobody's statements find nothing to change.
LEMMA NobodyChangesNothing ==
  ASSUME TypeInv, NEW c \in Calls, Insert(c) \/ Accept(c) \/ Decline(c) \/ Remove(c),
         call[c].as = Nobody
  PROVE  rows' = rows
<1>t. /\ TypeOK /\ CallInv /\ Accounts \subseteq Users /\ DOMAIN rows \subseteq Pairs
      /\ rows \in [DOMAIN rows -> {"pending", "accepted"}]
  BY DEF TypeInv, TypeOK, AccountsTypeOK
<1>1. \A p \in Pairs : p[1] # Nobody /\ p[2] # Nobody /\ p = <<p[1], p[2]>>
  BY UsersAssumption DEF Pairs
<1>2. CASE Insert(c)
  BY <1>t, <1>1, <1>2, InsertEffect
<1>3. CASE Accept(c)
  BY <1>t, <1>1, <1>3, AcceptEffect
<1>4. CASE Decline(c)
  <2>1. call[c].id \in Pairs /\ call[c].id[2] = Nobody
    BY <1>t, <1>4 DEF Decline, Answerable, Pending, Live
  <2> QED BY <1>1, <2>1
<1>5. CASE Remove(c)
  <2> DEFINE p == <<call[c].as, call[c].with>>
  <2>1. p[1] = Nobody
    OBVIOUS
  <2>2. \A q \in Both(p) : q[1] = Nobody \/ q[2] = Nobody
    BY <2>1 DEF Both
  <2>3. Friendship(p) = {}
    BY <1>t, <1>1, <2>2 DEF Friendship, Accepted, Live
  <2>4. rows' = Without({})
    BY <1>5, <2>3 DEF Remove
  <2> QED BY <1>t, <2>4 DEF Without
<1> QED BY <1>2, <1>3, <1>4, <1>5

\* A rejection takes effect at once: no call that its account begins after the
\* rejection has returned changes anything between accounts.
THEOREM RejectedAlwaysOut == Spec => RejectedIsOut
<1>1. Init => OutInv /\ LateInv
  BY IdleCall DEF Init, AccountsInit, OutInv, LateInv
<1>2. TypeInv /\ OutInv /\ [Next]_vars => OutInv'
  <2> SUFFICES ASSUME TypeInv, OutInv, [Next]_vars PROVE OutInv'
    OBVIOUS
  <2>1. CASE AccountsNext
    BY <2>1, OutStep DEF TypeInv, TypeOK
  <2>2. CASE UNCHANGED accounts
    BY <2>2 DEF accounts, OutInv, Resolved, Sessions!MayResolve
  <2> QED BY <2>1, <2>2, StepOfAccounts
<1>3. TypeInv /\ OutInv /\ LateInv /\ [Next]_vars => LateInv'
  BY LateStep
<1>4. TypeInv /\ LateInv /\ [Next]_vars
        => [rows' # rows => \E c \in Calls : call'[c] # call[c] /\ ~call[c].late]_vars
  <2> SUFFICES ASSUME TypeInv, LateInv, Next, rows' # rows
               PROVE  \E c \in Calls : call'[c] # call[c] /\ ~call[c].late
    BY DEF vars, friends
  <2>1. PICK c \in Calls : Insert(c) \/ Accept(c) \/ Decline(c) \/ Remove(c)
    BY DEF Next, friends, SendRequest, RemoveFriend, Respond, Nothing
  <2>2. call'[c] = Idle /\ call[c] # Idle
    BY <2>1, StatementEffect DEF TypeInv
  <2>3. ~call[c].late
    BY <2>1, <2>2, NobodyChangesNothing DEF LateInv
  <2> QED BY <2>2, <2>3
<1> QED BY <1>1, <1>2, <1>3, <1>4, Typed, PTL DEF Spec, RejectedIsOut

----------------------------------------------------------------------------
(* Sessions *)

\* Whether a step is one that SessionRows allows.
AsPromised == [Sessions!Next]_(Sessions!vars)

\* The steps that no session sees.
LEMMA UnseenOrAlike ==
  ASSUME UNCHANGED <<users, stale>>
  PROVE  AsPromised
BY DEF AsPromised, Sessions!vars

\* A statement is a write: until a flush, the row as it was stays resolvable.
LEMMA UpdateWrites ==
  ASSUME AccountsTypeOK, RequestInv, NEW r \in Requests, NEW fails \in BOOLEAN, Update(r, fails)
  PROVE  AsPromised
<1>1. PICK u \in DOMAIN users : u = req[r].user
  BY UpdateRows DEF Accounts
<1>2. users' = [users EXCEPT ![u] = users'[u]]
  <2>1. /\ Accounts' = Accounts /\ users' \in [Accounts -> Row]
        /\ \A v \in Accounts \ {u} : users'[v] = users[v]
    BY <1>1, UpdateRows
  <2>2. users \in [Accounts -> Row] /\ u \in Accounts
    BY <1>1 DEF AccountsTypeOK, Accounts
  <2> HIDE DEF Accounts
  <2> QED BY <2>1, <2>2
<1>3. stale' = [stale EXCEPT ![u] = (@ \cup {users[u]}) \ {users'[u]}]
  BY <1>1 DEF Update
<1>4. Sessions!Write(u)
  BY <1>2, <1>3 DEF Sessions!Write, Sessions!Quiet
<1> QED BY <1>4 DEF AsPromised, Sessions!Next

\* What empties the session cache settles every row.
LEMMA FlushSettles ==
  ASSUME UNCHANGED users, stale' = Emptied
  PROVE  AsPromised
<1>1. Sessions!Flush
  BY DEF Sessions!Flush, Sessions!Settled, Sessions!Quiet, Emptied
<1> QED BY <1>1 DEF AsPromised, Sessions!Next

\* A sign-in adds its account's row, or leaves the rows as they are.
LEMMA CallbackRegisters ==
  ASSUME AccountsTypeOK, NEW r \in Requests, NEW u \in Users, NEW listed \in BOOLEAN,
         Callback(r, u, listed)
  PROVE  AsPromised
<1>1. /\ Accounts' = Accounts \cup {u} /\ users' \in [Accounts' -> Row]
      /\ \A v \in Accounts : users'[v] = users[v]
      /\ stale' = Emptied
  BY CallbackEffect DEF Callback
<1>2. CASE u \in Accounts
  <2>1. users \in [Accounts -> Row] /\ users' \in [Accounts -> Row]
    <3>1. Accounts' = Accounts
      BY <1>1, <1>2
    <3> QED BY <1>1, <3>1 DEF AccountsTypeOK
  <2>2. users' = users
    BY <1>1, <2>1
  <2> QED BY <1>1, <2>2, FlushSettles
<1>3. CASE u \notin Accounts
  <2>1. Sessions!Register(u)
    BY <1>1, <1>3
       DEF Sessions!Register, Sessions!Settled, Sessions!Quiet, Emptied, Accounts
  <2> QED BY <2>1 DEF AsPromised, Sessions!Next
<1> QED BY <1>2, <1>3

\* Every step of the accounts is one of SessionRows.
LEMMA SessionsStep ==
  ASSUME TypeInv, [Next]_vars
  PROVE  AsPromised
<1>t. AccountsTypeOK /\ RequestInv
  BY DEF TypeInv, TypeOK
<1>1. CASE AccountsNext
  <2>1. ASSUME NEW r \in Requests, NEW fails \in BOOLEAN, Update(r, fails)
        PROVE  AsPromised
    BY <1>t, <2>1, UpdateWrites
  <2>2. ASSUME NEW r \in Requests, Flush(r)
        PROVE  AsPromised
    BY <2>2, FlushSettles DEF Flush
  <2>3. ASSUME NEW r \in Requests, NEW u \in Users, NEW listed \in BOOLEAN,
               Callback(r, u, listed)
        PROVE  AsPromised
    BY <1>t, <2>3, CallbackRegisters
  <2>4. CASE UNCHANGED <<users, stale>>
    BY <2>4, UnseenOrAlike
  <2> QED BY <1>1, <2>1, <2>2, <2>3, <2>4
       DEF AccountsNext, SetStatusOrRole, UpdateFails, Greet
<1>2. CASE UNCHANGED accounts
  BY <1>2, UnseenOrAlike DEF accounts
<1> QED BY <1>1, <1>2, StepOfAccounts

LEMMA SessionsInit == Init => Sessions!Init
BY DEF Init, AccountsInit, Sessions!Init

\* Roles and statuses change as SessionRows lets the users rows change: one row
\* at a time, and no write goes without the flush after it, whoever flushes.
THEOREM RowsKeepPromise == Spec => RowsChangeAsPromised
<1>1. TypeInv /\ [Next]_vars => [Sessions!Next]_(Sessions!vars)
  BY SessionsStep DEF AsPromised
<1> QED BY <1>1, SessionsInit, Typed, PTL DEF Spec, RowsChangeAsPromised, Sessions!Spec

----------------------------------------------------------------------------
(* Refused calls *)

\* The friends routes' guards do not stop a handler they refuse either, and it
\* does no harm there: what goes on as Nobody leaves every row as it is.
RefusedCallsAreHarmless ==
  [][\A c \in Calls : call[c] # Idle /\ call[c].as = Nobody /\ call'[c] # call[c]
       => rows' = rows]_vars

THEOREM RefusedCallsHarmless == Spec => RefusedCallsAreHarmless
<1>1. TypeInv /\ [Next]_vars
        => [\A c \in Calls : call[c] # Idle /\ call[c].as = Nobody /\ call'[c] # call[c]
              => rows' = rows]_vars
  <2> SUFFICES ASSUME TypeInv, Next, NEW c \in Calls,
                      call[c] # Idle, call[c].as = Nobody, call'[c] # call[c]
               PROVE  rows' = rows
    BY DEF vars
  <2>t. TypeOK
    BY DEF TypeInv
  <2>1. ASSUME NEW d \in Calls,
               Insert(d) \/ Accept(d) \/ Decline(d) \/ Remove(d) \/ Nothing(d)
        PROVE  rows' = rows
    <3>1. d = c
      BY <2>t, <2>1, StatementEffect
    <3> QED BY <2>1, <3>1, NobodyChangesNothing DEF Nothing
  <2> QED BY <2>1 DEF Next, friends, SendRequest, RemoveFriend, Respond
<1> QED BY <1>1, Typed, PTL DEF Spec, RefusedCallsAreHarmless

=============================================================================
