------------------------------ MODULE Accounts ------------------------------
(***************************************************************************)
(* Who may do what: the role and status of each account, from              *)
(* internal/user/store.go, changed by the admin routes of                  *)
(* internal/api/admin.go and by the sign-in callback of                    *)
(* internal/api/auth.go, which makes admins of ADMIN_EMAILS.               *)
(*                                                                         *)
(* A handler finds out who is asking, writes, and empties the session      *)
(* cache.  Until a write has emptied it, a session may still resolve to    *)
(* the row as it was (SessionCache says why not for longer): stale holds   *)
(* such rows.                                                              *)
(*                                                                         *)
(* The guards requireUser, requireApprovedUser and requireAdmin return     *)
(* what c.JSON returns, which is nil once the refusal is written.  The     *)
(* handler, which only looks at that error, goes on as the zero user: as   *)
(* Nobody, whose id 0 is no account's.                                     *)
(***************************************************************************)
EXTENDS Integers, FiniteSets

CONSTANTS
  Users,      \* Google accounts that may sign in
  Requests,   \* requests to the admin routes and the callback
  Nobody      \* the zero user.User

ASSUME UsersAssumption == Nobody \notin Users

VARIABLES
  users,       \* the users rows: account -> [role, status]
  stale,       \* for each, what a session may still resolve to
  req,         \* what each request is in the middle of
  disturbed,   \* history: those whose statement failed, or raced another's
  out          \* history: accounts rejected for good, so far

accounts == <<users, stale, req, disturbed, out>>

----------------------------------------------------------------------------
Row == [role : {"user", "admin"}, status : {"pending", "approved", "rejected"}]
Admin == [role |-> "admin", status |-> "approved"]

Accounts == DOMAIN users

\* A change that one statement makes to a row.
Change == [column : {"role"}, to : {"user", "admin"}]
            \cup [column : {"status"}, to : {"approved", "rejected"}]

\* refused is history: the guard has answered already.  A sign-in goes through
\* its changes, the rest of which is in "then".
Request ==
  [pc : {"idle"}]
    \cup [pc : {"writing", "flushing"}, user : Users, change : Change,
          then : {"return", "approve", "greet"}, refused : BOOLEAN]
    \cup [pc : {"greeting"}, user : Users, listed : BOOLEAN]

AccountsTypeOK ==
  /\ Accounts \subseteq Users /\ users \in [Accounts -> Row]
  /\ stale \in [Users -> SUBSET Row]
  /\ req \in [Requests -> Request]
  /\ disturbed \subseteq Requests /\ out \subseteq Accounts

Idle == [pc |-> "idle"]

AccountsInit ==
  /\ users = [u \in {} |-> u]
  /\ stale = [u \in Users |-> {}]
  /\ req = [r \in Requests |-> Idle]
  /\ disturbed = {} /\ out = {}

Become(r, state) == req' = [req EXCEPT ![r] = state]

----------------------------------------------------------------------------
(* Guards *)

\* Sessions, as GetUserBySession promises them; a request resolves its own
\* within one step.
Sessions == INSTANCE SessionRows WITH
              Lookups <- {}, row <- users, found <- [p \in {} |-> {}], answered <- {}

\* What the session of account u may resolve to.
Resolved(u) == Sessions!MayResolve(u)

MayUse(row) == row.status = "approved"

\* requireApprovedUser and requireAdmin, as the handler sees them.
ApprovedUser(u, row) == IF MayUse(row) THEN u ELSE Nobody
AdminUser(u, row) == IF MayUse(row) /\ row.role = "admin" THEN u ELSE Nobody

----------------------------------------------------------------------------
(* Admin routes *)

\* An admin may not reject or demote themselves.
TakesAway(change) == change.to \in {"rejected", "user"}

SetStatusOrRole(r, u, target, change) ==
  /\ req[r] = Idle /\ u \in Accounts /\ target \in Accounts
  /\ \E row \in Resolved(u) :
       LET admin == AdminUser(u, row) IN
       /\ ~(target = admin /\ TakesAway(change))
       /\ Become(r, [pc |-> "writing", user |-> target, change |-> change,
                     then |-> "return", refused |-> admin = Nobody])
  /\ UNCHANGED <<users, stale, disturbed, out>>

Changed(row, change) ==
  IF change.column = "role" THEN [row EXCEPT !.role = change.to]
  ELSE [row EXCEPT !.status = change.to]

\* Requests about the same account.
Busy(u) == {r \in Requests : req[r] # Idle /\ req[r].user = u}

\* The statement, which may take effect and report an error all the same.  A
\* sign-in that fails to promote does not approve.
Update(r, fails) ==
  LET u == req[r].user IN
  /\ req[r].pc = "writing"
  /\ users' = [users EXCEPT ![u] = Changed(@, req[r].change)]
  /\ stale' = [stale EXCEPT ![u] = (@ \cup {users[u]}) \ {users'[u]}]
  /\ Become(r, [req[r] EXCEPT !.pc = "flushing",
                              !.then = IF fails /\ @ = "approve" THEN "greet" ELSE @])
  /\ disturbed' = disturbed \cup (Busy(u) \ {r}) \cup (IF fails THEN {r} ELSE {})
  /\ out' = IF req[r].change.to = "approved" THEN out \ {u} ELSE out

UpdateFails(r) ==
  /\ req[r].pc = "writing"
  /\ Become(r, [req[r] EXCEPT !.pc = "flushing", !.then = IF @ = "approve" THEN "greet" ELSE @])
  /\ disturbed' = disturbed \cup {r}
  /\ UNCHANGED <<users, stale, out>>

\* Fault: a write leaves the session cache alone.
NotEmptied == stale

Emptied == [u \in Users |-> {}]

\* After the statement, whatever came of it.
Flush(r) ==
  LET u == req[r].user IN
  /\ req[r].pc = "flushing"
  /\ stale' = Emptied
  /\ out' = IF users[u].status = "rejected" /\ req[r].change.to = "rejected" THEN out \cup {u} ELSE out
  /\ Become(r, CASE req[r].then = "return" -> Idle
                 [] req[r].then = "greet" -> [pc |-> "greeting", user |-> u, listed |-> TRUE]
                 [] req[r].then = "approve" ->
                      [req[r] EXCEPT !.pc = "writing", !.then = "greet",
                                     !.change = [column |-> "status", to |-> "approved"]])
  /\ disturbed' = IF req[r].then = "return" THEN disturbed \ {r} ELSE disturbed
  /\ UNCHANGED users

----------------------------------------------------------------------------
(* Signing in *)

\* Fault: an admin who is not approved, or the other way round, is left so.
NeitherYet(row) == row.role # "admin" /\ row.status # "approved"

NotAdminYet(row) == row # Admin

\* UpsertUserFromGoogle never touches role and status of a row that exists.
Upserted(u) == IF u \in Accounts THEN users[u] ELSE [role |-> "user", status |-> "pending"]

\* listed: the address is verified, and in ADMIN_EMAILS at present.
Callback(r, u, listed) ==
  /\ req[r] = Idle
  /\ users' = [v \in Accounts \cup {u} |-> IF v = u THEN Upserted(u) ELSE users[v]]
  /\ stale' = Emptied
  /\ Become(r, IF listed /\ NotAdminYet(Upserted(u))
               THEN [pc |-> "writing", user |-> u, change |-> [column |-> "role", to |-> "admin"],
                     then |-> "approve", refused |-> FALSE]
               ELSE [pc |-> "greeting", user |-> u, listed |-> listed])
  /\ UNCHANGED <<disturbed, out>>

\* Admins are told of a new account, and a session is created, or not.
Greet(r) ==
  /\ req[r].pc = "greeting"
  /\ Become(r, Idle)
  /\ disturbed' = disturbed \ {r}
  /\ UNCHANGED <<users, stale, out>>

AccountsNext ==
  \E r \in Requests :
    \/ \E u, target \in Users, change \in Change : SetStatusOrRole(r, u, target, change)
    \/ \E fails \in BOOLEAN : Update(r, fails)
    \/ UpdateFails(r) \/ Flush(r)
    \/ \E u \in Users, listed \in BOOLEAN : Callback(r, u, listed)
    \/ Greet(r)

AccountsSpec == AccountsInit /\ [][AccountsNext]_accounts

----------------------------------------------------------------------------
(* Properties *)

\* The ADMIN_EMAILS bootstrap mends what an earlier one left half done: when a
\* sign-in of a listed account comes to its end, the account is an approved
\* admin, unless a statement of this sign-in failed or another request changed
\* the account meanwhile.
BootstrapHeals ==
  \A r \in Requests :
    req[r].pc = "greeting" /\ req[r].listed /\ r \notin disturbed
      => users[req[r].user] = Admin

\* Every admin route requires an admin (admin.go:18): a request that its guard
\* refused changes no role and no status.
RefusedChangesNothing ==
  [][\A r \in Requests : req[r].pc = "writing" /\ req[r].refused /\ req'[r] # req[r]
       => users' = users]_accounts

\* Roles and statuses change as SessionRows lets the users rows change: one row
\* at a time, and each write is followed by what empties the session cache.
RowsChangeAsPromised == Sessions!Spec

=============================================================================
