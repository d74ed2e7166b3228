------------------------------ MODULE Friends ------------------------------
(***************************************************************************)
(* Friend requests: internal/api/friends.go over the friend_requests table *)
(* of internal/user/friends.go, of the accounts of Accounts.               *)
(*                                                                         *)
(* A handler finds out who is asking and then runs one statement.  There   *)
(* is at most one pending or accepted row from one account to another, and *)
(* one the other way too.  Declined rows are inert and left out.  A row's  *)
(* id stands for its two accounts; an id that is out of date, or not of a  *)
(* pending row, finds nothing.                                             *)
(***************************************************************************)
EXTENDS Accounts

CONSTANT Calls   \* requests to the friends routes

VARIABLES
  rows,     \* friend_requests: <<requester, recipient>> -> status
  call,     \* what each call is in the middle of
  agreed    \* history: <<u, v>> if u asked v, or accepted, since they parted

friends == <<rows, call, agreed>>
vars == <<accounts, friends>>

----------------------------------------------------------------------------
Pairs == {p \in Users \X Users : p[1] # p[2]}

\* late is history: the caller had been rejected before the call began.
Call ==
  [pc : {"idle"}]
    \cup [pc : {"sending", "removing"}, as : Users \cup {Nobody}, with : Users, late : BOOLEAN]
    \cup [pc : {"accepting", "declining"}, as : Users \cup {Nobody}, id : Pairs, late : BOOLEAN]

TypeOK ==
  /\ AccountsTypeOK
  /\ DOMAIN rows \subseteq Accounts \X Accounts
  /\ rows \in [DOMAIN rows -> {"pending", "accepted"}] /\ DOMAIN rows \subseteq Pairs
  /\ call \in [Calls -> Call]
  /\ agreed \subseteq Pairs

Init ==
  /\ AccountsInit
  /\ rows = [p \in {} |-> p]
  /\ call = [c \in Calls |-> Idle]
  /\ agreed = {}

Proceed(c, state) == call' = [call EXCEPT ![c] = state]

\* u's session resolves; a refused call goes on as Nobody.
Caller(u) == {ApprovedUser(u, row) : row \in Resolved(u)}

\* The recipient is whoever has linked that profile; not oneself.
SendRequest(c, u, v) ==
  /\ call[c] = Idle /\ {u, v} \subseteq Accounts
  /\ \E as \in Caller(u) :
       as # v /\ Proceed(c, [pc |-> "sending", as |-> as, with |-> v, late |-> u \in out])
  /\ UNCHANGED <<accounts, rows, agreed>>

Respond(c, u, id, pc) ==
  /\ call[c] = Idle /\ u \in Accounts
  /\ \E as \in Caller(u) : Proceed(c, [pc |-> pc, as |-> as, id |-> id, late |-> u \in out])
  /\ UNCHANGED <<accounts, rows, agreed>>

RemoveFriend(c, u, v) ==
  /\ call[c] = Idle /\ u \in Accounts
  /\ \E as \in Caller(u) : Proceed(c, [pc |-> "removing", as |-> as, with |-> v, late |-> u \in out])
  /\ UNCHANGED <<accounts, rows, agreed>>

Live(p) == p \in DOMAIN rows
Pending(p) == Live(p) /\ rows[p] = "pending"
Accepted(p) == Live(p) /\ rows[p] = "accepted"

Without(gone) == [p \in DOMAIN rows \ gone |-> rows[p]]
Both(p) == {p, <<p[2], p[1]>>}

\* Fault: the index is all that is checked.
Unique(p) == ~Live(p)

\* Requester and recipient must be accounts; the index allows one live row.
Insertable(p) == {p[1], p[2]} \subseteq Accounts /\ ~Live(p)

Insert(c) ==
  LET p == <<call[c].as, call[c].with>> IN
  /\ call[c].pc = "sending" /\ Insertable(p)
  /\ rows' = [q \in DOMAIN rows \cup {p} |-> IF q = p THEN "pending" ELSE rows[q]]
  /\ agreed' = agreed \cup {p}
  /\ Proceed(c, Idle)
  /\ UNCHANGED accounts

\* Addressed to the caller, and still pending.
Answerable(c) == Pending(call[c].id) /\ call[c].id[2] = call[c].as

Accept(c) ==
  LET p == call[c].id IN
  /\ call[c].pc = "accepting" /\ Answerable(c)
  /\ rows' = [rows EXCEPT ![p] = "accepted"]
  /\ agreed' = agreed \cup {<<call[c].as, p[1]>>}
  /\ Proceed(c, Idle)
  /\ UNCHANGED accounts

\* What they asked is settled, if nothing is left between the two.
Decline(c) ==
  LET p == call[c].id IN
  /\ call[c].pc = "declining" /\ Answerable(c)
  /\ rows' = Without({p})
  /\ agreed' = IF Live(<<p[2], p[1]>>) THEN agreed ELSE agreed \ Both(p)
  /\ Proceed(c, Idle)
  /\ UNCHANGED accounts

\* Fault: only a friendship the caller asked for is found.
OwnRequest(p) == {q \in {p} : Accepted(q)}

\* In whichever direction it exists, or both.
Friendship(p) == {q \in Both(p) : Accepted(q)}

Remove(c) ==
  LET p == <<call[c].as, call[c].with>> IN
  /\ call[c].pc = "removing"
  /\ rows' = Without(Friendship(p))
  /\ agreed' = IF \E q \in Both(p) : Pending(q) THEN agreed ELSE agreed \ Both(p)
  /\ Proceed(c, Idle)
  /\ UNCHANGED accounts

\* The statement finds nothing to do, or fails.
Nothing(c) ==
  /\ call[c] # Idle
  /\ Proceed(c, Idle)
  /\ UNCHANGED <<accounts, rows, agreed>>

Next ==
  \/ AccountsNext /\ UNCHANGED friends
  \/ \E c \in Calls :
       \/ \E u, v \in Users : SendRequest(c, u, v) \/ RemoveFriend(c, u, v)
       \/ \E u \in Users, id \in Pairs, pc \in {"accepting", "declining"} : Respond(c, u, id, pc)
       \/ Insert(c) \/ Accept(c) \/ Decline(c) \/ Remove(c) \/ Nothing(c)

Spec == Init /\ [][Next]_vars

----------------------------------------------------------------------------
(* Properties *)

\* A friendship takes both: each of the two has asked for it or accepted it
\* since they were last neither friends nor asking, that is, since a decline
\* that left nothing between them, or a removal that left no request of either
\* pending (respondToFriendRequest's WHERE, RemoveFriend).
FriendsAgree == \A p \in DOMAIN rows : Accepted(p) => Both(p) \subseteq agreed

\* A rejection takes effect at once: no call that its account begins after the
\* rejection has returned changes anything between accounts, though its
\* session lives on and the handlers go on after the guard's refusal.
RejectedIsOut ==
  [][rows' # rows => \E c \in Calls : call'[c] # call[c] /\ ~call[c].late]_vars

=============================================================================
