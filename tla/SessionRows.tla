---------------------------- MODULE SessionRows ----------------------------
(***************************************************************************)
(* What GetUserBySession promises the handlers, with nothing said of       *)
(* tokens, entries, generations or lifetimes: a lookup answers with the    *)
(* users row as it is at some moment of the lookup, or as it was before a  *)
(* write that no flush has followed yet.  Any flush settles all rows,      *)
(* whoever's write it follows, since it empties the whole map.             *)
(*                                                                         *)
(* SessionCache implements this, and Accounts, which reads sessions only   *)
(* through MayResolve, changes rows only in these steps.                   *)
(***************************************************************************)
CONSTANTS Users, Lookups

VARIABLES
  row,       \* the users rows there are: user -> row
  stale,     \* for each user, former rows that a session may still resolve to
  found,     \* what each lookup has resolved to and not returned yet, if anything
  answered   \* what a lookup returned in the last step, if one did

vars == <<row, stale, found, answered>>

Init ==
  /\ DOMAIN row \subseteq Users
  /\ stale = [u \in Users |-> {}]
  /\ found = [p \in Lookups |-> {}]
  /\ answered = {}

\* What a session of u may resolve to.
MayResolve(u) == {row[u]} \cup stale[u]

Resolutions(u) == {[user |-> u, row |-> r] : r \in MayResolve(u)}

Settled == stale' = [u \in Users |-> {}]
Quiet == answered' = {}

(* Lookups *)

Resolve(p, u) ==
  /\ found[p] = {}
  /\ \E r \in Resolutions(u) : found' = [found EXCEPT ![p] = {r}]
  /\ Quiet
  /\ UNCHANGED <<row, stale>>

Return(p) ==
  /\ found[p] # {}
  /\ answered' = found[p]
  /\ found' = [found EXCEPT ![p] = {}]
  /\ UNCHANGED <<row, stale>>

\* A lookup that resolves and returns at once.
Answer(u) ==
  /\ \E r \in Resolutions(u) : answered' = {r}
  /\ UNCHANGED <<row, stale, found>>

\* A restart, and every lookup with it.
Abandon ==
  /\ found' = [p \in Lookups |-> {}]
  /\ Quiet
  /\ UNCHANGED <<row, stale>>

(* Rows *)

\* Until a flush follows, the row as it was may still be resolved to.
Write(u) ==
  /\ row' = [row EXCEPT ![u] = row'[u]]
  /\ stale' = [stale EXCEPT ![u] = (@ \cup {row[u]}) \ {row'[u]}]
  /\ Quiet
  /\ UNCHANGED found

Flush ==
  /\ Settled
  /\ Quiet
  /\ UNCHANGED <<row, found>>

\* The first sign-in of u, and the flush that follows it.
Register(u) ==
  /\ u \notin DOMAIN row
  /\ DOMAIN row' = DOMAIN row \cup {u}
  /\ \A v \in DOMAIN row : row'[v] = row[v]
  /\ Settled
  /\ Quiet
  /\ UNCHANGED found

\* Steps no handler sees.
Unseen == Quiet /\ UNCHANGED <<row, stale, found>>

Next ==
  \/ \E p \in Lookups : Return(p) \/ \E u \in DOMAIN row : Resolve(p, u)
  \/ \E u \in DOMAIN row : Answer(u) \/ Write(u)
  \/ \E u \in Users : Register(u)
  \/ Flush \/ Abandon \/ Unseen

Spec == Init /\ [][Next]_vars

=============================================================================
