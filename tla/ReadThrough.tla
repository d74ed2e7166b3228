---------------------------- MODULE ReadThrough ----------------------------
(***************************************************************************)
(* What a cache of internal/bcp promises the handlers that call Get, with  *)
(* nothing said of entries, markers or goroutines: a question is put to    *)
(* BCP at most once at a time, an answer is data of bounded staleness or   *)
(* an error, a caller blocks only on a fetch of its own key, and every     *)
(* caller that blocks is released.                                         *)
(***************************************************************************)
EXTENDS Naturals

CONSTANTS Keys, Callers

VARIABLES
  limit,       \* how stale an answer may be, fixed when the cache is built
  fetching,    \* how many fetches of each key are under way
  blocked,     \* the callers blocked in Get
  returned     \* what Get returned in the last step, if it did

vars == <<limit, fetching, blocked, returned>>

Silent == [kind |-> "none"]
Errors == {"gone", "fail"}
Acceptable == [kind : Errors] \cup [kind : {"data"}, truth : 0..limit]

Init ==
  /\ limit \in Nat
  /\ fetching = [k \in Keys |-> 0]
  /\ blocked = {}
  /\ returned = Silent

\* A fetch of k is under way afterwards: the one that was, or a new one.
Fetch(k) == fetching' = [fetching EXCEPT ![k] = 1]

\* An answer at once, possibly with a fetch behind the response.
Answer(k) ==
  /\ returned' \in Acceptable
  /\ Fetch(k) \/ UNCHANGED fetching
  /\ UNCHANGED <<limit, blocked>>

Block(c, k) ==
  /\ c \notin blocked
  /\ blocked' = blocked \cup {c}
  /\ Fetch(k)
  /\ returned' = Silent
  /\ UNCHANGED limit

Finish(k) ==
  /\ fetching[k] = 1
  /\ fetching' = [fetching EXCEPT ![k] = 0]
  /\ returned' = Silent
  /\ UNCHANGED <<limit, blocked>>

\* Everyone who waited for one fetch gets the same answer.
Release(W) ==
  /\ W # {} /\ W \subseteq blocked
  /\ blocked' = blocked \ W
  /\ returned' \in Acceptable
  /\ UNCHANGED <<limit, fetching>>

\* Steps no handler sees: time, invalidation, seeding.
Quiet == returned' = Silent /\ UNCHANGED <<limit, fetching, blocked>>

Next ==
  \/ \E k \in Keys : Answer(k) \/ Finish(k)
  \/ \E c \in Callers, k \in Keys : Block(c, k)
  \/ \E W \in SUBSET Callers : Release(W)
  \/ Quiet

Safety == Init /\ [][Next]_vars

Spec ==
  /\ Safety
  /\ \A k \in Keys : WF_vars(Finish(k))
  /\ \A c \in Callers : WF_vars(\E W \in SUBSET Callers : c \in W /\ Release(W))

=============================================================================
