------------------------ MODULE ConditionalRequests ------------------------
(***************************************************************************)
(* Client.get of internal/bcp/client.go over the store of ETags and bodies *)
(* of internal/bcp/conditional.go.                                         *)
(*                                                                         *)
(* A request looks its validator up, goes to BCP, and reads, replaces or   *)
(* drops what is stored for its URL, each under a hold of the lock of its  *)
(* own.  Other requests may evict or replace it in between.                *)
(*                                                                         *)
(* BCP has one version of each URL at a time and never an earlier one      *)
(* again; an ETag names one version.  The caches above ask for a URL at    *)
(* most once at a time, except that FetchEventLeagueIDs asks for the URL   *)
(* of an event's info without going through its cache.                     *)
(***************************************************************************)
EXTENDS Integers, FiniteSets

CONSTANTS
  Requests,
  Urls,
  Shared,       \* those more than one request may ask for at a time
  Capacity,     \* maxConditionalEntries
  MaxVersion    \* bound on the versions of a URL

ASSUME SharedAssumption == Shared \subseteq Urls
ASSUME BoundsAssumption == MaxVersion \in Nat /\ Capacity \in Nat \ {0}

VARIABLES
  current,   \* BCP: the version of each URL
  stored,    \* the store: URL -> [etag, body]
  req,       \* what each request is in the middle of
  answer     \* history: what the last step answered, if anything

vars == <<current, stored, req, answer>>

----------------------------------------------------------------------------
Versions == 0..MaxVersion
Validator == {{}} \cup {{v} : v \in Versions}

\* due is history: what BCP had when the request was sent, if nobody else was
\* asking for that URL then.
Request ==
  [pc : {"idle"}]
    \cup [pc : {"sent"}, url : Urls, due : Versions, etag : Validator]
    \cup [pc : {"full"}, url : Urls, due : Versions, body : Versions]
    \cup [pc : {"notModified", "forgetting"}, url : Urls, due : Versions]

TypeOK ==
  /\ current \in [Urls -> Versions]
  /\ DOMAIN stored \subseteq Urls
  /\ stored \in [DOMAIN stored -> [etag : Versions, body : Versions]]
  /\ Cardinality(DOMAIN stored) =< Capacity
  /\ req \in [Requests -> Request]
  /\ answer \subseteq [url : Urls, due : Versions, body : Versions]

Idle == [pc |-> "idle"]

Init ==
  /\ current = [u \in Urls |-> 0]
  /\ stored = [u \in {} |-> u]
  /\ req = [r \in Requests |-> Idle]
  /\ answer = {}

Become(r, state) == req' = [req EXCEPT ![r] = state]
Silent == answer' = {}
Return(r, body) == answer' = {[url |-> req[r].url, due |-> req[r].due, body |-> body]}

Alone(u) == \A q \in Requests : req[q] # Idle => req[q].url # u


\* The request carries the ETag of what is stored, if anything is.
Ask(r, u) ==
  /\ req[r] = Idle
  /\ u \in Shared \/ Alone(u)   \* the caches above the client
  /\ Become(r, [pc |-> "sent", url |-> u, due |-> IF Alone(u) THEN current[u] ELSE 0,
                etag |-> IF u \in DOMAIN stored THEN {stored[u].etag} ELSE {}])
  /\ Silent
  /\ UNCHANGED <<current, stored>>

\* BCP answers with what it has, or says that the validator still names it.
Answered(r) ==
  LET u == req[r].url IN
  /\ req[r].pc = "sent"
  /\ Become(r, IF current[u] \in req[r].etag
               THEN [pc |-> "notModified", url |-> u, due |-> req[r].due]
               ELSE [pc |-> "full", url |-> u, due |-> req[r].due, body |-> current[u]])
  /\ Silent
  /\ UNCHANGED <<current, stored>>

\* No answer, one that is an error, or one that cannot be read.
Failed(r) ==
  /\ req[r].pc \in {"sent", "full"}
  /\ Become(r, Idle)
  /\ Silent
  /\ UNCHANGED <<current, stored>>

\* Not modified: the stored body is the answer, whatever it is by now.
Confirm(r) ==
  LET u == req[r].url IN
  /\ req[r].pc = "notModified" /\ u \in DOMAIN stored
  /\ Return(r, stored[u].body)
  /\ Become(r, Idle)
  /\ UNCHANGED <<current, stored>>

\* Or it is gone, or does not decode as what the caller wants.
NoBody(r) ==
  /\ req[r].pc = "notModified"
  /\ Become(r, [req[r] EXCEPT !.pc = "forgetting"])
  /\ Silent
  /\ UNCHANGED <<current, stored>>

Without(urls) == [u \in DOMAIN stored \ urls |-> stored[u]]

\* The error is returned once the entry is dropped, its own or a newer one.
Forget(r) ==
  /\ req[r].pc = "forgetting"
  /\ stored' = Without({req[r].url})
  /\ Become(r, Idle)
  /\ Silent
  /\ UNCHANGED current

\* Fault: nothing makes room.
NothingEvicted == {{}}

\* One entry goes, any, when the store is full, though the URL may be in it.
Evicted ==
  IF Cardinality(DOMAIN stored) >= Capacity THEN {{u} : u \in DOMAIN stored} ELSE {{}}

\* Fault: the body of a URL that is known is kept.
NewEtag(u, v) == [etag |-> v, body |-> IF u \in DOMAIN stored THEN stored[u].body ELSE v]

NewEntry(u, v) == [etag |-> v, body |-> v]

\* A response in full is the answer, and is stored if it has an ETag and is
\* not too large.
Remember(r) ==
  LET u == req[r].url
      v == req[r].body
  IN
  /\ req[r].pc = "full"
  /\ \/ \E gone \in Evicted :
          stored' = [w \in (DOMAIN stored \ gone) \cup {u} |->
                       IF w = u THEN NewEntry(u, v) ELSE stored[w]]
     \/ UNCHANGED stored
  /\ Return(r, v)
  /\ Become(r, Idle)
  /\ UNCHANGED current

\* BCP's data moves.
Change(u) ==
  /\ current[u] < MaxVersion
  /\ current' = [current EXCEPT ![u] = @ + 1]
  /\ Silent
  /\ UNCHANGED <<stored, req>>

Next ==
  \/ \E r \in Requests :
       \/ \E u \in Urls : Ask(r, u)
       \/ Answered(r) \/ Failed(r) \/ Confirm(r) \/ NoBody(r) \/ Forget(r) \/ Remember(r)
  \/ \E u \in Urls : Change(u)

Spec == Init /\ [][Next]_vars

----------------------------------------------------------------------------
(* Properties *)

\* conditional.go's purpose is that asking with a validator gives no older an
\* answer than asking without: what get returns is what BCP had when the
\* request was sent, or newer, although other requests evict and store all the
\* while.  It holds of a request that was the only one for its URL then.  Of
\* the others it does not: one of them may store an older response between the
\* 304 of another and its reading of the body.
ConfirmedIsCurrent == \A a \in answer : a.body >= a.due

=============================================================================
