------------------------------ MODULE Migrate ------------------------------
(***************************************************************************)
(* Schema migrations at start-up: Migrate of internal/db/migrate.go.       *)
(*                                                                         *)
(* Every boot takes an advisory lock, reads which migrations are recorded, *)
(* and applies the ones its binary embeds and the table lacks, in file     *)
(* name order, each with its record in one transaction.  Only then does it *)
(* serve.  Several may boot together, with different binaries (a deploy),  *)
(* and any of them may fail or die at any point: the database then lets go *)
(* of its lock when it notices, and until then may still carry out a       *)
(* COMMIT it was sent.                                                     *)
(*                                                                         *)
(* File names are prefixed with increasing numbers; here they are those    *)
(* numbers.  The schema is how many times each migration took effect.  A   *)
(* restart is another boot.                                                *)
(***************************************************************************)
EXTENDS Integers

CONSTANTS
  Boots,         \* the starts of the process that there are (a bound)
  Versions,      \* the migrations there are, by number
  Embedded       \* the migrations in each boot's binary

ASSUME VersionsAssumption == Versions \subseteq Nat
ASSUME EmbeddedAssumption == Embedded \in [Boots -> SUBSET Versions]

VARIABLES
  applied,   \* schema_migrations: the versions recorded
  ran,       \* how many times each migration's SQL has been committed
  holder,    \* the boots whose database session holds the advisory lock
  gone,      \* those whose session the boot is done with and the database not
  tx,        \* per session, the migration the database was told to commit, if any
  pc,        \* where each boot is in Migrate
  pending    \* what each still has to apply

vars == <<applied, ran, holder, gone, tx, pc, pending>>

----------------------------------------------------------------------------
Label == {"new", "waiting", "reading", "applying", "executed", "committing",
          "serving", "dead"}

TypeOK ==
  /\ applied \subseteq Versions
  /\ ran \in [Versions -> Nat]
  /\ holder \subseteq Boots /\ gone \subseteq Boots
  /\ tx \in [Boots -> SUBSET Versions]
  /\ pc \in [Boots -> Label]
  /\ pending \in [Boots -> SUBSET Versions]
  /\ \A p \in Boots : pending[p] \subseteq Embedded[p]

Init ==
  /\ applied = {}
  /\ ran = [v \in Versions |-> 0]
  /\ holder = {} /\ gone = {}
  /\ tx = [p \in Boots |-> {}]
  /\ pc = [p \in Boots |-> "new"]
  /\ pending = [p \in Boots |-> {}]

Goto(p, label) == pc' = [pc EXCEPT ![p] = label]

\* A connection is acquired, and the lock asked for.
Start(p) ==
  /\ pc[p] = "new"
  /\ Goto(p, "waiting")
  /\ UNCHANGED <<applied, ran, holder, gone, tx, pending>>

\* Fault: migrations run without the lock.
Unlocked == TRUE

LockFree == holder = {}

\* pg_advisory_lock returns.
Lock(p) ==
  /\ pc[p] = "waiting" /\ LockFree
  /\ holder' = holder \cup {p}
  /\ Goto(p, "reading")
  /\ UNCHANGED <<applied, ran, gone, tx, pending>>

\* Fault: whatever comes before the last recorded one counts as applied.
PendingAfterLast(p) == {v \in Embedded[p] : \A w \in applied : w < v}

\* Fault: what is pending does not depend on the binary.
PendingOfAll(p) == Versions \ applied

\* pendingMigrations, but for the order.
Pending(p) == Embedded[p] \ applied

\* The table is created if need be, and read.
Read(p) ==
  /\ pc[p] = "reading"
  /\ pending' = [pending EXCEPT ![p] = Pending(p)]
  /\ Goto(p, "applying")
  /\ UNCHANGED <<applied, ran, holder, gone, tx>>

\* Fault: the paths are not sorted.
AnyPending(p, v) == v \in pending[p]

\* v is the next migration of the sorted list.
Due(p, v) == v \in pending[p] /\ \A w \in pending[p] : v =< w

\* Begin, the migration's SQL and its record, all still uncommitted.
Execute(p) ==
  /\ pc[p] = "applying" /\ pending[p] # {}
  /\ Goto(p, "executed")
  /\ UNCHANGED <<applied, ran, holder, gone, tx, pending>>

SendCommit(p) ==
  /\ pc[p] = "executed"
  /\ \E v \in Versions : Due(p, v) /\ tx' = [tx EXCEPT ![p] = {v}]
  /\ Goto(p, "committing")
  /\ UNCHANGED <<applied, ran, holder, gone, pending>>

\* Fault: the record is not part of the transaction, and is lost.
EffectOnly(v) ==
  /\ ran' = [ran EXCEPT ![v] = @ + 1]
  /\ UNCHANGED applied

\* The SQL and its record take effect together.
TakeEffect(v) ==
  /\ ran' = [ran EXCEPT ![v] = @ + 1]
  /\ applied' = applied \cup {v}

\* The database carries out a COMMIT, whether or not the boot is still there.
\* The record's version is the table's primary key: if it is recorded already,
\* the INSERT has failed and nothing is committed.
DatabaseCommits(p) ==
  /\ \E v \in tx[p] \ applied : TakeEffect(v)
  /\ tx' = [tx EXCEPT ![p] = {}]
  /\ UNCHANGED <<holder, gone, pc, pending>>

\* Commit returns without an error.
Committed(p) ==
  /\ pc[p] = "committing" /\ tx[p] = {}
  /\ \E v \in Versions : Due(p, v) /\ pending' = [pending EXCEPT ![p] = @ \ {v}]
  /\ Goto(p, "applying")
  /\ UNCHANGED <<applied, ran, holder, gone, tx>>

\* Fault: the connection goes back to the pool with the lock.
KeepLock(p) == UNCHANGED <<holder, gone>>

\* The deferred unlock, whose error is ignored: it fails when the session is
\* lost, and the database then ends the session in its own time.
Unlock(p) ==
  \/ holder' = holder \ {p} /\ UNCHANGED gone
  \/ gone' = gone \cup {p} /\ UNCHANGED holder

\* Nothing is pending: Migrate returns and the listener starts.
Finish(p) ==
  /\ pc[p] = "applying" /\ pending[p] = {}
  /\ Unlock(p)
  /\ Goto(p, "serving")
  /\ UNCHANGED <<applied, ran, tx, pending>>

\* An error (log.Fatalf in main), a lost connection, a crash, or a shutdown.
Die(p) ==
  /\ pc[p] \notin {"new", "dead"}
  /\ Goto(p, "dead")
  /\ gone' = gone \cup {p}
  /\ UNCHANGED <<applied, ran, holder, tx, pending>>

\* The database notices: it rolls back what is open and releases the lock.
SessionEnds(p) ==
  /\ p \in gone
  /\ gone' = gone \ {p}
  /\ holder' = holder \ {p}
  /\ tx' = [tx EXCEPT ![p] = {}]
  /\ UNCHANGED <<applied, ran, pc, pending>>

Next ==
  \E p \in Boots :
    \/ Start(p) \/ Lock(p) \/ Read(p) \/ Execute(p) \/ SendCommit(p)
    \/ DatabaseCommits(p) \/ Committed(p) \/ Finish(p) \/ Die(p) \/ SessionEnds(p)

Spec == Init /\ [][Next]_vars

\* Statements return or fail, and the database ends the sessions of the dead.
\* Nothing has to start and nothing has to die.
Fairness ==
  \A p \in Boots :
    /\ WF_vars(Lock(p)) /\ WF_vars(Read(p)) /\ WF_vars(Execute(p))
    /\ WF_vars(SendCommit(p)) /\ WF_vars(DatabaseCommits(p))
    /\ WF_vars(Committed(p)) /\ WF_vars(Finish(p)) /\ WF_vars(SessionEnds(p))

FairSpec == Spec /\ Fairness

----------------------------------------------------------------------------
(* Properties. *)

\* A migration has taken effect exactly once if it is recorded, and never if
\* it is not, whatever died in the middle of it (applyMigration's transaction).
AppliedOnce ==
  \A v \in Versions : ran[v] = IF v \in applied THEN 1 ELSE 0

\* No boot executes a migration's SQL that another has applied since it read
\* the table, and no two are at it at once (what the advisory lock is for).
NobodyRepeats ==
  /\ \A p \in Boots : pc[p] = "executed" => pending[p] \cap applied = {}
  /\ \A p, q \in Boots : pc[p] = "executed" /\ pc[q] \in {"executed", "committing"}
                           => p = q

\* A migration takes effect only after every earlier one of the same binary
\* ("in filename order").
InOrder ==
  [][\A p \in Boots : \A v \in tx[p] :
       v \in applied' \ applied => \A w \in Embedded[p] : w < v => w \in applied]_vars

\* A boot that serves requests has the whole schema its binary knows.
ServesMigrated ==
  \A p \in Boots : pc[p] = "serving" => Embedded[p] \subseteq applied

\* A boot that waits for the lock serves or fails in the end, also when the
\* boot it waits for died holding the lock.
BootsFinish ==
  \A p \in Boots : pc[p] = "waiting" ~> pc[p] \in {"serving", "dead"}

=============================================================================
