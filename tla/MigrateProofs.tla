--------------------------- MODULE MigrateProofs ---------------------------
(***************************************************************************)
(* Theorems about Migrate, for any boots, binaries and migrations.         *)
(*                                                                         *)
(* The inductive invariant says that the boots between Lock and Finish     *)
(* hold the lock, that only one session does, and hence that what a boot   *)
(* has pending is still exactly what its binary has and the table lacks.   *)
(***************************************************************************)
EXTENDS Migrate, WellFoundedInduction, TLAPS

Migrating == {"reading", "applying", "executed", "committing"}

\* Only one session holds the lock; a boot that migrates does; a session the
\* boot has let go of belongs to one that no longer migrates.
Exclusive ==
  /\ \A p \in Boots : pc[p] \in Migrating => p \in holder
  /\ \A p, q \in Boots : p \in holder /\ q \in holder => p = q
  /\ \A p \in gone : pc[p] \in {"serving", "dead"}

\* What an open COMMIT would apply, and what is pending, follow the table.
InStep ==
  \A p \in Boots :
    /\ tx[p] # {} => p \in holder /\ pc[p] \in {"committing", "dead"}
    /\ \A v \in tx[p] : Due(p, v) /\ tx[p] = {v}
    /\ pc[p] \in {"applying", "executed"} \/ tx[p] # {}
         => pending[p] = Embedded[p] \ applied
    /\ pc[p] = "committing" /\ tx[p] = {} =>
         \E v \in Versions : Due(p, v) /\ pending[p] \ {v} = Embedded[p] \ applied

LockInv == TypeOK /\ Exclusive /\ InStep /\ ServesMigrated /\ AppliedOnce

----------------------------------------------------------------------------
(* Typing *)

\* What the boots read and record are migrations of their own binaries.
THEOREM TypeCorrect == Spec => []TypeOK
<1> USE VersionsAssumption, EmbeddedAssumption
<1>1. Init => TypeOK
  BY DEF Init, TypeOK, Label
<1>2. TypeOK /\ [Next]_vars => TypeOK'
  <2> SUFFICES ASSUME TypeOK, [Next]_vars PROVE TypeOK'
    OBVIOUS
  <2>1. CASE UNCHANGED vars
    BY <2>1 DEF TypeOK, vars
  <2>2. ASSUME NEW p \in Boots, Start(p) \/ Lock(p) \/ Execute(p) \/ Die(p)
        PROVE  TypeOK'
    BY <2>2 DEF TypeOK, Label, Start, Lock, Execute, Die, Goto
  <2>3. ASSUME NEW p \in Boots, Read(p) PROVE TypeOK'
    BY <2>3 DEF TypeOK, Label, Read, Pending, Goto
  <2>4. ASSUME NEW p \in Boots, SendCommit(p) PROVE TypeOK'
    BY <2>4 DEF TypeOK, Label, SendCommit, Goto
  <2>5. ASSUME NEW p \in Boots, DatabaseCommits(p) PROVE TypeOK'
    <3>1. PICK v \in tx[p] \ applied : TakeEffect(v)
      BY <2>5 DEF DatabaseCommits
    <3>2. v \in Versions
      BY <3>1 DEF TypeOK
    <3> QED
      BY <2>5, <3>1, <3>2 DEF TypeOK, DatabaseCommits, TakeEffect
  <2>6. ASSUME NEW p \in Boots, Committed(p) PROVE TypeOK'
    <3>1. PICK v \in Versions : pending' = [pending EXCEPT ![p] = @ \ {v}]
      BY <2>6 DEF Committed
    <3> QED
      BY <2>6, <3>1 DEF TypeOK, Label, Committed, Goto
  <2>7. ASSUME NEW p \in Boots, Finish(p) PROVE TypeOK'
    BY <2>7 DEF TypeOK, Label, Finish, Unlock, Goto
  <2>8. ASSUME NEW p \in Boots, SessionEnds(p) PROVE TypeOK'
    BY <2>8 DEF TypeOK, SessionEnds
  <2> QED
    BY <2>1, <2>2, <2>3, <2>4, <2>5, <2>6, <2>7, <2>8 DEF Next
<1> QED
  BY <1>1, <1>2, PTL DEF Spec

----------------------------------------------------------------------------
(* The lock *)

\* The lock excludes, and covers all of Migrate between Lock and Finish.
LEMMA ExclusiveSteps ==
  ASSUME TypeOK, Exclusive, InStep, [Next]_vars PROVE Exclusive'
<1>1. CASE UNCHANGED vars
  BY <1>1 DEF Exclusive, vars
<1>2. ASSUME NEW p \in Boots, Start(p) PROVE Exclusive'
  BY <1>2 DEF TypeOK, Exclusive, Migrating, Start, Goto
<1>3. ASSUME NEW p \in Boots, Lock(p) PROVE Exclusive'
  BY <1>3 DEF TypeOK, Exclusive, Migrating, Lock, LockFree, Goto
<1>4. ASSUME NEW p \in Boots, Read(p) \/ Execute(p) \/ SendCommit(p) \/ Committed(p)
      PROVE  Exclusive'
  BY <1>4 DEF TypeOK, Exclusive, Migrating, Read, Execute, SendCommit, Committed, Goto
<1>5. ASSUME NEW p \in Boots, DatabaseCommits(p) PROVE Exclusive'
  BY <1>5 DEF Exclusive, DatabaseCommits
<1>6. ASSUME NEW p \in Boots, Finish(p) PROVE Exclusive'
  BY <1>6 DEF TypeOK, Exclusive, Migrating, Finish, Unlock, Goto
<1>7. ASSUME NEW p \in Boots, Die(p) PROVE Exclusive'
  BY <1>7 DEF TypeOK, Exclusive, Migrating, Die, Goto
<1>8. ASSUME NEW p \in Boots, SessionEnds(p) PROVE Exclusive'
  BY <1>8 DEF TypeOK, Exclusive, Migrating, SessionEnds
<1> QED
  BY <1>1, <1>2, <1>3, <1>4, <1>5, <1>6, <1>7, <1>8 DEF Next

\* What a boot may disturb of InStep is its own part, unless it changes the table.
LEMMA InStepSteps ==
  ASSUME TypeOK, Exclusive, InStep, [Next]_vars PROVE InStep'
<1> USE VersionsAssumption, EmbeddedAssumption
<1>1. CASE UNCHANGED vars
  BY <1>1 DEF InStep, Due, vars
<1>2. ASSUME NEW p \in Boots, Start(p) \/ Lock(p) PROVE InStep'
  <2>1. /\ pc[p] \in {"new", "waiting"} /\ pc' = [pc EXCEPT ![p] = pc'[p]]
        /\ pc'[p] \in {"waiting", "reading"} /\ holder \subseteq holder'
        /\ UNCHANGED <<applied, tx, pending>>
    BY <1>2 DEF TypeOK, Start, Lock, Goto
  <2>2. tx[p] = {}
    BY <2>1 DEF InStep
  <2> QED
    BY <2>1, <2>2 DEF TypeOK, InStep, Due
<1>3. ASSUME NEW p \in Boots, Read(p) PROVE InStep'
  BY <1>3 DEF TypeOK, InStep, Due, Read, Pending, Goto
<1>4. ASSUME NEW p \in Boots, Execute(p) PROVE InStep'
  BY <1>4 DEF TypeOK, InStep, Due, Execute, Goto
<1>5. ASSUME NEW p \in Boots, SendCommit(p) PROVE InStep'
  <2>1. PICK v \in Versions : Due(p, v) /\ tx' = [tx EXCEPT ![p] = {v}]
    BY <1>5 DEF SendCommit
  <2>2. p \in holder
    BY <1>5 DEF Exclusive, Migrating, SendCommit
  <2> QED
    BY <1>5, <2>1, <2>2 DEF TypeOK, InStep, Due, SendCommit, Goto
<1>6. ASSUME NEW p \in Boots, DatabaseCommits(p) PROVE InStep'
  <2>1. PICK v \in tx[p] \ applied : TakeEffect(v)
    BY <1>6 DEF DatabaseCommits
  <2>2. p \in holder /\ pc[p] \in {"committing", "dead"}
    BY <2>1 DEF InStep
  <2>3. Due(p, v) /\ tx[p] = {v} /\ pending[p] = Embedded[p] \ applied /\ v \in Versions
    BY <2>1 DEF InStep, TypeOK
  <2>4. applied' = applied \cup {v} /\ tx' = [tx EXCEPT ![p] = {}]
    BY <1>6, <2>1 DEF DatabaseCommits, TakeEffect
  <2>5. UNCHANGED <<holder, gone, pc, pending>>
    BY <1>6 DEF DatabaseCommits
  <2>6. ASSUME NEW q \in Boots, q # p
        PROVE  pc[q] \notin Migrating /\ tx[q] = {} /\ tx'[q] = {}
    BY <2>2, <2>4, <2>6 DEF Exclusive, InStep, TypeOK
  <2>7. tx'[p] = {} /\ pending'[p] \ {v} = Embedded[p] \ applied' /\ Due(p, v)'
    BY <2>3, <2>4, <2>5 DEF TypeOK, Due
  <2> QED
    BY <2>2, <2>3, <2>5, <2>6, <2>7 DEF InStep, Migrating
<1>7. ASSUME NEW p \in Boots, Committed(p) PROVE InStep'
  <2>1. PICK v \in Versions : Due(p, v) /\ pending' = [pending EXCEPT ![p] = @ \ {v}]
    BY <1>7 DEF Committed
  <2>2. PICK w \in Versions : Due(p, w) /\ pending[p] \ {w} = Embedded[p] \ applied
    BY <1>7 DEF Committed, InStep
  <2>3. v = w
    BY <2>1, <2>2 DEF Due
  <2>4. pending'[p] = Embedded[p] \ applied /\ tx[p] = {}
    BY <1>7, <2>1, <2>2, <2>3 DEF TypeOK, Committed
  <2> QED
    BY <1>7, <2>1, <2>4 DEF TypeOK, InStep, Due, Committed, Goto
<1>8. ASSUME NEW p \in Boots, Finish(p) PROVE InStep'
  <2>1. tx[p] = {}
    BY <1>8 DEF Finish, InStep
  <2> QED
    BY <1>8, <2>1 DEF TypeOK, InStep, Due, Finish, Unlock, Goto
<1>9. ASSUME NEW p \in Boots, Die(p) PROVE InStep'
  BY <1>9 DEF TypeOK, InStep, Due, Die, Goto
<1>10. ASSUME NEW p \in Boots, SessionEnds(p) PROVE InStep'
  BY <1>10 DEF TypeOK, Exclusive, InStep, Due, SessionEnds
<1> QED
  BY <1>1, <1>2, <1>3, <1>4, <1>5, <1>6, <1>7, <1>8, <1>9, <1>10 DEF Next

----------------------------------------------------------------------------
(* The schema *)

\* Only a commit changes the schema, and it adds one migration to both.
LEMMA SchemaSteps ==
  ASSUME TypeOK, InStep, ServesMigrated, AppliedOnce, [Next]_vars
  PROVE  ServesMigrated' /\ AppliedOnce'
<1>1. CASE UNCHANGED vars
  BY <1>1 DEF ServesMigrated, AppliedOnce, vars
<1>2. ASSUME NEW p \in Boots,
             Start(p) \/ Lock(p) \/ Read(p) \/ Execute(p) \/ SendCommit(p)
               \/ Committed(p) \/ Die(p) \/ SessionEnds(p)
      PROVE  ServesMigrated' /\ AppliedOnce'
  BY <1>2 DEF TypeOK, ServesMigrated, AppliedOnce, Start, Lock, Read, Execute,
              SendCommit, Committed, Die, SessionEnds, Goto
<1>3. ASSUME NEW p \in Boots, DatabaseCommits(p) PROVE ServesMigrated' /\ AppliedOnce'
  <2>1. PICK v \in tx[p] \ applied : TakeEffect(v)
    BY <1>3 DEF DatabaseCommits
  <2>2. v \in Versions /\ pc' = pc
    BY <1>3, <2>1 DEF TypeOK, DatabaseCommits
  <2> QED
    BY <2>1, <2>2 DEF TypeOK, ServesMigrated, AppliedOnce, TakeEffect
<1>4. ASSUME NEW p \in Boots, Finish(p) PROVE ServesMigrated' /\ AppliedOnce'
  <2>1. Embedded[p] \subseteq applied
    BY <1>4 DEF Finish, InStep
  <2> QED
    BY <1>4, <2>1 DEF TypeOK, ServesMigrated, AppliedOnce, Finish, Goto
<1> QED
  BY <1>1, <1>2, <1>3, <1>4 DEF Next

\* The inductive invariant, for every value of the constants.
THEOREM LockCorrect == Spec => []LockInv
<1>1. Init => LockInv
  <2> SUFFICES ASSUME Init PROVE LockInv
    OBVIOUS
  <2>1. TypeOK
    BY DEF Init, TypeOK, Label
  <2> QED
    BY <2>1 DEF Init, LockInv, Exclusive, Migrating, InStep, ServesMigrated, AppliedOnce
<1>2. TypeOK /\ TypeOK' /\ LockInv /\ [Next]_vars => LockInv'
  BY ExclusiveSteps, InStepSteps, SchemaSteps DEF LockInv
<1> QED
  BY <1>1, <1>2, TypeCorrect, PTL DEF Spec

\* A migration has taken effect once if recorded and never if not (the
\* transaction of applyMigration), whatever fails or dies.
THEOREM AlwaysAppliedOnce == Spec => []AppliedOnce
<1>1. LockInv => AppliedOnce
  BY DEF LockInv
<1> QED
  BY <1>1, LockCorrect, PTL

\* No boot executes what is already applied, nor what another is applying
\* (the advisory lock of Migrate).
THEOREM NeverRepeats == Spec => []NobodyRepeats
<1>1. LockInv => NobodyRepeats
  BY DEF LockInv, Exclusive, Migrating, InStep, NobodyRepeats
<1> QED
  BY <1>1, LockCorrect, PTL

\* A boot that serves has the whole schema of its binary (main runs Migrate
\* before it listens).
THEOREM AlwaysServesMigrated == Spec => []ServesMigrated
<1>1. LockInv => ServesMigrated
  BY DEF LockInv
<1> QED
  BY <1>1, LockCorrect, PTL

\* A migration takes effect after all earlier ones of the binary applying it
\* (pendingMigrations' order).
THEOREM AlwaysInOrder == Spec => InOrder
<1> USE VersionsAssumption, EmbeddedAssumption
<1>1. LockInv /\ [Next]_vars =>
        [\A p \in Boots : \A v \in tx[p] :
           v \in applied' \ applied => \A w \in Embedded[p] : w < v => w \in applied]_vars
  <2> SUFFICES ASSUME LockInv, NEW p \in Boots, NEW v \in tx[p],
                      NEW w \in Embedded[p], w < v
               PROVE  w \in applied
    BY DEF LockInv
  <2>1. Due(p, v) /\ pending[p] = Embedded[p] \ applied
    BY DEF LockInv, InStep
  <2>2. v \in Nat /\ w \in Nat
    BY DEF LockInv, TypeOK
  <2> QED
    BY <2>1, <2>2 DEF Due
<1> QED
  BY <1>1, LockCorrect, PTL DEF Spec, InOrder

----------------------------------------------------------------------------
(* The lock does not stay with nobody *)

\* What BootsFinish rests on beside fairness: whoever holds the lock may take a
\* step, or its session is one that the database ends.  The last three cases
\* are the guards of SendCommit, DatabaseCommits and Committed.
MayGoOn(p) ==
  \/ p \in gone
  \/ pc[p] \in {"reading", "applying"}
  \/ pc[p] = "executed" /\ \E v \in Versions : Due(p, v)
  \/ pc[p] = "committing" /\ tx[p] \ applied # {}
  \/ pc[p] = "committing" /\ tx[p] = {} /\ \E v \in Versions : Due(p, v)

LockMovesOn == \A p \in holder : MayGoOn(p)

\* A holder migrates or is gone, and has something to do when it has begun.
HolderInv ==
  /\ \A p \in holder : pc[p] \in Migrating \/ p \in gone
  /\ \A p \in Boots : pc[p] = "executed" => pending[p] # {}

\* A set of migrations that is not empty has a first one.
LEMMA HasFirst ==
  ASSUME NEW T \in SUBSET Nat, T # {}
  PROVE  \E v \in T : \A w \in T : v =< w
<1> DEFINE R == OpToRel(<, Nat)
<1>1. IsWellFoundedOn(R, Nat)
  BY NatLessThanWellFounded
<1>2. \A x, y \in Nat : x < y => <<x, y>> \in R
  BY DEF OpToRel
<1> HIDE DEF R
<1>3. PICK v \in T : \A w \in T : ~ (<<w, v>> \in R)
  BY <1>1, WFMin
<1>4. \A w \in T : w \in Nat /\ ~(w < v)
  BY <1>2, <1>3
<1> QED
  BY <1>4

LEMMA HolderSteps ==
  ASSUME TypeOK, Exclusive, HolderInv, [Next]_vars PROVE HolderInv'
<1>1. CASE UNCHANGED vars
  BY <1>1 DEF HolderInv, vars
<1>2. ASSUME NEW p \in Boots, Start(p) \/ Lock(p) \/ Read(p) \/ Execute(p) PROVE HolderInv'
  BY <1>2 DEF TypeOK, HolderInv, Migrating, Start, Lock, Read, Execute, Goto
<1>3. ASSUME NEW p \in Boots, SendCommit(p) PROVE HolderInv'
  BY <1>3 DEF TypeOK, HolderInv, Migrating, SendCommit, Goto
<1>4. ASSUME NEW p \in Boots, DatabaseCommits(p) PROVE HolderInv'
  BY <1>4 DEF HolderInv, DatabaseCommits
<1>5. ASSUME NEW p \in Boots, Committed(p) PROVE HolderInv'
  <2>1. PICK v \in Versions : pending' = [pending EXCEPT ![p] = @ \ {v}]
    BY <1>5 DEF Committed
  <2> QED
    BY <1>5, <2>1 DEF TypeOK, HolderInv, Migrating, Committed, Goto
<1>6. ASSUME NEW p \in Boots, Finish(p) \/ Die(p) \/ SessionEnds(p) PROVE HolderInv'
  BY <1>6 DEF TypeOK, HolderInv, Migrating, Finish, Unlock, Die, SessionEnds, Goto
<1> QED
  BY <1>1, <1>2, <1>3, <1>4, <1>5, <1>6 DEF Next

\* The advisory lock is never left with a boot that neither may go on nor has a
\* session to lose, whatever dies holding it (the deferred unlock of Migrate).
THEOREM LockAlwaysMovesOn == Spec => []LockMovesOn
<1>1. Init => HolderInv
  BY DEF Init, HolderInv
<1>2. LockInv /\ HolderInv /\ [Next]_vars => HolderInv'
  BY HolderSteps DEF LockInv
<1>3. LockInv /\ HolderInv => LockMovesOn
  <2> SUFFICES ASSUME LockInv, HolderInv, NEW p \in holder, p \notin gone PROVE MayGoOn(p)
    BY DEF LockMovesOn, MayGoOn
  <2>1. p \in Boots /\ pc[p] \in Migrating
    BY DEF LockInv, TypeOK, HolderInv
  <2>2. CASE pc[p] \in {"reading", "applying"}
    BY <2>2 DEF MayGoOn
  <2>3. CASE pc[p] = "executed"
    <3>1. pending[p] # {} /\ pending[p] \in SUBSET Nat /\ pending[p] \subseteq Versions
      BY <2>1, <2>3, VersionsAssumption DEF LockInv, TypeOK, HolderInv
    <3>2. \E v \in pending[p] : \A w \in pending[p] : v =< w
      BY <3>1, HasFirst
    <3> QED
      BY <2>3, <3>1, <3>2 DEF MayGoOn, Due
  <2>4. CASE pc[p] = "committing" /\ tx[p] # {}
    <3>1. PICK v \in tx[p] : Due(p, v)
      BY <2>1, <2>4 DEF LockInv, InStep
    <3>2. v \notin applied
      BY <2>1, <2>4, <3>1 DEF LockInv, InStep, Due
    <3> QED
      BY <2>4, <3>2 DEF MayGoOn
  <2>5. CASE pc[p] = "committing" /\ tx[p] = {}
    BY <2>1, <2>5 DEF LockInv, InStep, MayGoOn
  <2> QED
    BY <2>1, <2>2, <2>3, <2>4, <2>5 DEF Migrating
<1> QED
  BY <1>1, <1>2, <1>3, LockCorrect, PTL DEF Spec

=============================================================================
