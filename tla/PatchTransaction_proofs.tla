----------------------- MODULE PatchTransaction_proofs -----------------------
(***************************************************************************)
(* PatchTransaction for any transactions, payloads, vendor builds and any  *)
(* conduct of the updater: its types and RecoveryUnambiguous, then, each   *)
(* on top of the one before, TornPairIsFlagged, InjectedIsUninstallable    *)
(* and NoDowngrade, and without updates the refinement of AtomicPatch.     *)
(*                                                                         *)
(* No property is inductive alone.  Phase says what a running command may  *)
(* rely on: up to its journal (or its "restoring" manifest) that no        *)
(* recovery is pending, and from there on that its own journal is on disk. *)
(* Journals says that rolling a manifest back never makes it "restoring".  *)
(***************************************************************************)
EXTENDS PatchTransaction, FiniteSetTheorems, TLAPS

UndoSteps == {"undoTransaction", "checkUndoProduct", "undoProduct",
              "checkUndoBundle", "undoBundle", "rolledBack"}

OpSteps == Applying \cup UndoSteps \cup {"inspect"}

SeenSteps == Applying \cup UndoSteps \cup Rewriting
               \cup {"checkRestoreProduct", "undoRestore", "putBackBundle",
                     "undoRestoredProduct", "putBackProduct"}

RestoreSteps == Rewriting
                  \cup {"inspectRestore", "checkRestoreProduct", "undoRestore",
                        "putBackBundle", "undoRestoredProduct",
                        "putBackProduct"}

OneRecovery == /\ \A a, b \in active : a = b
               /\ \A s, t \in Restoring : s = t
               /\ active = {} \/ Restoring = {}

Journals == \A op \in active : /\ op.txnBefore.state \in {"prepared", "installed"}
                               /\ op.txnTarget.state = "installed"

Phase ==
  /\ pc \in {"create", "prepare"} => cmd.ver \in Versions
  /\ pc \in {"create", "prepare", "snapshot"} => active = {} /\ Restoring = {}
  /\ pc \in {"prepare", "snapshot"} \cup RestoreSteps
       => cmd.txn \in Txns /\ txns[cmd.txn] # None
  /\ pc = "prepare" => txns[cmd.txn].state \in {"prepared", "installed"}
  /\ pc = "snapshot" => txns[cmd.txn].state = "installed"
  /\ pc \in OpSteps => cmd.op \in active /\ cmd.txn = cmd.op.txn
  /\ pc \in SeenSteps => cmd.seen \in Pair
  /\ pc \in RestoreSteps => txns[cmd.txn].state = "restoring"

Ind == TypeOK /\ OneRecovery /\ Journals /\ Phase

-----------------------------------------------------------------------------
(* Records. *)

LEMMA Projections ==
  /\ \A p \in Pair : p.bundle \in Content /\ p.product \in Content
  /\ \A m \in Manifest : m.orig \in Pair
  /\ \A op \in Operation : /\ op.txn \in Txns
                            /\ op.before \in Pair /\ op.target \in Pair
                            /\ op.txnBefore \in Manifest
                            /\ op.txnTarget \in Manifest
BY DEF Pair, Manifest, Operation

LEMMA ContentTypes ==
  /\ \A c \in Content : c.ver \in Versions
  /\ \A v \in Versions : Original(v) \in Content
  /\ \A b, c \in Content : [bundle |-> b, product |-> c] \in Pair
BY DEF Content, Original, Pair

(***************************************************************************)
(* Steps that only move the command on, and steps that end it.             *)
(***************************************************************************)
LEMMA LeaveKeepsInd ==
  ASSUME Ind, Leave, UNCHANGED <<Disk, Environment>>
  PROVE  Ind'
<1>1. NoCommand \in Command /\ "idle" \in Steps
  BY DEF NoCommand, Command, Steps
<1>2. TypeOK' /\ OneRecovery' /\ Journals'
  BY <1>1 DEF Ind, TypeOK, OneRecovery, Journals, Leave, Disk, Environment,
              Restoring
<1>3. Phase'
  BY DEF Phase, Leave, OpSteps, SeenSteps, RestoreSteps, Applying, Rewriting,
         UndoSteps
<1> QED BY <1>2, <1>3 DEF Ind

\* A step that stays within the kinds of steps it belongs to.
Onward(next) == /\ next \in OpSteps => pc \in OpSteps
                /\ next \in SeenSteps => pc \in SeenSteps
                /\ next \in RestoreSteps => pc \in RestoreSteps
                /\ next \in Steps \ {"create", "prepare", "snapshot"}

LEMMA AdvanceKeepsInd ==
  ASSUME Ind, NEW next, Onward(next), Advance(next),
         UNCHANGED <<txns, active, Environment>>,
         bundle' \in Content, product' \in Content
  PROVE  Ind'
<1>1. TypeOK' /\ OneRecovery' /\ Journals'
  BY DEF Ind, TypeOK, OneRecovery, Journals, Advance, Environment, Restoring,
         Onward
<1>2. Phase'
  BY DEF Ind, Phase, Advance, Onward, Environment, Restoring
<1> QED BY <1>1, <1>2 DEF Ind

LEMMA BeginKeepsInd ==
  ASSUME Ind, Begin \/ Rerun
  PROVE  Ind'
<1> USE DEF Ind, TypeOK, Start, Disk, Environment
<1>1. product.ver \in Versions /\ NoCommand \in Command
  BY DEF Content, NoCommand, Command
<1>2. OneRecovery' /\ Journals'
  BY DEF Begin, Rerun, BeginInstall, BeginRefresh, BeginUninstall,
         BeginRecovery, BeginRestoreRecovery, OneRecovery, Journals, Restoring
<1>3. ASSUME NEW p \in Payloads, BeginInstall(p)
      PROVE  TypeOK' /\ Phase'
  <2>0. cmd' = [ver |-> product.ver, since |-> latest, txn |-> None,
                payload |-> p, op |-> None, seen |-> None]
    BY <1>3 DEF BeginInstall, NoCommand
  <2>1. cmd' \in Command /\ cmd'.ver \in Versions
    BY <1>1, <2>0 DEF Command
  <2> QED
    BY <1>3, <2>1 DEF BeginInstall, Pending, Phase, Steps, Restoring, OpSteps,
                      SeenSteps, RestoreSteps, Applying, Rewriting, UndoSteps
<1>4. ASSUME NEW p \in Payloads, BeginRefresh(p)
      PROVE  TypeOK' /\ Phase'
  <2>0. /\ bundle.txn \in Txns
        /\ cmd' = [ver |-> product.ver, since |-> latest, txn |-> bundle.txn,
                   payload |-> p, op |-> None, seen |-> None]
    BY <1>4 DEF BeginRefresh, Bound, NoCommand
  <2>1. /\ cmd' \in Command /\ cmd'.ver \in Versions
        /\ cmd'.txn = bundle.txn
    BY <1>1, <2>0 DEF Command
  <2> QED
    BY <1>4, <2>1 DEF BeginRefresh, Bound, Pending, Phase, Steps, Restoring,
                      OpSteps, SeenSteps, RestoreSteps, Applying, Rewriting,
                      UndoSteps
<1>5. ASSUME BeginUninstall
      PROVE  TypeOK' /\ Phase'
  <2>1. cmd' \in Command /\ cmd'.txn = bundle.txn
    <3>1. /\ bundle.txn \in Txns
          /\ cmd' = [ver |-> product.ver, since |-> latest, txn |-> bundle.txn,
                     payload |-> None, op |-> None, seen |-> None]
      BY <1>5 DEF BeginUninstall, Bound, NoCommand
    <3> QED BY <1>1, <3>1 DEF Command
  <2> QED
    BY <1>5, <2>1 DEF BeginUninstall, Bound, Pending, Phase, Steps, Restoring,
                      OpSteps, SeenSteps, RestoreSteps, Applying, Rewriting,
                      UndoSteps
<1>6. ASSUME BeginRecovery
      PROVE  TypeOK' /\ Phase'
  <2> PICK op \in active :
         Start("inspect", [NoCommand EXCEPT !.op = op, !.txn = op.txn])
    BY <1>6 DEF BeginRecovery
  <2>1. /\ cmd' \in Command /\ cmd'.op = op /\ cmd'.txn = op.txn
    <3>1. /\ op \in Operation /\ op.txn \in Txns
          /\ cmd' = [ver |-> product.ver, since |-> latest, txn |-> op.txn,
                     payload |-> None, op |-> op, seen |-> None]
      BY Projections DEF NoCommand
    <3> QED BY <1>1, <3>1 DEF Command
  <2> QED
    BY <2>1 DEF Phase, Steps, OpSteps, SeenSteps, RestoreSteps, Applying,
                Rewriting, UndoSteps
<1>7. ASSUME BeginRestoreRecovery
      PROVE  TypeOK' /\ Phase'
  <2> PICK t \in Restoring :
         Start("inspectRestore", [NoCommand EXCEPT !.txn = t])
    BY <1>7 DEF BeginRestoreRecovery
  <2>1. /\ cmd' \in Command /\ cmd'.txn = t
    <3>1. /\ t \in Txns
          /\ cmd' = [ver |-> product.ver, since |-> latest, txn |-> t,
                     payload |-> None, op |-> None, seen |-> None]
      BY DEF NoCommand, Restoring
    <3> QED BY <1>1, <3>1 DEF Command
  <2> QED
    BY <2>1 DEF Phase, Steps, OpSteps, SeenSteps, RestoreSteps, Applying,
                Rewriting, UndoSteps, Restoring
<1> QED BY <1>2, <1>3, <1>4, <1>5, <1>6, <1>7 DEF Begin, Rerun

(***************************************************************************)
(* Install and refresh.                                                    *)
(***************************************************************************)
LEMMA CreateKeepsInd ==
  ASSUME Ind, NEW t \in Txns, CreateTransaction(t)
  PROVE  Ind'
<1> DEFINE m == [state |-> "prepared", ver |-> cmd.ver, orig |-> Live,
                 patched |-> None]
<1> USE DEF CreateTransaction
<1>1. m \in Manifest
  BY DEF Ind, TypeOK, Phase, Live, Pair, Manifest
<1>2. txns' = [txns EXCEPT ![t] = m]
  OBVIOUS
<1>3. Restoring' = {} /\ active' = {} /\ Restoring = {}
  BY <1>2 DEF Ind, TypeOK, Phase, Restoring
<1>4. cmd' \in Command
  <2>1. CASE Live = Both(Original(cmd.ver))
    BY <2>1 DEF Ind, TypeOK, Command
  <2>2. CASE Live # Both(Original(cmd.ver))
    BY <2>2 DEF Leave, NoCommand, Command
  <2> QED BY <2>1, <2>2
<1>5. TypeOK' /\ OneRecovery' /\ Journals'
  BY <1>1, <1>2, <1>3, <1>4
     DEF Ind, TypeOK, OneRecovery, Journals, Environment, Leave, Steps
<1>6. Phase'
  <2>1. CASE Live = Both(Original(cmd.ver))
    <3>1. /\ pc' = "prepare" /\ cmd'.txn = t /\ cmd'.ver = cmd.ver
          /\ txns'[t] = m /\ m # None /\ m.state = "prepared"
      BY <1>1, <1>2, <2>1, NoneAssumption DEF Ind, TypeOK, Command
    <3> QED BY <1>3, <3>1 DEF Ind, Phase, OpSteps, SeenSteps, RestoreSteps,
                              Applying, Rewriting, UndoSteps
  <2>2. CASE Live # Both(Original(cmd.ver))
    BY <2>2 DEF Leave, Phase, OpSteps, SeenSteps, RestoreSteps, Applying,
                Rewriting, UndoSteps
  <2> QED BY <2>1, <2>2
<1> QED BY <1>5, <1>6 DEF Ind

LEMMA PrepareKeepsInd ==
  ASSUME Ind, PrepareOperation
  PROVE  Ind'
<1> DEFINE m == txns[cmd.txn]
           op == OperationOf(m)
<1> USE DEF PrepareOperation
<1>1. CASE Live # op.before
  <2>1. Leave /\ UNCHANGED <<Disk, Environment>>
    BY <1>1 DEF Disk
  <2> QED BY <2>1, LeaveKeepsInd
<1>2. CASE Live = op.before
  <2>1. /\ pc = "prepare" /\ m \in Manifest
        /\ m.state \in {"prepared", "installed"}
        /\ cmd.txn \in Txns /\ cmd.ver \in Versions
        /\ cmd.payload \in Payloads \cup {None}
        /\ active = {} /\ Restoring = {}
    BY DEF Ind, TypeOK, Phase, Command
  <2>2. op.before \in Pair
    BY <1>2, ContentTypes DEF Live, Ind, TypeOK
  <2>3. op.target \in Pair
    <3>1. BeforeOf(m) \in Pair
      BY <2>2 DEF OperationOf
    <3>2. ASSUME NEW c \in Content
          PROVE  Inject(c) \in Content
      BY <2>1 DEF Inject, Content
    <3> QED BY <3>1, <3>2, Projections, ContentTypes DEF OperationOf
  <2>4. op.txnTarget \in Manifest /\ op.txnTarget.state = "installed"
    BY <2>1, <2>3 DEF OperationOf, Manifest
  <2>5. /\ op \in Operation /\ op.txn = cmd.txn
        /\ op.txnBefore = m
    BY <2>1, <2>2, <2>3, <2>4 DEF OperationOf, Operation
  <2>6. /\ cmd' \in Command /\ cmd'.op = op /\ cmd'.txn = op.txn
        /\ cmd'.seen = op.before
    <3>1. cmd' = [cmd EXCEPT !.op = op, !.seen = op.before]
      BY <1>2
    <3> QED BY <2>2, <2>5, <3>1 DEF Ind, TypeOK, Command
  <2>7. active' = {op} /\ pc' = "checkBundle" /\ Restoring' = {}
    BY <1>2, <2>1 DEF Restoring
  <2>8. TypeOK' /\ OneRecovery' /\ Journals'
    BY <2>1, <2>4, <2>5, <2>6, <2>7
       DEF Ind, TypeOK, OneRecovery, Journals, Environment, Steps, Applying
  <2>9. Phase'
    BY <2>2, <2>6, <2>7 DEF Phase, OpSteps, SeenSteps, RestoreSteps, Applying,
                            Rewriting, UndoSteps
  <2> QED BY <2>8, <2>9 DEF Ind
<1> QED BY <1>1, <1>2

LEMMA FinalizeKeepsInd ==
  ASSUME Ind, Finalize
  PROVE  Ind'
<1> USE DEF Finalize
<1>1. /\ pc = "finalize" /\ cmd.op \in active /\ cmd.op \in Operation
      /\ cmd.txn = cmd.op.txn /\ cmd.txn \in Txns
      /\ cmd.op.txnTarget \in Manifest
      /\ cmd.op.txnTarget.state = "installed"
  BY Projections DEF Ind, TypeOK, Phase, Journals, OpSteps, Applying
<1>2. CASE Live = cmd.op.target /\ txns[cmd.txn] = cmd.op.txnBefore
  <2>1. /\ txns' = [txns EXCEPT ![cmd.txn] = cmd.op.txnTarget]
        /\ UNCHANGED <<bundle, product, active, cmd, Environment>>
        /\ pc' = "complete"
    BY <1>2 DEF Advance
  <2>2. Restoring' \subseteq Restoring
    BY <1>1, <2>1 DEF Ind, TypeOK, Restoring
  <2>3. TypeOK' /\ OneRecovery' /\ Journals'
    BY <1>1, <2>1, <2>2
       DEF Ind, TypeOK, OneRecovery, Journals, Environment, Steps, Applying
  <2>4. Phase'
    BY <1>1, <2>1 DEF Ind, Phase, OpSteps, SeenSteps, RestoreSteps, Applying,
                      Rewriting, UndoSteps
  <2> QED BY <2>3, <2>4 DEF Ind
<1>3. CASE ~(Live = cmd.op.target /\ txns[cmd.txn] = cmd.op.txnBefore)
  <2>1. Advance("inspect") /\ UNCHANGED <<bundle, product, txns, active, Environment>>
    BY <1>3 DEF RollBack
  <2>2. Onward("inspect")
    BY <1>1 DEF Onward, OpSteps, SeenSteps, RestoreSteps, Applying, Rewriting,
                UndoSteps, Steps
  <2> QED BY <2>1, <2>2, AdvanceKeepsInd DEF Ind, TypeOK
<1> QED BY <1>2, <1>3

\* An operation whose journal is retired leaves nothing pending.
LEMMA RetireKeepsInd ==
  ASSUME Ind, pc \in OpSteps, Leave, active' = active \ {cmd.op},
         UNCHANGED <<bundle, product, txns, Environment>>
  PROVE  Ind'
<1>1. active' \subseteq active /\ NoCommand \in Command /\ "idle" \in Steps
  BY DEF NoCommand, Command, Steps
<1>2. TypeOK' /\ OneRecovery' /\ Journals'
  BY <1>1 DEF Ind, TypeOK, OneRecovery, Journals, Leave, Environment, Restoring
<1>3. Phase'
  BY DEF Phase, Leave, OpSteps, SeenSteps, RestoreSteps, Applying, Rewriting,
         UndoSteps
<1> QED BY <1>2, <1>3 DEF Ind

LEMMA CompleteKeepsInd ==
  ASSUME Ind, CompleteOperation
  PROVE  Ind'
<1> USE DEF CompleteOperation
<1>1. pc \in OpSteps /\ pc = "complete"
  BY DEF OpSteps, Applying
<1>2. CASE Live = cmd.op.target /\ txns[cmd.txn] = cmd.op.txnTarget
  BY <1>1, <1>2, RetireKeepsInd
<1>3. CASE ~(Live = cmd.op.target /\ txns[cmd.txn] = cmd.op.txnTarget)
  <2>1. Advance("inspect") /\ UNCHANGED <<bundle, product, txns, active, Environment>>
    BY <1>3 DEF RollBack
  <2>2. Onward("inspect")
    BY <1>1 DEF Onward, OpSteps, SeenSteps, RestoreSteps, Applying, Rewriting,
                UndoSteps, Steps
  <2> QED BY <2>1, <2>2, AdvanceKeepsInd DEF Ind, TypeOK
<1> QED BY <1>2, <1>3

\* Steps that note the live pair they found, as Inspect and InspectRestore do.
LEMMA NoteKeepsInd ==
  ASSUME Ind, NEW next, cmd' = [cmd EXCEPT !.seen = Live], pc' = next,
         UNCHANGED <<Disk, Environment>>,
         \/ pc = "inspect" /\ next = "undoTransaction"
         \/ pc = "inspectRestore" /\ next = "checkRestoreProduct"
  PROVE  Ind'
<1>1. Live \in Pair
  BY ContentTypes DEF Live, Ind, TypeOK
<1>2. /\ cmd' \in Command /\ cmd'.seen = Live
      /\ cmd'.op = cmd.op /\ cmd'.txn = cmd.txn
  BY <1>1 DEF Ind, TypeOK, Command
<1>3. TypeOK' /\ OneRecovery' /\ Journals'
  BY <1>2 DEF Ind, TypeOK, OneRecovery, Journals, Disk, Environment, Restoring,
              Steps
<1>4. Phase'
  BY <1>1, <1>2 DEF Ind, Phase, Disk, Restoring, OpSteps, SeenSteps,
                    RestoreSteps, Applying, Rewriting, UndoSteps
<1> QED BY <1>3, <1>4 DEF Ind

LEMMA UndoTransactionKeepsInd ==
  ASSUME Ind, UndoTransaction
  PROVE  Ind'
<1> USE DEF UndoTransaction
<1>1. /\ pc = "undoTransaction" /\ cmd.op \in active /\ cmd.txn = cmd.op.txn
      /\ cmd.txn \in Txns /\ cmd.op.txnBefore \in Manifest
      /\ cmd.op.txnBefore.state \in {"prepared", "installed"}
      /\ cmd.seen \in Pair
  BY Projections DEF Ind, TypeOK, Phase, Journals, OpSteps, SeenSteps, UndoSteps
<1>2. /\ txns' = [txns EXCEPT ![cmd.txn] = cmd.op.txnBefore]
      /\ UNCHANGED <<bundle, product, active, cmd, Environment>>
      /\ pc' = "checkUndoProduct"
  BY DEF Advance
<1>3. Restoring' \subseteq Restoring
  BY <1>1, <1>2 DEF Ind, TypeOK, Restoring
<1>4. TypeOK' /\ OneRecovery' /\ Journals'
  BY <1>1, <1>2, <1>3 DEF Ind, TypeOK, OneRecovery, Journals, Environment, Steps
<1>5. Phase'
  BY <1>1, <1>2 DEF Ind, Phase, OpSteps, SeenSteps, RestoreSteps, Applying,
                    Rewriting, UndoSteps
<1> QED BY <1>4, <1>5 DEF Ind

LEMMA SnapshotKeepsInd ==
  ASSUME Ind, SnapshotForRestore
  PROVE  Ind'
<1> USE DEF SnapshotForRestore
<1> DEFINE m == [txns[cmd.txn] EXCEPT !.state = "restoring"]
<1>1. /\ cmd.txn \in Txns /\ txns[cmd.txn] \in Manifest
      /\ active = {} /\ Restoring = {}
  BY DEF Ind, TypeOK, Phase
<1>2. m \in Manifest /\ m.state = "restoring"
  BY <1>1 DEF Manifest
<1>3. txns' = [txns EXCEPT ![cmd.txn] = m]
  OBVIOUS
<1>4. Restoring' = {cmd.txn}
  BY <1>1, <1>2, <1>3, NoneAssumption DEF Ind, TypeOK, Restoring
<1>5. /\ cmd' \in Command /\ cmd'.seen = Live /\ cmd'.txn = cmd.txn
      /\ Live \in Pair
  BY ContentTypes DEF Ind, TypeOK, Command, Live
<1>6. TypeOK' /\ OneRecovery' /\ Journals'
  BY <1>1, <1>2, <1>3, <1>4, <1>5
     DEF Ind, TypeOK, OneRecovery, Journals, Environment, Steps
<1>7. Phase'
  BY <1>1, <1>2, <1>3, <1>5, NoneAssumption
     DEF Ind, TypeOK, Phase, OpSteps, SeenSteps, RestoreSteps, Applying,
         Rewriting, UndoSteps
<1> QED BY <1>6, <1>7 DEF Ind

LEMMA FinishRestoreKeepsInd ==
  ASSUME Ind, FinishRestore
  PROVE  Ind'
<1> USE DEF FinishRestore
<1>1. /\ pc = "finishRestore" /\ cmd.txn \in Txns
      /\ txns[cmd.txn] \in Manifest
  BY DEF Ind, TypeOK, Phase, RestoreSteps, Rewriting
<1>2. CASE txns' = [txns EXCEPT ![cmd.txn].state = "restored"] /\ Leave
  <2> DEFINE m == [txns[cmd.txn] EXCEPT !.state = "restored"]
  <2>1. /\ m \in Manifest /\ m.state = "restored"
        /\ txns' = [txns EXCEPT ![cmd.txn] = m]
    BY <1>1, <1>2 DEF Manifest
  <2>2. Restoring' \subseteq Restoring
    BY <1>1, <2>1 DEF Ind, TypeOK, Restoring
  <2>3. NoCommand \in Command /\ "idle" \in Steps
    BY DEF NoCommand, Command, Steps
  <2>4. TypeOK' /\ OneRecovery' /\ Journals'
    BY <1>1, <1>2, <2>1, <2>2, <2>3
       DEF Ind, TypeOK, OneRecovery, Journals, Environment, Leave
  <2>5. Phase'
    BY <1>2 DEF Phase, Leave, OpSteps, SeenSteps, RestoreSteps, Applying,
                Rewriting, UndoSteps
  <2> QED BY <2>4, <2>5 DEF Ind
<1>3. CASE Advance("undoRestore") /\ UNCHANGED txns
  <2>1. Onward("undoRestore")
    BY <1>1 DEF Onward, OpSteps, SeenSteps, RestoreSteps, Applying, Rewriting,
                UndoSteps, Steps
  <2> QED BY <1>3, <2>1, AdvanceKeepsInd DEF Ind, TypeOK
<1>4. CASE Leave /\ UNCHANGED txns
  BY <1>4, LeaveKeepsInd DEF Disk
<1> QED BY <1>2, <1>3, <1>4

(***************************************************************************)
(* The two halves of a conditional write.                                  *)
(***************************************************************************)
LEMMA CheckKeepsInd ==
  ASSUME Ind, NEW next, NEW other,
         UNCHANGED <<Disk, Environment>>,
         Onward(next), Onward(other),
         \/ Advance(next)
         \/ Advance(other)
         \/ Leave
  PROVE  Ind'
<1>1. CASE Advance(next)
  BY <1>1, AdvanceKeepsInd DEF Ind, TypeOK, Disk
<1>2. CASE Advance(other)
  BY <1>2, AdvanceKeepsInd DEF Ind, TypeOK, Disk
<1>3. CASE Leave
  BY <1>3, LeaveKeepsInd
<1> QED BY <1>1, <1>2, <1>3

LEMMA ChecksKeepInd ==
  ASSUME Ind,
         \/ CheckBundle \/ CheckProduct \/ CheckUndoProduct \/ CheckUndoBundle
         \/ CheckRestoreProduct \/ CheckRestoreBundle
         \/ UndoRestore \/ UndoRestoredProduct
  PROVE  Ind'
<1> USE DEF Check, RollBack
<1>1. CASE CheckBundle
  <2>1. Onward("writeBundle") /\ Onward("inspect")
    BY <1>1 DEF CheckBundle, Onward, OpSteps, SeenSteps, RestoreSteps, Applying,
                Rewriting, UndoSteps, Steps
  <2> QED BY <1>1, <2>1, CheckKeepsInd DEF CheckBundle
<1>2. CASE CheckProduct
  <2>1. Onward("writeProduct") /\ Onward("inspect")
    BY <1>2 DEF CheckProduct, Onward, OpSteps, SeenSteps, RestoreSteps, Applying,
                Rewriting, UndoSteps, Steps
  <2> QED BY <1>2, <2>1, CheckKeepsInd DEF CheckProduct
<1>3. CASE CheckUndoProduct
  <2>1. Onward("undoProduct") /\ Onward("undoProduct")
    BY <1>3 DEF CheckUndoProduct, Onward, OpSteps, SeenSteps, RestoreSteps, Applying,
                Rewriting, UndoSteps, Steps
  <2> QED BY <1>3, <2>1, CheckKeepsInd DEF CheckUndoProduct
<1>4. CASE CheckUndoBundle
  <2>1. Onward("undoBundle") /\ Onward("undoBundle")
    BY <1>4 DEF CheckUndoBundle, Onward, OpSteps, SeenSteps, RestoreSteps, Applying,
                Rewriting, UndoSteps, Steps
  <2> QED BY <1>4, <2>1, CheckKeepsInd DEF CheckUndoBundle
<1>5. CASE CheckRestoreProduct
  <2>1. Onward("restoreProduct") /\ Onward("restoreProduct")
    BY <1>5 DEF CheckRestoreProduct, Onward, OpSteps, SeenSteps, RestoreSteps, Applying,
                Rewriting, UndoSteps, Steps
  <2> QED BY <1>5, <2>1, CheckKeepsInd DEF CheckRestoreProduct
<1>6. CASE CheckRestoreBundle
  <2>1. Onward("restoreBundle") /\ Onward("undoRestore")
    BY <1>6 DEF CheckRestoreBundle, Onward, OpSteps, SeenSteps, RestoreSteps, Applying,
                Rewriting, UndoSteps, Steps
  <2> QED BY <1>6, <2>1, CheckKeepsInd DEF CheckRestoreBundle
<1>7. CASE UndoRestore
  <2>1. Onward("putBackBundle") /\ Onward("undoRestoredProduct")
    BY <1>7 DEF UndoRestore, Onward, OpSteps, SeenSteps, RestoreSteps, Applying,
                Rewriting, UndoSteps, Steps
  <2> QED BY <1>7, <2>1, CheckKeepsInd DEF UndoRestore
<1>8. CASE UndoRestoredProduct
  <2>1. Onward("putBackProduct") /\ Onward("putBackProduct")
    BY <1>8 DEF UndoRestoredProduct, Onward, OpSteps, SeenSteps, RestoreSteps, Applying,
                Rewriting, UndoSteps, Steps
  <2> QED BY <1>8, <2>1, CheckKeepsInd DEF UndoRestoredProduct
<1> QED BY <1>1, <1>2, <1>3, <1>4, <1>5, <1>6, <1>7, <1>8

\* What a command writes into the two files is of their type.
LEMMA WhatIsWritten ==
  ASSUME Ind
  PROVE  /\ pc \in OpSteps => /\ cmd.op.before.bundle \in Content
                              /\ cmd.op.before.product \in Content
                              /\ cmd.op.target.bundle \in Content
                              /\ cmd.op.target.product \in Content
         /\ pc \in RestoreSteps => Orig.bundle \in Content /\ Orig.product \in Content
         /\ pc \in SeenSteps => cmd.seen.bundle \in Content /\ cmd.seen.product \in Content
<1>1. pc \in OpSteps => cmd.op \in Operation
  BY DEF Ind, TypeOK, Phase
<1>2. pc \in RestoreSteps => txns[cmd.txn] \in Manifest
  BY DEF Ind, TypeOK, Phase
<1>3. pc \in SeenSteps => cmd.seen \in Pair
  BY DEF Ind, Phase
<1> QED BY <1>1, <1>2, <1>3, Projections DEF Orig

LEMMA WritesKeepInd ==
  ASSUME Ind,
         \/ WriteBundle \/ WriteProduct \/ UndoProduct \/ UndoBundle
         \/ RestoreProduct \/ RestoreBundle \/ PutBackBundle
  PROVE  Ind'
<1> USE DEF PutBundle, PutProduct
<1>1. CASE WriteBundle
  <2>1. Onward("checkProduct") /\ cmd.op.target.bundle \in Content
    BY <1>1, WhatIsWritten DEF WriteBundle, Onward, OpSteps, SeenSteps, RestoreSteps, Applying,
                Rewriting, UndoSteps, Steps
  <2> QED BY <1>1, <2>1, AdvanceKeepsInd DEF WriteBundle, Ind, TypeOK
<1>2. CASE WriteProduct
  <2>1. Onward("finalize") /\ cmd.op.target.product \in Content
    BY <1>2, WhatIsWritten DEF WriteProduct, Onward, OpSteps, SeenSteps, RestoreSteps, Applying,
                Rewriting, UndoSteps, Steps
  <2> QED BY <1>2, <2>1, AdvanceKeepsInd DEF WriteProduct, Ind, TypeOK
<1>3. CASE UndoProduct
  <2>1. Onward("checkUndoBundle") /\ cmd.op.before.product \in Content
    BY <1>3, WhatIsWritten DEF UndoProduct, Onward, OpSteps, SeenSteps, RestoreSteps, Applying,
                Rewriting, UndoSteps, Steps
  <2> QED BY <1>3, <2>1, AdvanceKeepsInd DEF UndoProduct, Ind, TypeOK
<1>4. CASE UndoBundle
  <2>1. Onward("rolledBack") /\ cmd.op.before.bundle \in Content
    BY <1>4, WhatIsWritten DEF UndoBundle, Onward, OpSteps, SeenSteps, RestoreSteps, Applying,
                Rewriting, UndoSteps, Steps
  <2> QED BY <1>4, <2>1, AdvanceKeepsInd DEF UndoBundle, Ind, TypeOK
<1>5. CASE RestoreProduct
  <2>1. Onward("checkRestoreBundle") /\ Orig.product \in Content
    BY <1>5, WhatIsWritten DEF RestoreProduct, Onward, OpSteps, SeenSteps, RestoreSteps, Applying,
                Rewriting, UndoSteps, Steps
  <2> QED BY <1>5, <2>1, AdvanceKeepsInd DEF RestoreProduct, Ind, TypeOK
<1>6. CASE RestoreBundle
  <2>1. Onward("finishRestore") /\ Orig.bundle \in Content
    BY <1>6, WhatIsWritten DEF RestoreBundle, Onward, OpSteps, SeenSteps, RestoreSteps, Applying,
                Rewriting, UndoSteps, Steps
  <2> QED BY <1>6, <2>1, AdvanceKeepsInd DEF RestoreBundle, Ind, TypeOK
<1>7. CASE PutBackBundle
  <2>1. Onward("undoRestoredProduct") /\ cmd.seen.bundle \in Content
    BY <1>7, WhatIsWritten DEF PutBackBundle, Onward, OpSteps, SeenSteps, RestoreSteps, Applying,
                Rewriting, UndoSteps, Steps
  <2> QED BY <1>7, <2>1, AdvanceKeepsInd DEF PutBackBundle, Ind, TypeOK
<1> QED BY <1>1, <1>2, <1>3, <1>4, <1>5, <1>6, <1>7

LEMMA PutBackProductKeepsInd ==
  ASSUME Ind, PutBackProduct
  PROVE  Ind'
<1> USE DEF PutBackProduct
<1>1. cmd.seen.product \in Content
  BY WhatIsWritten DEF SeenSteps
<1>2. NoCommand \in Command /\ "idle" \in Steps
  BY DEF NoCommand, Command, Steps
<1>3. TypeOK' /\ OneRecovery' /\ Journals'
  BY <1>1, <1>2 DEF Ind, TypeOK, OneRecovery, Journals, Environment, Leave,
                    Restoring
<1>4. Phase'
  BY DEF Phase, Leave, OpSteps, SeenSteps, RestoreSteps, Applying, Rewriting,
         UndoSteps
<1> QED BY <1>3, <1>4 DEF Ind

(***************************************************************************)
(* The environment.                                                        *)
(***************************************************************************)
LEMMA InterruptionsKeepInd ==
  ASSUME Ind, Interrupted
  PROVE  Ind'
<1>1. CASE Crash
  BY <1>1, LeaveKeepsInd DEF Crash
<1>2. CASE StepFails /\ pc \in Applying /\ RollBack
  <2>1. Onward("inspect")
    BY <1>2 DEF Onward, OpSteps, SeenSteps, RestoreSteps, Applying, Rewriting,
                UndoSteps, Steps
  <2> QED BY <1>2, <2>1, AdvanceKeepsInd DEF StepFails, RollBack, Disk, Ind, TypeOK
<1>3. CASE StepFails /\ pc \in Rewriting /\ Advance("undoRestore")
  <2>1. Onward("undoRestore")
    BY <1>3 DEF Onward, OpSteps, SeenSteps, RestoreSteps, Applying, Rewriting,
                UndoSteps, Steps
  <2> QED BY <1>3, <2>1, AdvanceKeepsInd DEF StepFails, Disk, Ind, TypeOK
<1> QED BY <1>1, <1>2, <1>3 DEF Interrupted, StepFails

LEMMA EnvironmentKeepsInd ==
  ASSUME Ind, Update \/ Settle
  PROVE  Ind'
<1> USE DEF Ind, TypeOK, Disk
<1>1. latest \in 0 .. MaxVersion /\ MaxVersion \in Nat
  BY MaxVersionAssumption DEF Versions
<1>2. Original(latest) \in Content
  BY ContentTypes
<1>3. UNCHANGED <<txns, active, pc, cmd>>
  BY DEF Update, Settle, StartUpdate, UpdateFile, UpdateStops
<1>4. OneRecovery' /\ Journals' /\ Phase'
  BY <1>3 DEF OneRecovery, Journals, Phase, Restoring
<1>5. latest' \in Versions
  BY <1>1 DEF Update, Settle, StartUpdate, UpdateFile, UpdateStops, Versions
<1>6. todo' \subseteq {"bundle", "product"}
  BY DEF Update, Settle, StartUpdate, UpdateFile, UpdateStops
<1>7. calm' \in BOOLEAN
  BY DEF Update, Settle, StartUpdate, UpdateFile, UpdateStops
<1>8. bundle' \in Content /\ product' \in Content
  BY <1>2 DEF Update, Settle, StartUpdate, UpdateFile, UpdateStops
<1> QED BY <1>3, <1>4, <1>5, <1>6, <1>7, <1>8

-----------------------------------------------------------------------------
LEMMA IndInvariant == Spec => []Ind
<1>1. Init => Ind
  <2> SUFFICES ASSUME Init PROVE Ind
    OBVIOUS
  <2>1. 0 \in Versions
    BY MaxVersionAssumption DEF Versions
  <2>2. TypeOK
    BY <2>1, ContentTypes DEF Init, TypeOK, Steps, NoCommand, Command
  <2>3. OneRecovery /\ Journals /\ Phase
    BY DEF Init, OneRecovery, Journals, Phase, Restoring, OpSteps, SeenSteps,
           RestoreSteps, Applying, Rewriting, UndoSteps
  <2> QED BY <2>2, <2>3 DEF Ind
<1>2. Ind /\ [Next]_vars => Ind'
  <2> SUFFICES ASSUME Ind, [Next]_vars PROVE Ind'
    OBVIOUS
  <2>1. CASE Begin \/ Rerun
    BY <2>1, BeginKeepsInd
  <2>2. CASE Patch
    BY <2>2, CreateKeepsInd, PrepareKeepsInd, ChecksKeepInd, WritesKeepInd,
       FinalizeKeepsInd, CompleteKeepsInd DEF Patch
  <2>3. CASE Undo
    <3>1. CASE Inspect
      BY <3>1, NoteKeepsInd, LeaveKeepsInd DEF Inspect
    <3>2. CASE RolledBack
      <4>1. CASE active' = active
        BY <3>2, <4>1, LeaveKeepsInd DEF RolledBack, Disk
      <4>2. CASE active' = active \ {cmd.op}
        BY <3>2, <4>2, RetireKeepsInd DEF RolledBack, OpSteps, UndoSteps
      <4> QED BY <3>2, <4>1, <4>2 DEF RolledBack
    <3> QED BY <2>3, <3>1, <3>2, UndoTransactionKeepsInd, ChecksKeepInd,
               WritesKeepInd DEF Undo
  <2>4. CASE Restore
    <3>1. CASE InspectRestore
      BY <3>1, NoteKeepsInd, LeaveKeepsInd DEF InspectRestore
    <3> QED BY <2>4, <3>1, SnapshotKeepsInd, FinishRestoreKeepsInd,
               ChecksKeepInd, WritesKeepInd, PutBackProductKeepsInd DEF Restore
  <2>5. CASE Interrupted
    BY <2>5, InterruptionsKeepInd
  <2>6. CASE Settle \/ Update
    BY <2>6, EnvironmentKeepsInd
  <2>7. CASE UNCHANGED vars
    BY <2>7 DEF vars, Ind, TypeOK, OneRecovery, Journals, Phase, Restoring
  <2> QED BY <2>1, <2>2, <2>3, <2>4, <2>5, <2>6, <2>7 DEF Next
<1> QED BY <1>1, <1>2, PTL DEF Spec

\* Every variable keeps its type through every command, crash and update.
THEOREM TypeCorrect == Spec => []TypeOK
<1>1. Ind => TypeOK
  BY DEF Ind
<1> QED BY <1>1, IndInvariant, PTL

\* However commands, crashes and updates interleave, at most one recovery is
\* ever pending, so the commands that look for it never find two
\* (find_active_operation, find_restoring_transaction).
THEOREM RecoveryIsUnambiguous == Spec => []RecoveryUnambiguous
<1>1. Ind => RecoveryUnambiguous
  <2> SUFFICES ASSUME Ind PROVE RecoveryUnambiguous
    OBVIOUS
  <2>1. ASSUME NEW S, \A a, b \in S : a = b
        PROVE  Cardinality(S) \in {0, 1} /\ (S = {} => Cardinality(S) = 0)
    <3>1. CASE S = {}
      BY <3>1, FS_EmptySet
    <3>2. CASE S # {}
      <4> PICK x \in S : TRUE
        BY <3>2
      <4>1. S = {x}
        BY <2>1
      <4> QED BY <3>2, <4>1, FS_Singleton
    <3> QED BY <3>1, <3>2
  <2>2. Cardinality(active) \in {0, 1} /\ (active = {} => Cardinality(active) = 0)
    BY <2>1 DEF Ind, OneRecovery
  <2>3. Cardinality(Restoring) \in {0, 1} /\ (Restoring = {} => Cardinality(Restoring) = 0)
    BY <2>1 DEF Ind, OneRecovery
  <2> QED BY <2>2, <2>3 DEF Ind, OneRecovery, RecoveryUnambiguous
<1> QED BY <1>1, IndInvariant, PTL

-----------------------------------------------------------------------------
(***************************************************************************)
(* TornPairIsFlagged: the two IDE files of one build never disagree        *)
(* without a journal or a manifest on disk that says so.                   *)
(*                                                                         *)
(* The argument has two halves.  A recovery ends only when the live pair   *)
(* is one that some record on disk holds, and such pairs always match      *)
(* (Records).  The updater, on the other hand, writes one file at a time   *)
(* and tells nobody: while it runs, nothing the patcher holds or has put   *)
(* in place bears the new build's version, except that build's own files   *)
(* (Held), so a half-updated pair is never of one build.                   *)
(***************************************************************************)
Matched(p) == p.bundle = p.product

Held(c) == /\ c.ver <= latest
           /\ todo # {} /\ c.ver = latest => c = Original(latest)

HeldPair(p) == Held(p.bundle) /\ Held(p.product)

GoodManifest(m) ==
  /\ HeldPair(m.orig)
  /\ m.patched \in Pair => HeldPair(m.patched)
  /\ m.state # "prepared" => /\ Matched(m.orig)
                             /\ m.patched \in Pair /\ Matched(m.patched)

GoodOperation(op) ==
  /\ Matched(op.before) /\ HeldPair(op.before)
  /\ Matched(op.target) /\ HeldPair(op.target)
  /\ GoodManifest(op.txnBefore) /\ GoodManifest(op.txnTarget)

\* The transaction an operation is about to be prepared for.
ReadyManifest(m) == /\ Matched(m.orig)
                    /\ Matched(BeforeOf(m))
                    /\ BeforeOf(m).bundle.ver = cmd.ver

Records ==
  /\ Held(bundle) /\ Held(product)
  /\ \A t \in Txns : txns[t] # None => GoodManifest(txns[t])
  /\ \A op \in active : GoodOperation(op)

Memory ==
  /\ pc \in SeenSteps => HeldPair(cmd.seen)
  /\ pc \in {"create", "prepare"} => /\ cmd.ver <= latest
                                     /\ todo # {} => cmd.ver < latest
  /\ pc = "prepare" => ReadyManifest(txns[cmd.txn])

PairInv == Records /\ Memory /\ TornPairIsFlagged

-----------------------------------------------------------------------------
(***************************************************************************)
(* Steps that leave the records on disk alone.                             *)
(***************************************************************************)
LEMMA HeldFrame ==
  ASSUME UNCHANGED Environment
  PROVE  /\ \A c : Held(c) => Held(c)'
         /\ \A p : HeldPair(p) => HeldPair(p)'
         /\ \A m : GoodManifest(m) => GoodManifest(m)'
         /\ \A op : GoodOperation(op) => GoodOperation(op)'
<1>1. \A c : Held(c) => Held(c)'
  BY DEF Held, Environment
<1>2. \A p : HeldPair(p) => HeldPair(p)'
  BY <1>1 DEF HeldPair
<1>3. \A m : GoodManifest(m) => GoodManifest(m)'
  BY <1>2 DEF GoodManifest, Matched
<1> QED BY <1>1, <1>2, <1>3 DEF GoodOperation, Matched

LEMMA FilesKeepRecords ==
  ASSUME PairInv, UNCHANGED <<txns, active, Environment>>,
         Held(bundle'), Held(product'),
         Pending \/ UNCHANGED <<bundle, product>>
  PROVE  Records' /\ TornPairIsFlagged'
<1>1. Held(bundle)' /\ Held(product)'
  BY DEF Held, Environment
<1>2. /\ \A t \in Txns : txns'[t] # None => GoodManifest(txns[t])'
      /\ \A op \in active' : GoodOperation(op)'
  BY HeldFrame DEF PairInv, Records
<1>3. Records'
  BY <1>1, <1>2 DEF Records
<1>4. TornPairIsFlagged'
  BY DEF PairInv, TornPairIsFlagged, Pending, Restoring
<1> QED BY <1>3, <1>4

LEMMA LeaveKeepsPair ==
  ASSUME PairInv, Leave, UNCHANGED <<Disk, Environment>>
  PROVE  PairInv'
<1>1. Records' /\ TornPairIsFlagged'
  BY FilesKeepRecords DEF Disk, PairInv, Records
<1>2. Memory'
  BY DEF Memory, Leave, SeenSteps, Applying, Rewriting, UndoSteps
<1> QED BY <1>1, <1>2 DEF PairInv

LEMMA AdvanceKeepsPair ==
  ASSUME PairInv, NEW next, Onward(next), Advance(next),
         UNCHANGED <<txns, active, Environment>>,
         Held(bundle'), Held(product'),
         Pending \/ UNCHANGED <<bundle, product>>
  PROVE  PairInv'
<1>1. Records' /\ TornPairIsFlagged'
  BY FilesKeepRecords
<1>2. Memory'
  BY HeldFrame DEF PairInv, Memory, Onward, Advance
<1> QED BY <1>1, <1>2 DEF PairInv

LEMMA BeginKeepsPair ==
  ASSUME Ind, PairInv, Begin \/ Rerun
  PROVE  PairInv'
<1>1. /\ UNCHANGED <<Disk, Environment>> /\ todo = {}
      /\ pc' \in {"create", "prepare", "snapshot", "inspect", "inspectRestore"}
      /\ cmd'.ver = product.ver
  <2>1. ASSUME NEW next, NEW c \in Command, Start(next, c)
        PROVE  /\ UNCHANGED <<Disk, Environment>> /\ todo = {} /\ pc' = next
               /\ cmd'.ver = product.ver
    BY <2>1 DEF Start, Command
  <2>2. ASSUME NEW p \in Payloads, BeginInstall(p)
        PROVE  <1>1!:
    <3>1. [NoCommand EXCEPT !.payload = p] \in Command
      BY DEF NoCommand, Command
    <3> QED BY <2>1, <2>2, <3>1 DEF BeginInstall
  <2>3. ASSUME NEW p \in Payloads, BeginRefresh(p)
        PROVE  <1>1!:
    <3>1. [NoCommand EXCEPT !.payload = p, !.txn = bundle.txn] \in Command
      BY <2>3 DEF NoCommand, Command, BeginRefresh, Bound
    <3> QED BY <2>1, <2>3, <3>1 DEF BeginRefresh
  <2>4. ASSUME BeginUninstall
        PROVE  <1>1!:
    <3>1. [NoCommand EXCEPT !.txn = bundle.txn] \in Command
      BY <2>4 DEF NoCommand, Command, BeginUninstall, Bound
    <3> QED BY <2>1, <2>4, <3>1 DEF BeginUninstall
  <2>5. ASSUME BeginRecovery
        PROVE  <1>1!:
    <3> PICK op \in active :
           Start("inspect", [NoCommand EXCEPT !.op = op, !.txn = op.txn])
      BY <2>5 DEF BeginRecovery
    <3>1. [NoCommand EXCEPT !.op = op, !.txn = op.txn] \in Command
      BY Projections DEF NoCommand, Command, Ind, TypeOK
    <3> QED BY <2>1, <3>1
  <2>6. ASSUME BeginRestoreRecovery
        PROVE  <1>1!:
    <3> PICK t \in Restoring :
           Start("inspectRestore", [NoCommand EXCEPT !.txn = t])
      BY <2>6 DEF BeginRestoreRecovery
    <3>1. [NoCommand EXCEPT !.txn = t] \in Command
      BY DEF NoCommand, Command, Restoring
    <3> QED BY <2>1, <3>1
  <2> QED BY <2>2, <2>3, <2>4, <2>5, <2>6 DEF Begin, Rerun
<1>2. Records' /\ TornPairIsFlagged'
  BY <1>1, FilesKeepRecords DEF Disk, PairInv, Records
<1>3. cmd'.ver <= latest' /\ todo' = {}
  BY <1>1 DEF PairInv, Records, Held, Environment
<1>4. ASSUME pc' = "prepare"
      PROVE  ReadyManifest(txns[cmd.txn])'
  <2>1. PICK p \in Payloads : BeginRefresh(p)
    BY <1>4 DEF Begin, Rerun, BeginInstall, BeginUninstall, BeginRecovery,
                BeginRestoreRecovery, Start
  <2> DEFINE m == txns[bundle.txn]
  <2>2. /\ Bound(bundle.txn) /\ cmd'.txn = bundle.txn /\ txns' = txns
        /\ cmd'.ver = product.ver
    <3>1. Bound(bundle.txn)
      BY <2>1 DEF BeginRefresh
    <3>2. cmd' = [ver |-> product.ver, since |-> latest, txn |-> bundle.txn,
                  payload |-> p, op |-> None, seen |-> None]
      BY <2>1 DEF BeginRefresh, Start, NoCommand
    <3> QED BY <1>1, <3>1, <3>2 DEF Disk
  <2>3. /\ m.state = "installed" /\ m.patched = Live /\ GoodManifest(m)
    BY <2>2 DEF Bound, PairInv, Records
  <2>4. Matched(m.orig) /\ Matched(m.patched) /\ m.patched.bundle.ver = product.ver
    BY <2>3 DEF GoodManifest, Matched, Live
  <2> QED BY <2>2, <2>3, <2>4 DEF ReadyManifest, BeforeOf, Matched
<1>5. Memory'
  BY <1>1, <1>3, <1>4 DEF Memory, SeenSteps, Applying, Rewriting, UndoSteps
<1> QED BY <1>2, <1>5 DEF PairInv

(***************************************************************************)
(* Steps that write a manifest, a journal, or what the command remembers.  *)
(***************************************************************************)
LEMMA CreateKeepsPair ==
  ASSUME Ind, PairInv, NEW t \in Txns, CreateTransaction(t)
  PROVE  PairInv'
<1> DEFINE m == [state |-> "prepared", ver |-> cmd.ver, orig |-> Live,
                 patched |-> None]
<1> USE DEF CreateTransaction
<1>1. /\ txns' = [txns EXCEPT ![t] = m]
      /\ UNCHANGED <<bundle, product, active, Environment>>
      /\ active = {} /\ Restoring = {}
  BY DEF Ind, Phase
<1>2. GoodManifest(m)
  BY NoneAssumption DEF GoodManifest, HeldPair, Live, PairInv, Records
<1>3. /\ txns'[t] = m
      /\ \A u \in Txns : u # t => txns'[u] = txns[u]
  BY <1>1 DEF Ind, TypeOK
<1>4. \A u \in Txns : txns'[u] # None => GoodManifest(txns'[u])
  BY <1>2, <1>3 DEF PairInv, Records
<1>5. Records'
  BY <1>1, <1>4, HeldFrame DEF PairInv, Records
<1>6. TornPairIsFlagged'
  BY <1>1, <1>3 DEF PairInv, TornPairIsFlagged, Pending, Restoring
<1>7. Memory'
  <2>1. CASE Live = Both(Original(cmd.ver))
    <3>1. /\ pc' = "prepare" /\ cmd'.ver = cmd.ver /\ cmd'.txn = t
          /\ cmd.ver \in Versions
      BY <2>1 DEF Ind, TypeOK, Phase, Command
    <3>2. cmd.ver <= latest /\ (todo # {} => cmd.ver < latest)
      BY DEF PairInv, Memory
    <3>3. ReadyManifest(txns[cmd.txn])'
      BY <1>3, <2>1, <3>1
         DEF ReadyManifest, BeforeOf, Matched, Both, Live, Original
    <3> QED BY <1>1, <3>1, <3>2, <3>3
            DEF Memory, SeenSteps, Applying, Rewriting, UndoSteps, Environment
  <2>2. CASE Live # Both(Original(cmd.ver))
    BY <2>2 DEF Leave, Memory, SeenSteps, Applying, Rewriting, UndoSteps
  <2> QED BY <2>1, <2>2
<1> QED BY <1>5, <1>6, <1>7 DEF PairInv

LEMMA PrepareKeepsPair ==
  ASSUME Ind, PairInv, PrepareOperation
  PROVE  PairInv'
<1> DEFINE m == txns[cmd.txn]
           op == OperationOf(m)
<1> USE DEF PrepareOperation
<1>1. CASE Live # op.before
  <2>1. Leave /\ UNCHANGED <<Disk, Environment>>
    BY <1>1 DEF Disk
  <2> QED BY <2>1, LeaveKeepsPair
<1>2. CASE Live = op.before
  <2>1. /\ m \in Manifest /\ GoodManifest(m) /\ ReadyManifest(m)
        /\ m.state \in {"prepared", "installed"}
        /\ todo # {} => cmd.ver < latest
        /\ cmd.ver \in Versions
    BY DEF Ind, TypeOK, Phase, PairInv, Records, Memory
  <2>2. /\ op.before = Live /\ op.before = BeforeOf(m)
        /\ op.txnBefore = m
        /\ op.target = [bundle |-> Inject(op.before.bundle),
                        product |-> Inject(op.before.product)]
        /\ op.txnTarget = [m EXCEPT !.state = "installed", !.patched = op.target]
    BY <1>2 DEF OperationOf
  <2>3. Matched(op.before) /\ HeldPair(op.before)
    BY <2>1, <2>2 DEF ReadyManifest, HeldPair, Live, PairInv, Records
  <2>4. Matched(op.target) /\ HeldPair(op.target)
    <3>1. op.before.bundle \in Content /\ op.before.bundle = op.before.product
      BY <2>2, <2>3 DEF Ind, TypeOK, Live, Matched
    <3>2. Inject(op.before.bundle).ver = op.before.bundle.ver
      BY <3>1 DEF Inject, Content
    <3>3. op.before.bundle.ver = cmd.ver
      BY <2>1, <2>2 DEF ReadyManifest
    <3>4. latest \in Nat /\ cmd.ver \in Nat
      BY <2>1, MaxVersionAssumption DEF Ind, TypeOK, Versions
    <3>5. Held(Inject(op.before.bundle))
      BY <2>1, <2>3, <3>2, <3>3, <3>4 DEF Held, HeldPair
    <3> QED BY <2>2, <3>1, <3>5 DEF Matched, HeldPair
  <2>5. GoodManifest(op.txnTarget)
    <3>1. /\ op.txnTarget.orig = m.orig /\ op.txnTarget.patched = op.target
      BY <2>1, <2>2 DEF Manifest
    <3>2. op.target \in Pair
      <4>1. /\ op.before.bundle \in Content /\ op.before.product \in Content
            /\ cmd.txn \in Txns /\ cmd.payload \in Payloads \cup {None}
        BY <2>2 DEF Ind, TypeOK, Live, Phase, Command
      <4>2. Inject(op.before.bundle) \in Content /\ Inject(op.before.product) \in Content
        BY <4>1 DEF Inject, Content
      <4> QED BY <2>2, <4>2, ContentTypes
    <3> QED BY <2>1, <2>4, <3>1, <3>2 DEF GoodManifest, ReadyManifest
  <2>6. GoodOperation(op)
    BY <2>1, <2>2, <2>3, <2>4, <2>5 DEF GoodOperation
  <2>7. /\ active' = {op} /\ pc' = "checkBundle"
        /\ UNCHANGED <<bundle, product, txns, Environment>>
        /\ cmd'.seen = op.before
    BY <1>2 DEF Ind, Phase, TypeOK, Command
  <2>8. Records'
    BY <2>6, <2>7, HeldFrame DEF PairInv, Records
  <2>9. Memory'
    BY <2>3, <2>7, HeldFrame DEF Memory
  <2>10. TornPairIsFlagged'
    BY <2>7 DEF TornPairIsFlagged, Pending
  <2> QED BY <2>8, <2>9, <2>10 DEF PairInv
<1> QED BY <1>1, <1>2

\* A change of one manifest that keeps it good, with an operation pending.
LEMMA ManifestKeepsRecords ==
  ASSUME Ind, PairInv, NEW t \in Txns, NEW m,
         txns' = [txns EXCEPT ![t] = m], GoodManifest(m),
         UNCHANGED <<bundle, product, active, Environment>>
  PROVE  Records'
<1>1. /\ txns'[t] = m
      /\ \A u \in Txns : u # t => txns'[u] = txns[u]
  BY DEF Ind, TypeOK
<1>2. \A u \in Txns : txns'[u] # None => GoodManifest(txns'[u])
  BY <1>1 DEF PairInv, Records
<1> QED BY <1>2, HeldFrame DEF PairInv, Records

LEMMA FinalizeKeepsPair ==
  ASSUME Ind, PairInv, Finalize
  PROVE  PairInv'
<1> USE DEF Finalize
<1>1. /\ pc = "finalize" /\ cmd.op \in active /\ GoodOperation(cmd.op)
      /\ cmd.op \in Operation /\ cmd.txn \in Txns
  BY Projections DEF Ind, TypeOK, Phase, OpSteps, Applying, PairInv, Records
<1>2. CASE Live = cmd.op.target /\ txns[cmd.txn] = cmd.op.txnBefore
  <2>1. Records'
    BY <1>1, <1>2, ManifestKeepsRecords DEF GoodOperation, Advance
  <2>2. pc' = "complete" /\ cmd' = cmd /\ active' = active
    BY <1>2 DEF Advance
  <2>3. Memory'
    BY <1>1, <2>2, HeldFrame DEF PairInv, Memory, SeenSteps, Applying
  <2>4. TornPairIsFlagged'
    BY <1>1, <2>2 DEF TornPairIsFlagged, Pending
  <2> QED BY <2>1, <2>3, <2>4 DEF PairInv
<1>3. CASE ~(Live = cmd.op.target /\ txns[cmd.txn] = cmd.op.txnBefore)
  <2>1. Advance("inspect") /\ UNCHANGED <<bundle, product, txns, active, Environment>>
    BY <1>3 DEF RollBack
  <2>2. Onward("inspect")
    BY <1>1 DEF Onward, OpSteps, SeenSteps, RestoreSteps, Applying, Rewriting,
                UndoSteps, Steps
  <2> QED BY <2>1, <2>2, AdvanceKeepsPair DEF PairInv, Records
<1> QED BY <1>2, <1>3

LEMMA UndoTransactionKeepsPair ==
  ASSUME Ind, PairInv, UndoTransaction
  PROVE  PairInv'
<1> USE DEF UndoTransaction
<1>1. /\ pc = "undoTransaction" /\ cmd.op \in active /\ GoodOperation(cmd.op)
      /\ cmd.op \in Operation /\ cmd.txn \in Txns
  BY Projections DEF Ind, TypeOK, Phase, OpSteps, UndoSteps, PairInv, Records
<1>2. pc' = "checkUndoProduct" /\ cmd' = cmd /\ active' = active
  BY DEF Advance
<1>3. Records'
  BY <1>1, <1>2, ManifestKeepsRecords DEF GoodOperation
<1>4. Memory'
  BY <1>1, <1>2, HeldFrame DEF PairInv, Memory, SeenSteps, UndoSteps
<1>5. TornPairIsFlagged'
  BY <1>1, <1>2 DEF TornPairIsFlagged, Pending
<1> QED BY <1>3, <1>4, <1>5 DEF PairInv

\* Retiring the journal once the live pair is one the journal holds.
LEMMA RetireKeepsPair ==
  ASSUME PairInv, Leave, active' \subseteq active, Matched(Live),
         UNCHANGED <<bundle, product, txns, Environment>>
  PROVE  PairInv'
<1>1. Records'
  BY HeldFrame DEF PairInv, Records
<1>2. Memory'
  BY DEF Memory, Leave, SeenSteps, Applying, Rewriting, UndoSteps
<1>3. TornPairIsFlagged'
  BY DEF TornPairIsFlagged, Matched, Live
<1> QED BY <1>1, <1>2, <1>3 DEF PairInv

LEMMA CompleteKeepsPair ==
  ASSUME Ind, PairInv, CompleteOperation
  PROVE  PairInv'
<1> USE DEF CompleteOperation
<1>1. GoodOperation(cmd.op) /\ pc = "complete"
  BY DEF Ind, Phase, OpSteps, Applying, PairInv, Records
<1>2. CASE Live = cmd.op.target /\ txns[cmd.txn] = cmd.op.txnTarget
  BY <1>1, <1>2, RetireKeepsPair DEF GoodOperation
<1>3. CASE ~(Live = cmd.op.target /\ txns[cmd.txn] = cmd.op.txnTarget)
  <2>1. Advance("inspect") /\ UNCHANGED <<bundle, product, txns, active, Environment>>
    BY <1>3 DEF RollBack
  <2>2. Onward("inspect")
    BY <1>1 DEF Onward, OpSteps, SeenSteps, RestoreSteps, Applying, Rewriting,
                UndoSteps, Steps
  <2> QED BY <2>1, <2>2, AdvanceKeepsPair DEF PairInv, Records
<1> QED BY <1>2, <1>3

LEMMA RolledBackKeepsPair ==
  ASSUME Ind, PairInv, RolledBack
  PROVE  PairInv'
<1> USE DEF RolledBack
<1>1. GoodOperation(cmd.op)
  BY DEF Ind, Phase, OpSteps, UndoSteps, PairInv, Records
<1>2. CASE Live = cmd.op.before /\ txns[cmd.txn] = cmd.op.txnBefore
  BY <1>1, <1>2, RetireKeepsPair DEF GoodOperation
<1>3. CASE ~(Live = cmd.op.before /\ txns[cmd.txn] = cmd.op.txnBefore)
  BY <1>3, LeaveKeepsPair DEF Disk
<1> QED BY <1>2, <1>3

LEMMA NoteKeepsPair ==
  ASSUME Ind, PairInv, NEW next, cmd' = [cmd EXCEPT !.seen = Live], pc' = next,
         UNCHANGED <<Disk, Environment>>,
         next \in {"undoTransaction", "checkRestoreProduct"}
  PROVE  PairInv'
<1>1. cmd'.seen = Live /\ HeldPair(Live)
  BY DEF Ind, TypeOK, Command, HeldPair, Live, PairInv, Records
<1>2. Records' /\ TornPairIsFlagged'
  BY FilesKeepRecords DEF Disk, PairInv, Records
<1>3. Memory'
  BY <1>1, HeldFrame DEF Memory
<1> QED BY <1>2, <1>3 DEF PairInv

LEMMA SnapshotKeepsPair ==
  ASSUME Ind, PairInv, SnapshotForRestore
  PROVE  PairInv'
<1> USE DEF SnapshotForRestore
<1> DEFINE m == [txns[cmd.txn] EXCEPT !.state = "restoring"]
<1>1. /\ cmd.txn \in Txns /\ txns[cmd.txn] \in Manifest
      /\ GoodManifest(txns[cmd.txn])
  BY DEF Ind, TypeOK, Phase, PairInv, Records
<1>2. /\ m.orig = txns[cmd.txn].orig /\ m.patched = txns[cmd.txn].patched
      /\ m.state = "restoring" /\ m \in Manifest
  BY <1>1 DEF Manifest
<1>3. GoodManifest(m)
  BY <1>1, <1>2 DEF GoodManifest, Ind, Phase
<1>4. Records'
  BY <1>1, <1>3, ManifestKeepsRecords
<1>5. cmd'.seen = Live /\ HeldPair(Live) /\ pc' = "checkRestoreProduct"
  BY DEF Ind, TypeOK, Command, HeldPair, Live, PairInv, Records
<1>6. Memory'
  BY <1>5, HeldFrame DEF Memory
<1>7. cmd.txn \in Restoring'
  BY <1>1, <1>2, NoneAssumption DEF Ind, TypeOK, Restoring
<1>8. TornPairIsFlagged'
  BY <1>7 DEF TornPairIsFlagged, Pending
<1> QED BY <1>4, <1>6, <1>8 DEF PairInv

LEMMA FinishRestoreKeepsPair ==
  ASSUME Ind, PairInv, FinishRestore
  PROVE  PairInv'
<1> USE DEF FinishRestore
<1>1. /\ pc = "finishRestore" /\ cmd.txn \in Txns
      /\ txns[cmd.txn] \in Manifest /\ txns[cmd.txn].state = "restoring"
      /\ GoodManifest(txns[cmd.txn])
  BY DEF Ind, TypeOK, Phase, RestoreSteps, Rewriting, PairInv, Records
<1>2. CASE /\ Live = Orig /\ Leave
           /\ txns' = [txns EXCEPT ![cmd.txn].state = "restored"]
  <2> DEFINE m == [txns[cmd.txn] EXCEPT !.state = "restored"]
  <2>1. /\ m.orig = txns[cmd.txn].orig /\ m.patched = txns[cmd.txn].patched
        /\ m.state = "restored"
        /\ txns' = [txns EXCEPT ![cmd.txn] = m]
    BY <1>1, <1>2 DEF Manifest
  <2>2. GoodManifest(m)
    BY <1>1, <2>1 DEF GoodManifest
  <2>3. Records'
    BY <1>1, <2>1, <2>2, ManifestKeepsRecords
  <2>4. Matched(Live)
    BY <1>1, <1>2 DEF GoodManifest, Orig
  <2>5. TornPairIsFlagged'
    BY <2>4 DEF TornPairIsFlagged, Matched, Live
  <2>6. Memory'
    BY <1>2 DEF Memory, Leave, SeenSteps, Applying, Rewriting, UndoSteps
  <2> QED BY <2>3, <2>5, <2>6 DEF PairInv
<1>3. CASE Advance("undoRestore") /\ UNCHANGED txns
  <2>1. Onward("undoRestore")
    BY <1>1 DEF Onward, OpSteps, SeenSteps, RestoreSteps, Applying, Rewriting,
                UndoSteps, Steps
  <2> QED BY <1>3, <2>1, AdvanceKeepsPair DEF PairInv, Records
<1>4. CASE Leave /\ UNCHANGED txns
  BY <1>4, LeaveKeepsPair DEF Disk
<1> QED BY <1>2, <1>3, <1>4

(***************************************************************************)
(* The two halves of a conditional write.                                  *)
(***************************************************************************)
LEMMA CheckKeepsPair ==
  ASSUME PairInv, NEW next, NEW other,
         UNCHANGED <<Disk, Environment>>,
         Onward(next), Onward(other),
         \/ Advance(next)
         \/ Advance(other)
         \/ Leave
  PROVE  PairInv'
<1> USE DEF Disk, PairInv, Records
<1>1. CASE Advance(next)
  BY <1>1, AdvanceKeepsPair
<1>2. CASE Advance(other)
  BY <1>2, AdvanceKeepsPair
<1>3. CASE Leave
  BY <1>3, LeaveKeepsPair
<1> QED BY <1>1, <1>2, <1>3

LEMMA ChecksKeepPair ==
  ASSUME Ind, PairInv,
         \/ CheckBundle \/ CheckProduct \/ CheckUndoProduct \/ CheckUndoBundle
         \/ CheckRestoreProduct \/ CheckRestoreBundle
         \/ UndoRestore \/ UndoRestoredProduct
  PROVE  PairInv'
<1> USE DEF Check, RollBack
<1>1. CASE CheckBundle
  <2>1. Onward("writeBundle") /\ Onward("inspect")
    BY <1>1 DEF CheckBundle, Onward, OpSteps, SeenSteps, RestoreSteps, Applying,
                Rewriting, UndoSteps, Steps
  <2> QED BY <1>1, <2>1, CheckKeepsPair DEF CheckBundle
<1>2. CASE CheckProduct
  <2>1. Onward("writeProduct") /\ Onward("inspect")
    BY <1>2 DEF CheckProduct, Onward, OpSteps, SeenSteps, RestoreSteps, Applying,
                Rewriting, UndoSteps, Steps
  <2> QED BY <1>2, <2>1, CheckKeepsPair DEF CheckProduct
<1>3. CASE CheckUndoProduct
  <2>1. Onward("undoProduct") /\ Onward("undoProduct")
    BY <1>3 DEF CheckUndoProduct, Onward, OpSteps, SeenSteps, RestoreSteps, Applying,
                Rewriting, UndoSteps, Steps
  <2> QED BY <1>3, <2>1, CheckKeepsPair DEF CheckUndoProduct
<1>4. CASE CheckUndoBundle
  <2>1. Onward("undoBundle") /\ Onward("undoBundle")
    BY <1>4 DEF CheckUndoBundle, Onward, OpSteps, SeenSteps, RestoreSteps, Applying,
                Rewriting, UndoSteps, Steps
  <2> QED BY <1>4, <2>1, CheckKeepsPair DEF CheckUndoBundle
<1>5. CASE CheckRestoreProduct
  <2>1. Onward("restoreProduct") /\ Onward("restoreProduct")
    BY <1>5 DEF CheckRestoreProduct, Onward, OpSteps, SeenSteps, RestoreSteps, Applying,
                Rewriting, UndoSteps, Steps
  <2> QED BY <1>5, <2>1, CheckKeepsPair DEF CheckRestoreProduct
<1>6. CASE CheckRestoreBundle
  <2>1. Onward("restoreBundle") /\ Onward("undoRestore")
    BY <1>6 DEF CheckRestoreBundle, Onward, OpSteps, SeenSteps, RestoreSteps, Applying,
                Rewriting, UndoSteps, Steps
  <2> QED BY <1>6, <2>1, CheckKeepsPair DEF CheckRestoreBundle
<1>7. CASE UndoRestore
  <2>1. Onward("putBackBundle") /\ Onward("undoRestoredProduct")
    BY <1>7 DEF UndoRestore, Onward, OpSteps, SeenSteps, RestoreSteps, Applying,
                Rewriting, UndoSteps, Steps
  <2> QED BY <1>7, <2>1, CheckKeepsPair DEF UndoRestore
<1>8. CASE UndoRestoredProduct
  <2>1. Onward("putBackProduct") /\ Onward("putBackProduct")
    BY <1>8 DEF UndoRestoredProduct, Onward, OpSteps, SeenSteps, RestoreSteps, Applying,
                Rewriting, UndoSteps, Steps
  <2> QED BY <1>8, <2>1, CheckKeepsPair DEF UndoRestoredProduct
<1> QED BY <1>1, <1>2, <1>3, <1>4, <1>5, <1>6, <1>7, <1>8

\* A command writes only what a record on disk or its own reading holds, and
\* only while its record says that a recovery would be pending.
LEMMA WrittenIsHeld ==
  ASSUME Ind, PairInv
  PROVE  /\ pc \in OpSteps => /\ Held(cmd.op.before.bundle)
                              /\ Held(cmd.op.before.product)
                              /\ Held(cmd.op.target.bundle)
                              /\ Held(cmd.op.target.product)
                              /\ Pending
         /\ pc \in RestoreSteps => /\ Held(Orig.bundle) /\ Held(Orig.product)
                                   /\ Pending
         /\ pc \in SeenSteps => Held(cmd.seen.bundle) /\ Held(cmd.seen.product)
<1>1. pc \in OpSteps => cmd.op \in active /\ GoodOperation(cmd.op)
  BY DEF Ind, Phase, PairInv, Records
<1>2. pc \in RestoreSteps => cmd.txn \in Restoring /\ GoodManifest(txns[cmd.txn])
  BY DEF Ind, Phase, Restoring, PairInv, Records
<1>3. pc \in SeenSteps => HeldPair(cmd.seen)
  BY DEF PairInv, Memory
<1> QED BY <1>1, <1>2, <1>3
        DEF GoodOperation, GoodManifest, HeldPair, Orig, Pending

LEMMA WritesKeepPair ==
  ASSUME Ind, PairInv,
         \/ WriteBundle \/ WriteProduct \/ UndoProduct \/ UndoBundle
         \/ RestoreProduct \/ RestoreBundle \/ PutBackBundle
  PROVE  PairInv'
<1> USE DEF PutBundle, PutProduct
<1>1. CASE WriteBundle
  <2>1. Onward("checkProduct") /\ Held(cmd.op.target.bundle) /\ Pending
    BY <1>1, WrittenIsHeld DEF WriteBundle, Onward, OpSteps, SeenSteps, RestoreSteps, Applying,
                Rewriting, UndoSteps, Steps
  <2> QED BY <1>1, <2>1, AdvanceKeepsPair DEF WriteBundle, PairInv, Records
<1>2. CASE WriteProduct
  <2>1. Onward("finalize") /\ Held(cmd.op.target.product) /\ Pending
    BY <1>2, WrittenIsHeld DEF WriteProduct, Onward, OpSteps, SeenSteps, RestoreSteps, Applying,
                Rewriting, UndoSteps, Steps
  <2> QED BY <1>2, <2>1, AdvanceKeepsPair DEF WriteProduct, PairInv, Records
<1>3. CASE UndoProduct
  <2>1. Onward("checkUndoBundle") /\ Held(cmd.op.before.product) /\ Pending
    BY <1>3, WrittenIsHeld DEF UndoProduct, Onward, OpSteps, SeenSteps, RestoreSteps, Applying,
                Rewriting, UndoSteps, Steps
  <2> QED BY <1>3, <2>1, AdvanceKeepsPair DEF UndoProduct, PairInv, Records
<1>4. CASE UndoBundle
  <2>1. Onward("rolledBack") /\ Held(cmd.op.before.bundle) /\ Pending
    BY <1>4, WrittenIsHeld DEF UndoBundle, Onward, OpSteps, SeenSteps, RestoreSteps, Applying,
                Rewriting, UndoSteps, Steps
  <2> QED BY <1>4, <2>1, AdvanceKeepsPair DEF UndoBundle, PairInv, Records
<1>5. CASE RestoreProduct
  <2>1. Onward("checkRestoreBundle") /\ Held(Orig.product) /\ Pending
    BY <1>5, WrittenIsHeld DEF RestoreProduct, Onward, OpSteps, SeenSteps, RestoreSteps, Applying,
                Rewriting, UndoSteps, Steps
  <2> QED BY <1>5, <2>1, AdvanceKeepsPair DEF RestoreProduct, PairInv, Records
<1>6. CASE RestoreBundle
  <2>1. Onward("finishRestore") /\ Held(Orig.bundle) /\ Pending
    BY <1>6, WrittenIsHeld DEF RestoreBundle, Onward, OpSteps, SeenSteps, RestoreSteps, Applying,
                Rewriting, UndoSteps, Steps
  <2> QED BY <1>6, <2>1, AdvanceKeepsPair DEF RestoreBundle, PairInv, Records
<1>7. CASE PutBackBundle
  <2>1. Onward("undoRestoredProduct") /\ Held(cmd.seen.bundle) /\ Pending
    BY <1>7, WrittenIsHeld DEF PutBackBundle, Onward, OpSteps, SeenSteps, RestoreSteps, Applying,
                Rewriting, UndoSteps, Steps
  <2> QED BY <1>7, <2>1, AdvanceKeepsPair DEF PutBackBundle, PairInv, Records
<1> QED BY <1>1, <1>2, <1>3, <1>4, <1>5, <1>6, <1>7

LEMMA PutBackProductKeepsPair ==
  ASSUME Ind, PairInv, PutBackProduct
  PROVE  PairInv'
<1> USE DEF PutBackProduct
<1>1. Held(cmd.seen.product) /\ Pending
  BY WrittenIsHeld DEF SeenSteps, RestoreSteps
<1>2. Records' /\ TornPairIsFlagged'
  BY <1>1, FilesKeepRecords DEF PairInv, Records
<1>3. Memory'
  BY DEF Memory, Leave, SeenSteps, Applying, Rewriting, UndoSteps
<1> QED BY <1>2, <1>3 DEF PairInv

(***************************************************************************)
(* Interruptions and the updater.                                          *)
(***************************************************************************)
LEMMA InterruptionsKeepPair ==
  ASSUME Ind, PairInv, Interrupted
  PROVE  PairInv'
<1>1. CASE Crash
  BY <1>1, LeaveKeepsPair DEF Crash
<1>2. CASE StepFails /\ pc \in Applying /\ RollBack
  <2>1. Onward("inspect")
    BY <1>2 DEF Onward, OpSteps, SeenSteps, RestoreSteps, Applying, Rewriting,
                UndoSteps, Steps
  <2> QED BY <1>2, <2>1, AdvanceKeepsPair
          DEF StepFails, RollBack, Disk, PairInv, Records
<1>3. CASE StepFails /\ pc \in Rewriting /\ Advance("undoRestore")
  <2>1. Onward("undoRestore")
    BY <1>3 DEF Onward, OpSteps, SeenSteps, RestoreSteps, Applying, Rewriting,
                UndoSteps, Steps
  <2> QED BY <1>3, <2>1, AdvanceKeepsPair DEF StepFails, Disk, PairInv, Records
<1> QED BY <1>1, <1>2, <1>3 DEF Interrupted, StepFails

\* The updater names a build that nobody holds yet, and then only gives it up.
LEMMA UpdaterKeepsHeld ==
  ASSUME Ind, Update \/ Settle
  PROVE  /\ \A c \in Content : Held(c) => Held(c)'
         /\ \A p \in Pair : HeldPair(p) => HeldPair(p)'
         /\ \A m \in Manifest : GoodManifest(m) => GoodManifest(m)'
         /\ \A op \in Operation : GoodOperation(op) => GoodOperation(op)'
<1>1. \/ latest' = latest /\ todo' \subseteq todo
      \/ latest' = latest + 1
  BY DEF Update, Settle, StartUpdate, UpdateFile, UpdateStops
<1>2. ASSUME NEW c \in Content, Held(c)
      PROVE  Held(c)'
  <2>1. c.ver \in Nat /\ latest \in Nat
    BY ContentTypes, MaxVersionAssumption DEF Ind, TypeOK, Versions
  <2>2. CASE latest' = latest /\ todo' \subseteq todo
    BY <1>2, <2>2 DEF Held
  <2>3. CASE latest' = latest + 1
    BY <1>2, <2>1, <2>3 DEF Held
  <2> QED BY <1>1, <2>2, <2>3
<1>3. \A p \in Pair : HeldPair(p) => HeldPair(p)'
  BY <1>2, Projections DEF HeldPair
<1>4. \A m \in Manifest : GoodManifest(m) => GoodManifest(m)'
  BY <1>3, Projections DEF GoodManifest, Matched
<1> QED BY <1>2, <1>3, <1>4, Projections DEF GoodOperation, Matched

LEMMA UpdaterKeepsPair ==
  ASSUME Ind, PairInv, Update \/ Settle
  PROVE  PairInv'
<1>1. UNCHANGED <<txns, active, pc, cmd>>
  BY DEF Update, Settle, StartUpdate, UpdateFile, UpdateStops, Disk
<1>2. /\ bundle \in Content /\ product \in Content
      /\ Held(bundle) /\ Held(product) /\ latest \in Nat
  BY MaxVersionAssumption DEF Ind, TypeOK, Versions, PairInv, Records
<1>3. Original(latest) \in Content /\ Held(Original(latest))
  BY <1>2, ContentTypes DEF Ind, TypeOK, Held, Original
<1>4. /\ bundle' = bundle \/ bundle' = Original(latest)
      /\ product' = product \/ product' = Original(latest)
  BY DEF Update, Settle, StartUpdate, UpdateFile, UpdateStops, Disk
<1>5. Held(bundle)' /\ Held(product)'
  <2> PICK b \in Content : b = bundle' /\ Held(b)
    BY <1>2, <1>3, <1>4
  <2> PICK p \in Content : p = product' /\ Held(p)
    BY <1>2, <1>3, <1>4
  <2>1. Held(b)' /\ Held(p)'
    BY UpdaterKeepsHeld
  <2> QED BY <2>1 DEF Held
<1>6. Records'
  <2>1. \A t \in Txns : txns[t] # None => GoodManifest(txns[t])'
    BY <1>1, UpdaterKeepsHeld DEF Ind, TypeOK, PairInv, Records
  <2>2. \A op \in active : GoodOperation(op)'
    BY UpdaterKeepsHeld DEF Ind, TypeOK, PairInv, Records
  <2> QED BY <1>1, <1>5, <2>1, <2>2 DEF Records
<1>7. Memory'
  <2>1. (pc \in SeenSteps => HeldPair(cmd.seen))'
    BY <1>1, UpdaterKeepsHeld DEF Ind, Phase, PairInv, Memory
  <2>2. pc \in {"create", "prepare"} => /\ cmd.ver <= latest'
                                        /\ todo' # {} => cmd.ver < latest'
    <3>1. pc \in {"create", "prepare"} => cmd.ver \in Nat
      BY MaxVersionAssumption DEF Ind, Phase, Versions
    <3>2. \/ latest' = latest /\ todo' \subseteq todo
          \/ latest' = latest + 1
      BY DEF Update, Settle, StartUpdate, UpdateFile, UpdateStops
    <3>3. CASE latest' = latest /\ todo' \subseteq todo
      BY <3>3 DEF PairInv, Memory
    <3>4. CASE latest' = latest + 1
      BY <1>2, <3>1, <3>4 DEF PairInv, Memory
    <3> QED BY <3>2, <3>3, <3>4
  <2>3. (pc = "prepare" => ReadyManifest(txns[cmd.txn]))'
    BY <1>1 DEF PairInv, Memory, ReadyManifest
  <2>4. (pc \in {"create", "prepare"} => /\ cmd.ver <= latest
                                         /\ todo # {} => cmd.ver < latest)'
    BY <1>1, <2>2
  <2> QED BY <2>1, <2>3, <2>4 DEF Memory
<1>8. TornPairIsFlagged'
  <2>1. CASE UNCHANGED <<bundle, product>>
    BY <1>1, <2>1 DEF PairInv, TornPairIsFlagged, Pending, Restoring
  <2>2. ASSUME NEW f \in todo, UpdateFile(f)
        PROVE  TornPairIsFlagged'
    <3>1. \/ bundle' = Original(latest) /\ product' = product
          \/ bundle' = bundle /\ product' = Original(latest)
      BY <2>2 DEF UpdateFile, Ind, TypeOK
    <3>2. Original(latest).ver = latest
      BY DEF Original
    <3> QED BY <1>2, <2>2, <3>1, <3>2 DEF Held, TornPairIsFlagged
  <2> QED BY <2>1, <2>2 DEF Update, Settle, StartUpdate, UpdateStops, Disk
<1> QED BY <1>6, <1>7, <1>8 DEF PairInv

-----------------------------------------------------------------------------
LEMMA PairInvariant == Spec => []PairInv
<1>1. Init => PairInv
  <2> SUFFICES ASSUME Init PROVE PairInv
    OBVIOUS
  <2>1. Held(bundle) /\ Held(product)
    BY DEF Init, Held, Original
  <2> QED
    BY <2>1 DEF Init, PairInv, Records, Memory, TornPairIsFlagged, SeenSteps,
                Applying, Rewriting, UndoSteps
<1>2. Ind /\ PairInv /\ [Next]_vars => PairInv'
  <2> SUFFICES ASSUME Ind, PairInv, [Next]_vars PROVE PairInv'
    OBVIOUS
  <2>1. CASE Begin \/ Rerun
    BY <2>1, BeginKeepsPair
  <2>2. CASE Patch
    BY <2>2, CreateKeepsPair, PrepareKeepsPair, ChecksKeepPair, WritesKeepPair,
       FinalizeKeepsPair, CompleteKeepsPair DEF Patch
  <2>3. CASE Undo
    <3>1. CASE Inspect
      BY <3>1, NoteKeepsPair, LeaveKeepsPair DEF Inspect
    <3> QED BY <2>3, <3>1, UndoTransactionKeepsPair, ChecksKeepPair,
               WritesKeepPair, RolledBackKeepsPair DEF Undo
  <2>4. CASE Restore
    <3>1. CASE InspectRestore
      BY <3>1, NoteKeepsPair, LeaveKeepsPair DEF InspectRestore
    <3> QED BY <2>4, <3>1, SnapshotKeepsPair, FinishRestoreKeepsPair,
               ChecksKeepPair, WritesKeepPair, PutBackProductKeepsPair DEF Restore
  <2>5. CASE Interrupted
    BY <2>5, InterruptionsKeepPair
  <2>6. CASE Settle \/ Update
    BY <2>6, UpdaterKeepsPair
  <2>7. CASE UNCHANGED vars
    <3>1. UNCHANGED <<Disk, Environment, pc, cmd>>
      BY <2>7 DEF vars, Disk, Environment
    <3>2. Records' /\ TornPairIsFlagged'
      BY <3>1, FilesKeepRecords DEF Disk, PairInv, Records
    <3>3. Memory'
      BY <3>1, HeldFrame DEF PairInv, Memory, ReadyManifest, Disk, Environment
    <3> QED BY <3>2, <3>3 DEF PairInv
  <2> QED BY <2>1, <2>2, <2>3, <2>4, <2>5, <2>6, <2>7 DEF Next
<1> QED BY <1>1, <1>2, IndInvariant, PTL DEF Spec

\* The IDE's two files, when they are of one build, disagree only while a
\* journal or a "restoring" manifest says so: no interleaving of commands,
\* failures, crashes and updates leaves a torn pair that the next install or
\* uninstall would take for sound (find_active_operation,
\* find_restoring_transaction).
THEOREM TornPairsAreFlagged == Spec => []TornPairIsFlagged
<1>1. PairInv => TornPairIsFlagged
  BY DEF PairInv
<1> QED BY <1>1, PairInvariant, PTL

-----------------------------------------------------------------------------
(***************************************************************************)
(* InjectedIsUninstallable and NoDowngrade.  A live pair without a pending *)
(* recovery is the one that its transaction's manifest records, because an *)
(* operation and a restore end only in such a pair (OwnInv).  And as long  *)
(* as no update has begun since a command did, everything the command      *)
(* knows, finds and writes is of the build it began with (QuietInv).       *)
(***************************************************************************)

\* What the manifest of transaction t says once it was installed.
Genuine(t, m) ==
  m.state # "prepared" =>
    /\ m.orig = Both(Original(m.ver))
    /\ m.patched = Both(m.patched.bundle)
    /\ m.patched.bundle.txn = t /\ m.patched.bundle.ver = m.ver
    /\ m.patched.bundle.payload \in Payloads

\* A manifest that an operation may start from.
Usable(t, m) ==
  /\ m.state \in {"prepared", "installed"}
  /\ m.orig = Both(Original(m.ver)) /\ Genuine(t, m)

GenuineOperation(op) ==
  /\ Usable(op.txn, op.txnBefore) /\ op.txnBefore.ver = op.ver
  /\ op.before = BeforeOf(op.txnBefore)
  /\ op.target = Both(op.target.bundle)
  /\ op.target.bundle.txn = op.txn /\ op.target.bundle.ver = op.ver
  /\ op.target.bundle.payload \in Payloads
  /\ op.txnTarget = [op.txnBefore EXCEPT !.state = "installed", !.patched = op.target]

Recorded ==
  /\ \A t \in Txns : txns[t] # None => Genuine(t, txns[t])
  /\ \A op \in active : GenuineOperation(op)

Intent ==
  /\ pc \in {"create", "prepare"} => cmd.payload \in Payloads
  /\ pc = "prepare" => Usable(cmd.txn, txns[cmd.txn]) /\ txns[cmd.txn].ver = cmd.ver

LiveIsRecorded ==
  ~Pending /\ bundle = product /\ bundle.txn # None =>
    /\ txns[bundle.txn] # None /\ txns[bundle.txn].state = "installed"
    /\ txns[bundle.txn].patched = Live

OwnInv == Recorded /\ Intent /\ LiveIsRecorded

\* All that a command knows and finds is of the build it began with.
OneBuild ==
  /\ todo = {} /\ cmd.ver \in Versions /\ product.ver = cmd.ver
  /\ pc \notin {"inspect", "inspectRestore"} => bundle.ver = cmd.ver
  /\ pc \in OpSteps => cmd.op.ver = cmd.ver
  /\ pc \in RestoreSteps \cup {"prepare", "snapshot"} => txns[cmd.txn].ver = cmd.ver
  /\ pc \in SeenSteps => cmd.seen.bundle.ver = cmd.ver /\ cmd.seen.product.ver = cmd.ver
  /\ pc = "snapshot" => txns[cmd.txn].patched = Live

QuietInv ==
  pc # "idle" => /\ cmd.since \in Versions /\ cmd.since <= latest
                 /\ latest = cmd.since => OneBuild

-----------------------------------------------------------------------------
LEMMA Originals ==
  \A v : /\ Original(v).ver = v /\ Original(v).txn = None
         /\ Both(Original(v)).bundle = Original(v)
         /\ Both(Original(v)).product = Original(v)
BY DEF Original, Both

(***************************************************************************)
(* Steps that leave the records on disk alone.                             *)
(***************************************************************************)
LEMMA OwnStays ==
  ASSUME Ind, OwnInv, UNCHANGED <<txns, active>>,
         pc' \notin {"create", "prepare"} \/ UNCHANGED <<pc, cmd>>,
         Pending \/ UNCHANGED <<bundle, product>> \/ bundle' # product' \/ bundle'.txn = None
  PROVE  OwnInv'
<1>1. Recorded' /\ Intent'
  BY DEF OwnInv, Recorded, Intent
<1>2. LiveIsRecorded'
  BY DEF OwnInv, LiveIsRecorded, Pending, Restoring, Live
<1> QED BY <1>1, <1>2 DEF OwnInv

LEMMA StepsStayOwn ==
  ASSUME Ind, OwnInv,
         \/ Inspect \/ InspectRestore \/ Interrupted
         \/ CheckBundle \/ CheckProduct \/ CheckUndoProduct \/ CheckUndoBundle
         \/ CheckRestoreProduct \/ CheckRestoreBundle
         \/ UndoRestore \/ UndoRestoredProduct
         \/ WriteBundle \/ WriteProduct \/ UndoProduct \/ UndoBundle
         \/ RestoreProduct \/ RestoreBundle \/ PutBackBundle \/ PutBackProduct
  PROVE  OwnInv'
<1>1. UNCHANGED <<txns, active>> /\ pc' \notin {"create", "prepare"}
  BY DEF Inspect, InspectRestore, Interrupted, StepFails, Crash, CheckBundle,
         CheckProduct, CheckUndoProduct, CheckUndoBundle, CheckRestoreProduct,
         CheckRestoreBundle, UndoRestore, UndoRestoredProduct, WriteBundle,
         WriteProduct, UndoProduct, UndoBundle, RestoreProduct, RestoreBundle,
         PutBackBundle, PutBackProduct, Check, PutBundle, PutProduct, RollBack,
         Advance, Leave, Disk
<1>2. Pending \/ UNCHANGED <<bundle, product>>
  <2>1. pc \in OpSteps \cup RestoreSteps => Pending
    BY DEF Ind, Phase, Pending, Restoring
  <2> QED
    BY <2>1 DEF Inspect, InspectRestore, Interrupted, StepFails, Crash, CheckBundle,
         CheckProduct, CheckUndoProduct, CheckUndoBundle, CheckRestoreProduct,
         CheckRestoreBundle, UndoRestore, UndoRestoredProduct, WriteBundle,
         WriteProduct, UndoProduct, UndoBundle, RestoreProduct, RestoreBundle,
         PutBackBundle, PutBackProduct, Check, PutBundle, PutProduct, Disk,
         OpSteps, RestoreSteps, Applying, UndoSteps, Rewriting
<1> QED BY <1>1, <1>2, OwnStays

LEMMA UpdaterStaysOwn ==
  ASSUME Ind, OwnInv, Update \/ Settle
  PROVE  OwnInv'
<1>1. UNCHANGED <<txns, active, pc, cmd>>
  BY DEF Update, Settle, StartUpdate, UpdateFile, UpdateStops, Disk
<1>2. CASE UNCHANGED <<bundle, product>>
  BY <1>1, <1>2, OwnStays
<1>3. ASSUME NEW f \in todo, UpdateFile(f)
      PROVE  OwnInv'
  <2>1. bundle' = Original(latest) \/ product' = Original(latest)
    BY <1>3 DEF UpdateFile, Ind, TypeOK
  <2>2. bundle' # product' \/ bundle'.txn = None
    BY <2>1, Originals
  <2> QED BY <1>1, <2>2, OwnStays
<1> QED BY <1>2, <1>3 DEF Update, Settle, StartUpdate, UpdateStops, Disk

(***************************************************************************)
(* Steps that write a manifest, a journal, or what the command intends.    *)
(***************************************************************************)
LEMMA BeginKeepsOwn ==
  ASSUME Ind, OwnInv, Begin \/ Rerun
  PROVE  OwnInv'
<1>1. UNCHANGED <<bundle, product, txns, active>>
  BY DEF Begin, Rerun, BeginInstall, BeginRefresh, BeginUninstall, BeginRecovery,
         BeginRestoreRecovery, Start, Disk
<1>2. Recorded' /\ LiveIsRecorded'
  BY <1>1 DEF OwnInv, Recorded, LiveIsRecorded, Pending, Restoring, Live
<1>3. ASSUME NEW p \in Payloads, BeginInstall(p)
      PROVE  Intent'
  <2>1. cmd' = [ver |-> product.ver, since |-> latest, txn |-> None,
                payload |-> p, op |-> None, seen |-> None]
    BY <1>3 DEF BeginInstall, Start, NoCommand
  <2> QED BY <1>3, <2>1 DEF BeginInstall, Start, Intent
<1>4. ASSUME NEW p \in Payloads, BeginRefresh(p)
      PROVE  Intent'
  <2>1. cmd' = [ver |-> product.ver, since |-> latest, txn |-> bundle.txn,
                payload |-> p, op |-> None, seen |-> None]
    BY <1>4 DEF BeginRefresh, Start, NoCommand
  <2>2. /\ cmd'.payload = p /\ cmd'.txn = bundle.txn /\ cmd'.ver = product.ver
        /\ Bound(bundle.txn)
    BY <1>4, <2>1 DEF BeginRefresh
  <2>3. Usable(bundle.txn, txns[bundle.txn]) /\ txns[bundle.txn].ver = product.ver
    BY <2>2 DEF Bound, OwnInv, Recorded, Usable, Genuine
  <2> QED BY <1>1, <2>2, <2>3 DEF Intent
<1>5. ASSUME BeginUninstall \/ Rerun
      PROVE  Intent'
  <2>1. pc' \notin {"create", "prepare"}
    BY <1>5 DEF Rerun, BeginUninstall, BeginRecovery, BeginRestoreRecovery, Start
  <2> QED BY <2>1 DEF Intent
<1> QED BY <1>2, <1>3, <1>4, <1>5 DEF OwnInv, Begin

LEMMA CreateKeepsOwn ==
  ASSUME Ind, OwnInv, NEW t \in Txns, CreateTransaction(t)
  PROVE  OwnInv'
<1> DEFINE m == [state |-> "prepared", ver |-> cmd.ver, orig |-> Live,
                 patched |-> None]
<1> USE DEF CreateTransaction
<1>1. /\ txns[t] = None /\ txns'[t] = m /\ m.state = "prepared"
      /\ \A u \in Txns : u # t => txns'[u] = txns[u]
      /\ UNCHANGED <<bundle, product, active>>
      /\ active = {} /\ Restoring = {} /\ pc = "create"
  BY DEF Ind, TypeOK, Phase
<1>2. Recorded'
  BY <1>1 DEF OwnInv, Recorded, Genuine
<1>3. Intent'
  <2>1. CASE Live = Both(Original(cmd.ver))
    <3>1. /\ pc' = "prepare" /\ cmd'.ver = cmd.ver /\ cmd'.txn = t
          /\ cmd'.payload = cmd.payload
      BY <2>1 DEF Ind, TypeOK, Command
    <3>2. Usable(t, m) /\ m.ver = cmd.ver
      BY <2>1 DEF Usable, Genuine
    <3> QED BY <1>1, <3>1, <3>2 DEF Intent, OwnInv
  <2>2. CASE Live # Both(Original(cmd.ver))
    BY <2>2 DEF Leave, Intent
  <2> QED BY <2>1, <2>2
<1>4. LiveIsRecorded'
  <2>1. bundle.txn # None => bundle.txn \in Txns
    BY DEF Ind, TypeOK, Content
  <2> QED BY <1>1, <2>1 DEF OwnInv, LiveIsRecorded, Pending, Live
<1> QED BY <1>2, <1>3, <1>4 DEF OwnInv

LEMMA PrepareKeepsOwn ==
  ASSUME Ind, OwnInv, PrepareOperation
  PROVE  OwnInv'
<1> DEFINE m == txns[cmd.txn]
           op == OperationOf(m)
<1> USE DEF PrepareOperation
<1>1. CASE Live # op.before
  <2>1. Leave /\ UNCHANGED <<bundle, product, txns, active>>
    BY <1>1
  <2> QED BY <2>1, OwnStays DEF Leave
<1>2. CASE Live = op.before
  <2>1. /\ m \in Manifest /\ Usable(cmd.txn, m) /\ m.ver = cmd.ver
        /\ cmd.txn \in Txns /\ cmd.payload \in Payloads
    BY DEF Ind, TypeOK, Phase, OwnInv, Intent
  <2>2. /\ op.before = BeforeOf(m) /\ op.txnBefore = m /\ op.txn = cmd.txn
        /\ op.ver = cmd.ver
        /\ op.target = [bundle |-> Inject(op.before.bundle),
                        product |-> Inject(op.before.product)]
        /\ op.txnTarget = [m EXCEPT !.state = "installed", !.patched = op.target]
    BY DEF OperationOf
  <2>3. PICK c \in Content : op.before = Both(c) /\ c.ver = m.ver
    <3>1. op.before.bundle \in Content
      BY <1>2 DEF Ind, TypeOK, Live
    <3>2. CASE m.state = "prepared"
      <4>1. op.before = Both(Original(m.ver))
        BY <2>1, <2>2, <3>2 DEF Usable, BeforeOf
      <4> QED BY <3>1, <4>1, Originals
    <3>3. CASE m.state # "prepared"
      <4>1. op.before = m.patched
        BY <2>2, <3>3 DEF BeforeOf
      <4> QED BY <2>1, <3>1, <3>3, <4>1 DEF Usable, Genuine
    <3> QED BY <3>2, <3>3
  <2>4. PICK d : /\ d = Inject(c) /\ d.txn = cmd.txn /\ d.ver = m.ver
                 /\ d.payload \in Payloads
    <3>1. PICK t \in Txns, p \in Payloads : t = cmd.txn /\ p = cmd.payload
      BY <2>1
    <3>2. Inject(c) = [c EXCEPT !.txn = t, !.payload = p]
      BY <3>1 DEF Inject
    <3>3. /\ [c EXCEPT !.txn = t, !.payload = p].txn = t
          /\ [c EXCEPT !.txn = t, !.payload = p].payload = p
          /\ [c EXCEPT !.txn = t, !.payload = p].ver = c.ver
      BY DEF Content
    <3> HIDE DEF m
    <3> QED BY <2>3, <3>1, <3>2, <3>3
  <2>5. op.target = Both(d) /\ op.target.bundle = d
    BY <2>2, <2>3, <2>4 DEF Both
  <2>6. GenuineOperation(op)
    BY <2>1, <2>2, <2>4, <2>5 DEF GenuineOperation
  <2>7. /\ active' = {op} /\ pc' = "checkBundle" /\ UNCHANGED <<bundle, product, txns>>
    BY <1>2 DEF Ind, Phase
  <2>8. Recorded'
    BY <2>6, <2>7 DEF OwnInv, Recorded
  <2> QED BY <2>7, <2>8 DEF OwnInv, Intent, LiveIsRecorded, Pending
<1> QED BY <1>1, <1>2

\* The journal under which a command works.
LEMMA OwnOperation ==
  ASSUME Ind, OwnInv, pc \in OpSteps
  PROVE  /\ cmd.op \in active /\ cmd.op \in Operation /\ cmd.txn = cmd.op.txn
         /\ cmd.txn \in Txns /\ cmd.op.txnBefore \in Manifest
         /\ cmd.op.txnTarget \in Manifest /\ active = {cmd.op}
         /\ GenuineOperation(cmd.op)
         /\ Genuine(cmd.txn, cmd.op.txnBefore) /\ Genuine(cmd.txn, cmd.op.txnTarget)
         /\ cmd.op.txnTarget.state = "installed" /\ cmd.op.txnTarget.patched = cmd.op.target
         /\ cmd.op.txnTarget.ver = cmd.op.ver
<1>1. /\ cmd.op \in active /\ cmd.op \in Operation /\ cmd.txn = cmd.op.txn
      /\ cmd.txn \in Txns /\ cmd.op.txnBefore \in Manifest
      /\ cmd.op.txnTarget \in Manifest /\ active = {cmd.op}
  BY Projections DEF Ind, TypeOK, OneRecovery, Phase
<1>2. GenuineOperation(cmd.op)
  BY <1>1 DEF OwnInv, Recorded
<1>3. /\ cmd.op.txnTarget.state = "installed" /\ cmd.op.txnTarget.patched = cmd.op.target
      /\ cmd.op.txnTarget.ver = cmd.op.ver
      /\ cmd.op.txnTarget.orig = cmd.op.txnBefore.orig
  <2>1. PICK m \in Manifest : m = cmd.op.txnBefore
    BY <1>1
  <2>2. PICK target : target = cmd.op.target
    OBVIOUS
  <2>3. PICK n : n = [m EXCEPT !.state = "installed", !.patched = target]
    OBVIOUS
  <2>4. n.state = "installed" /\ n.patched = target
    BY <2>3 DEF Manifest
  <2>5. n.ver = m.ver /\ n.orig = m.orig
    BY <2>3 DEF Manifest
  <2>6. n = cmd.op.txnTarget /\ m.ver = cmd.op.ver
    BY <1>2, <2>1, <2>2, <2>3 DEF GenuineOperation
  <2> QED BY <2>1, <2>2, <2>4, <2>5, <2>6
<1>4. Genuine(cmd.txn, cmd.op.txnBefore) /\ Genuine(cmd.txn, cmd.op.txnTarget)
  BY <1>1, <1>2, <1>3 DEF GenuineOperation, Usable, Genuine
<1> QED BY <1>1, <1>2, <1>3, <1>4

\* A manifest that stays what its transaction was, while a recovery is pending
\* or the live pair is the vendor's.
LEMMA ManifestKeepsOwn ==
  ASSUME Ind, OwnInv, NEW t \in Txns, NEW m, Genuine(t, m),
         txns' = [txns EXCEPT ![t] = m], UNCHANGED <<bundle, product, active>>,
         pc' \notin {"create", "prepare"},
         Pending' \/ bundle.txn = None
  PROVE  OwnInv'
<1>1. /\ txns'[t] = m
      /\ \A u \in Txns : u # t => txns'[u] = txns[u]
  BY DEF Ind, TypeOK
<1>2. Recorded'
  BY <1>1 DEF OwnInv, Recorded
<1> QED BY <1>2 DEF OwnInv, Intent, LiveIsRecorded

LEMMA FinalizeKeepsOwn ==
  ASSUME Ind, OwnInv, Finalize
  PROVE  OwnInv'
<1> USE DEF Finalize
<1>1. pc \in OpSteps
  BY DEF OpSteps, Applying
<1>2. CASE Live = cmd.op.target /\ txns[cmd.txn] = cmd.op.txnBefore
  <2>1. Pending'
    BY <1>1, <1>2, OwnOperation DEF Pending
  <2> QED BY <1>1, <1>2, <2>1, OwnOperation, ManifestKeepsOwn DEF Advance
<1>3. CASE ~(Live = cmd.op.target /\ txns[cmd.txn] = cmd.op.txnBefore)
  BY <1>3, OwnStays DEF RollBack, Advance
<1> QED BY <1>2, <1>3

LEMMA UndoTransactionKeepsOwn ==
  ASSUME Ind, OwnInv, UndoTransaction
  PROVE  OwnInv'
<1> USE DEF UndoTransaction
<1>1. pc \in OpSteps
  BY DEF OpSteps, UndoSteps
<1>2. Pending'
  BY <1>1, OwnOperation DEF Pending
<1> QED BY <1>1, <1>2, OwnOperation, ManifestKeepsOwn DEF Advance

\* The journal goes when the live pair is the one that its manifest records.
LEMMA RetireKeepsOwn ==
  ASSUME Ind, OwnInv, Leave, active' \subseteq active, UNCHANGED <<bundle, product, txns>>,
         bundle.txn = None \/ /\ txns[bundle.txn] # None
                              /\ txns[bundle.txn].state = "installed"
                              /\ txns[bundle.txn].patched = Live
  PROVE  OwnInv'
<1>1. Recorded'
  BY DEF OwnInv, Recorded
<1> QED BY <1>1 DEF OwnInv, Intent, LiveIsRecorded, Leave, Live

LEMMA CompleteKeepsOwn ==
  ASSUME Ind, OwnInv, CompleteOperation
  PROVE  OwnInv'
<1> USE DEF CompleteOperation
<1>1. pc \in OpSteps
  BY DEF OpSteps, Applying
<1>2. CASE Live = cmd.op.target /\ txns[cmd.txn] = cmd.op.txnTarget
  <2>1. bundle.txn = cmd.txn
    BY <1>1, <1>2, OwnOperation DEF GenuineOperation, Live
  <2>2. txns[cmd.txn] # None
    BY <1>1, <1>2, OwnOperation, NoneAssumption
  <2> QED BY <1>1, <1>2, <2>1, <2>2, OwnOperation, RetireKeepsOwn
<1>3. CASE ~(Live = cmd.op.target /\ txns[cmd.txn] = cmd.op.txnTarget)
  BY <1>3, OwnStays DEF RollBack, Advance
<1> QED BY <1>2, <1>3

LEMMA RolledBackKeepsOwn ==
  ASSUME Ind, OwnInv, RolledBack
  PROVE  OwnInv'
<1> USE DEF RolledBack
<1>1. pc \in OpSteps
  BY DEF OpSteps, UndoSteps
<1>2. CASE Live = cmd.op.before /\ txns[cmd.txn] = cmd.op.txnBefore
  <2> DEFINE m == cmd.op.txnBefore
  <2>1. /\ m \in Manifest /\ m # None /\ Usable(cmd.txn, m)
        /\ Live = BeforeOf(m) /\ txns[cmd.txn] = m
    BY <1>1, <1>2, OwnOperation, NoneAssumption DEF GenuineOperation
  <2>2. CASE m.state = "prepared"
    <3>1. Live = Both(Original(m.ver))
      BY <2>1, <2>2 DEF Usable, BeforeOf
    <3>2. bundle.txn = None
      BY <3>1, Originals DEF Live
    <3> QED BY <1>2, <3>2, RetireKeepsOwn
  <2>3. CASE m.state # "prepared"
    <3>1. m.state = "installed" /\ Live = m.patched /\ m.patched.bundle.txn = cmd.txn
      BY <2>1, <2>3 DEF Usable, Genuine, BeforeOf
    <3>2. bundle.txn = cmd.txn
      BY <3>1 DEF Live
    <3> QED BY <1>2, <2>1, <3>1, <3>2, RetireKeepsOwn
  <2> QED BY <2>2, <2>3
<1>3. CASE ~(Live = cmd.op.before /\ txns[cmd.txn] = cmd.op.txnBefore)
  BY <1>3, OwnStays DEF Leave
<1> QED BY <1>2, <1>3

\* An uninstall changes no more of a manifest than its state.
LEMMA StateOnly ==
  ASSUME NEW t, NEW m \in Manifest, m.state # "prepared", Genuine(t, m),
         NEW s \in {"restoring", "restored"}
  PROVE  LET n == [m EXCEPT !.state = s]
         IN  /\ Genuine(t, n) /\ n.state = s /\ n.ver = m.ver /\ n.orig = m.orig
             /\ n \in Manifest
<1>1. PICK n : n = [m EXCEPT !.state = s]
  OBVIOUS
<1>2. /\ n.state = s /\ n.ver = m.ver /\ n.orig = m.orig /\ n.patched = m.patched
      /\ n = [state |-> s, ver |-> m.ver, orig |-> m.orig, patched |-> m.patched]
  BY <1>1 DEF Manifest
<1>3. n \in Manifest
  BY <1>2 DEF Manifest
<1> QED BY <1>1, <1>2, <1>3 DEF Genuine

LEMMA SnapshotKeepsOwn ==
  ASSUME Ind, OwnInv, SnapshotForRestore
  PROVE  OwnInv'
<1> USE DEF SnapshotForRestore
<1>1. PICK m \in Manifest : /\ m = txns[cmd.txn] /\ m.state = "installed"
                            /\ Genuine(cmd.txn, m) /\ cmd.txn \in Txns
  BY DEF Ind, TypeOK, Phase, OwnInv, Recorded
<1>2. PICK n \in Manifest : /\ n = [m EXCEPT !.state = "restoring"]
                            /\ Genuine(cmd.txn, n) /\ n.state = "restoring"
  BY <1>1, StateOnly
<1>3. txns' = [txns EXCEPT ![cmd.txn] = n]
  BY <1>1, <1>2
<1>4. cmd.txn \in Restoring'
  BY <1>1, <1>2, <1>3, NoneAssumption DEF Ind, TypeOK, Restoring
<1>5. Pending'
  BY <1>4 DEF Pending
<1> QED BY <1>1, <1>2, <1>3, <1>5, ManifestKeepsOwn

LEMMA FinishRestoreKeepsOwn ==
  ASSUME Ind, OwnInv, FinishRestore
  PROVE  OwnInv'
<1> USE DEF FinishRestore
<1>1. PICK m \in Manifest : /\ m = txns[cmd.txn] /\ m.state = "restoring"
                            /\ Genuine(cmd.txn, m) /\ cmd.txn \in Txns
  BY NoneAssumption DEF Ind, TypeOK, Phase, OwnInv, Recorded, RestoreSteps, Rewriting
<1>2. CASE Live = Orig /\ txns' = [txns EXCEPT ![cmd.txn].state = "restored"] /\ Leave
  <2>1. PICK n \in Manifest : /\ n = [m EXCEPT !.state = "restored"]
                              /\ Genuine(cmd.txn, n)
    BY <1>1, StateOnly
  <2>2. txns' = [txns EXCEPT ![cmd.txn] = n]
    BY <1>1, <1>2, <2>1
  <2>3. Live = Both(Original(m.ver))
    BY <1>1, <1>2 DEF Genuine, Orig
  <2>4. bundle.txn = None
    BY <2>3, Originals DEF Live
  <2> QED BY <1>1, <1>2, <2>1, <2>2, <2>4, ManifestKeepsOwn DEF Leave
<1>3. CASE UNCHANGED txns /\ (Advance("undoRestore") \/ Leave)
  BY <1>3, OwnStays DEF Advance, Leave
<1> QED BY <1>2, <1>3

LEMMA OwnInvariant == Spec => []OwnInv
<1>1. Init => OwnInv
  BY Originals DEF Init, OwnInv, Recorded, Intent, LiveIsRecorded
<1>2. Ind /\ OwnInv /\ [Next]_vars => OwnInv'
  <2> SUFFICES ASSUME Ind, OwnInv, [Next]_vars PROVE OwnInv'
    OBVIOUS
  <2>1. CASE Begin \/ Rerun
    BY <2>1, BeginKeepsOwn
  <2>2. CASE Patch
    BY <2>2, CreateKeepsOwn, PrepareKeepsOwn, StepsStayOwn, FinalizeKeepsOwn,
       CompleteKeepsOwn DEF Patch
  <2>3. CASE Undo
    BY <2>3, UndoTransactionKeepsOwn, StepsStayOwn, RolledBackKeepsOwn DEF Undo
  <2>4. CASE Restore
    BY <2>4, SnapshotKeepsOwn, FinishRestoreKeepsOwn, StepsStayOwn DEF Restore
  <2>5. CASE Interrupted
    BY <2>5, StepsStayOwn
  <2>6. CASE Settle \/ Update
    BY <2>6, UpdaterStaysOwn
  <2>7. CASE UNCHANGED vars
    BY <2>7, OwnStays DEF vars
  <2> QED BY <2>1, <2>2, <2>3, <2>4, <2>5, <2>6, <2>7 DEF Next
<1> QED BY <1>1, <1>2, IndInvariant, PTL DEF Spec

\* Between commands an injected bundle with a product of its build can be
\* uninstalled: its manifest says "installed", recorded exactly this pair and
\* backs up the vendor's own, whatever commands, failures, crashes and updates
\* came before (_bound_transaction).
THEOREM InjectedCanBeUninstalled == Spec => []InjectedIsUninstallable
<1>1. Ind /\ PairInv /\ OwnInv => InjectedIsUninstallable
  <2> SUFFICES ASSUME Ind, PairInv, OwnInv, ~Pending, bundle.txn # None,
                      bundle.ver = product.ver
               PROVE  /\ Bound(bundle.txn)
                      /\ txns[bundle.txn].orig = Both(Original(bundle.ver))
    BY DEF InjectedIsUninstallable
  <2>1. bundle = product /\ bundle.txn \in Txns
    BY DEF PairInv, TornPairIsFlagged, Ind, TypeOK, Content
  <2>2. /\ txns[bundle.txn] # None /\ txns[bundle.txn].state = "installed"
        /\ txns[bundle.txn].patched = Live /\ Genuine(bundle.txn, txns[bundle.txn])
    BY <2>1 DEF OwnInv, LiveIsRecorded, Recorded
  <2>3. txns[bundle.txn].ver = bundle.ver
        /\ txns[bundle.txn].orig = Both(Original(bundle.ver))
    BY <2>2 DEF Genuine, Live
  <2> QED BY <2>1, <2>2, <2>3 DEF Bound
<1> QED BY <1>1, IndInvariant, PairInvariant, OwnInvariant, PTL

-----------------------------------------------------------------------------
(***************************************************************************)
(* NoDowngrade.                                                            *)
(***************************************************************************)
\* All the files that a command has to do with are of its build.
LEMMA OneBuildVersions ==
  ASSUME Ind, OwnInv, OneBuild
  PROVE  /\ pc \in OpSteps => /\ cmd.op.before.bundle.ver = cmd.ver
                              /\ cmd.op.before.product.ver = cmd.ver
                              /\ cmd.op.target.bundle.ver = cmd.ver
                              /\ cmd.op.target.product.ver = cmd.ver
         /\ pc \in RestoreSteps => /\ Orig.bundle.ver = cmd.ver
                                   /\ Orig.product.ver = cmd.ver
                                   /\ txns[cmd.txn].patched.bundle.ver = cmd.ver
                                   /\ txns[cmd.txn].patched.product.ver = cmd.ver
<1>1. ASSUME NEW c, NEW v, c.ver = v
      PROVE  Both(c).bundle.ver = v /\ Both(c).product.ver = v
  BY <1>1 DEF Both
<1>2. ASSUME NEW t, NEW m, Genuine(t, m), m.state # "prepared"
      PROVE  /\ m.orig.bundle.ver = m.ver /\ m.orig.product.ver = m.ver
             /\ m.patched.bundle.ver = m.ver /\ m.patched.product.ver = m.ver
  <2>1. m.orig = Both(Original(m.ver)) /\ Original(m.ver).ver = m.ver
    BY <1>2, Originals DEF Genuine
  <2>2. m.patched = Both(m.patched.bundle) /\ m.patched.bundle.ver = m.ver
    BY <1>2 DEF Genuine
  <2>3. m.orig.bundle.ver = m.ver /\ m.orig.product.ver = m.ver
    BY <2>1, <1>1
  <2>4. PICK c : c = m.patched.bundle
    OBVIOUS
  <2>5. m.patched.product.ver = m.ver
    BY <2>2, <2>4, <1>1
  <2> QED BY <2>2, <2>3, <2>5
<1>3. ASSUME pc \in OpSteps
      PROVE  /\ cmd.op.before.bundle.ver = cmd.ver
             /\ cmd.op.before.product.ver = cmd.ver
             /\ cmd.op.target.bundle.ver = cmd.ver
             /\ cmd.op.target.product.ver = cmd.ver
  <2>1. PICK op \in Operation : op = cmd.op
    BY <1>3, OwnOperation
  <2>2. GenuineOperation(op) /\ op.ver = cmd.ver
    BY <1>3, <2>1, OwnOperation DEF OneBuild
  <2>3. PICK m \in Manifest : m = op.txnBefore
    BY <2>1, Projections
  <2>4. /\ m.ver = cmd.ver /\ op.before = BeforeOf(m) /\ Usable(op.txn, m)
        /\ op.target = Both(op.target.bundle) /\ op.target.bundle.ver = cmd.ver
    BY <2>2, <2>3 DEF GenuineOperation
  <2>5. PICK c : c = op.target.bundle
    OBVIOUS
  <2>6. op.target.product.ver = cmd.ver
    BY <2>4, <2>5, <1>1
  <2>7. CASE m.state = "prepared"
    <3>1. op.before = Both(Original(m.ver)) /\ Original(m.ver).ver = cmd.ver
      BY <2>4, <2>7, Originals DEF BeforeOf, Usable
    <3> QED BY <2>1, <2>4, <2>6, <3>1, <1>1
  <2>8. CASE m.state # "prepared"
    <3>1. op.before = m.patched /\ Genuine(op.txn, m)
      BY <2>4, <2>8 DEF BeforeOf, Usable
    <3> QED BY <2>1, <2>4, <2>6, <2>8, <3>1, <1>2
  <2> QED BY <2>7, <2>8
<1>4. ASSUME pc \in RestoreSteps
      PROVE  /\ Orig.bundle.ver = cmd.ver /\ Orig.product.ver = cmd.ver
             /\ txns[cmd.txn].patched.bundle.ver = cmd.ver
             /\ txns[cmd.txn].patched.product.ver = cmd.ver
  <2>1. PICK m : m = txns[cmd.txn]
    OBVIOUS
  <2>2. m.state # "prepared" /\ m.ver = cmd.ver /\ Genuine(cmd.txn, m)
    BY <1>4, <2>1 DEF Ind, Phase, OneBuild, OwnInv, Recorded
  <2> QED BY <2>1, <2>2, <1>2 DEF Orig
<1> QED BY <1>3, <1>4

\* The steps between the journal (or the "restoring" manifest) and the end.
Midway == \/ CheckBundle \/ CheckProduct \/ CheckUndoProduct \/ CheckUndoBundle
          \/ CheckRestoreProduct \/ CheckRestoreBundle
          \/ UndoRestore \/ UndoRestoredProduct
          \/ WriteBundle \/ WriteProduct \/ UndoProduct \/ UndoBundle
          \/ RestoreProduct \/ RestoreBundle \/ PutBackBundle \/ PutBackProduct
          \/ Finalize \/ CompleteOperation \/ UndoTransaction \/ RolledBack

LEMMA MidwaySteps ==
  ASSUME Midway
  PROVE  /\ UNCHANGED Environment /\ pc \in SeenSteps
         /\ Leave \/ (UNCHANGED cmd /\ Onward(pc'))
         /\ UNCHANGED txns \/ Leave \/ pc' \in OpSteps
         /\ \/ UNCHANGED bundle
            \/ /\ pc \in OpSteps
               /\ bundle' \in {cmd.op.before.bundle, cmd.op.target.bundle}
            \/ pc \in RestoreSteps /\ bundle' \in {Orig.bundle, cmd.seen.bundle}
         /\ \/ UNCHANGED product
            \/ /\ pc \in OpSteps
               /\ product' \in {cmd.op.before.product, cmd.op.target.product}
            \/ pc \in RestoreSteps /\ product' \in {Orig.product, cmd.seen.product}
<1> USE DEF Check, PutBundle, PutProduct, Advance, RollBack, Disk, OpSteps,
            SeenSteps, RestoreSteps, Applying, Rewriting, UndoSteps
<1>1. UNCHANGED Environment /\ pc \in SeenSteps
  BY DEF Midway, CheckBundle, CheckProduct, CheckUndoProduct, CheckUndoBundle,
         CheckRestoreProduct, CheckRestoreBundle, UndoRestore, UndoRestoredProduct,
         WriteBundle, WriteProduct, UndoProduct, UndoBundle, RestoreProduct,
         RestoreBundle, PutBackBundle, PutBackProduct, Finalize, CompleteOperation,
         UndoTransaction, RolledBack
<1>2. Leave \/ (UNCHANGED cmd /\ Onward(pc'))
  BY DEF Midway, CheckBundle, CheckProduct, CheckUndoProduct, CheckUndoBundle,
         CheckRestoreProduct, CheckRestoreBundle, UndoRestore, UndoRestoredProduct,
         WriteBundle, WriteProduct, UndoProduct, UndoBundle, RestoreProduct,
         RestoreBundle, PutBackBundle, PutBackProduct, Finalize, CompleteOperation,
         UndoTransaction, RolledBack, Onward, Steps
<1>3. UNCHANGED txns \/ Leave \/ pc' \in OpSteps
  BY DEF Midway, CheckBundle, CheckProduct, CheckUndoProduct, CheckUndoBundle,
         CheckRestoreProduct, CheckRestoreBundle, UndoRestore, UndoRestoredProduct,
         WriteBundle, WriteProduct, UndoProduct, UndoBundle, RestoreProduct,
         RestoreBundle, PutBackBundle, PutBackProduct, Finalize, CompleteOperation,
         UndoTransaction, RolledBack
<1>4. \/ UNCHANGED bundle
      \/ /\ pc \in OpSteps
         /\ bundle' \in {cmd.op.before.bundle, cmd.op.target.bundle}
      \/ pc \in RestoreSteps /\ bundle' \in {Orig.bundle, cmd.seen.bundle}
  BY DEF Midway, CheckBundle, CheckProduct, CheckUndoProduct, CheckUndoBundle,
         CheckRestoreProduct, CheckRestoreBundle, UndoRestore, UndoRestoredProduct,
         WriteBundle, WriteProduct, UndoProduct, UndoBundle, RestoreProduct,
         RestoreBundle, PutBackBundle, PutBackProduct, Finalize, CompleteOperation,
         UndoTransaction, RolledBack
<1>5. \/ UNCHANGED product
      \/ /\ pc \in OpSteps
         /\ product' \in {cmd.op.before.product, cmd.op.target.product}
      \/ pc \in RestoreSteps /\ product' \in {Orig.product, cmd.seen.product}
  BY DEF Midway, CheckBundle, CheckProduct, CheckUndoProduct, CheckUndoBundle,
         CheckRestoreProduct, CheckRestoreBundle, UndoRestore, UndoRestoredProduct,
         WriteBundle, WriteProduct, UndoProduct, UndoBundle, RestoreProduct,
         RestoreBundle, PutBackBundle, PutBackProduct, Finalize, CompleteOperation,
         UndoTransaction, RolledBack
<1> QED BY <1>1, <1>2, <1>3, <1>4, <1>5

\* So the files stay of the command's build.
LEMMA MidwayKeepsBuild ==
  ASSUME Ind, OwnInv, OneBuild, Midway
  PROVE  /\ bundle.ver = cmd.ver /\ bundle'.ver = cmd.ver
         /\ product.ver = cmd.ver /\ product'.ver = cmd.ver
<1>1. bundle.ver = cmd.ver /\ product.ver = cmd.ver
  BY MidwaySteps DEF OneBuild, SeenSteps, Applying, Rewriting, UndoSteps
<1>2. cmd.seen.bundle.ver = cmd.ver /\ cmd.seen.product.ver = cmd.ver
  BY MidwaySteps DEF OneBuild
<1> QED BY <1>1, <1>2, MidwaySteps, OneBuildVersions

\* A step by which a command goes on.
LEMMA QuietStep ==
  ASSUME QuietInv, pc # "idle", UNCHANGED Environment,
         \/ pc' = "idle"
         \/ cmd'.since = cmd.since /\ (OneBuild => OneBuild')
  PROVE  QuietInv'
BY DEF QuietInv, Environment

LEMMA MidwayKeepsQuiet ==
  ASSUME Ind, OwnInv, QuietInv, Midway
  PROVE  QuietInv'
<1>1. pc # "idle" /\ UNCHANGED Environment
  BY MidwaySteps DEF SeenSteps, Applying, Rewriting, UndoSteps
<1>2. CASE Leave
  BY <1>1, <1>2, QuietStep DEF Leave
<1>3. CASE ~Leave
  <2>1. ASSUME OneBuild
        PROVE  OneBuild'
    <3>1. bundle'.ver = cmd.ver /\ product'.ver = cmd.ver
      BY <2>1, MidwayKeepsBuild
    <3>2. UNCHANGED cmd /\ Onward(pc') /\ todo' = todo
      BY <1>3, MidwaySteps DEF Environment
    <3>3. pc' \notin {"prepare", "snapshot"}
      BY <3>2 DEF Onward
    <3>4. pc' \in RestoreSteps => pc' \notin OpSteps
      BY DEF RestoreSteps, OpSteps, Applying, Rewriting, UndoSteps
    <3>5. pc' \in RestoreSteps => txns'[cmd.txn].ver = cmd.ver
      BY <1>3, <2>1, <3>2, <3>4, MidwaySteps DEF OneBuild, Onward
    <3> QED BY <2>1, <3>1, <3>2, <3>3, <3>5 DEF OneBuild, Onward
  <2> QED BY <1>1, <1>3, <2>1, MidwaySteps, QuietStep
<1> QED BY <1>2, <1>3

\* A recovery goes on only when it finds files of its build.
LEMMA InspectKeepsQuiet ==
  ASSUME Ind, OwnInv, QuietInv, Inspect \/ InspectRestore
  PROVE  QuietInv'
<1>1. UNCHANGED <<Disk, Environment>> /\ pc # "idle"
  BY DEF Inspect, InspectRestore
<1>2. CASE Leave
  BY <1>1, <1>2, QuietStep DEF Leave
<1>3. ASSUME ~Leave
      PROVE  cmd'.since = cmd.since /\ (OneBuild => OneBuild')
  <2>1. PICK s : s = Live
    OBVIOUS
  <2>1a. s.bundle = bundle /\ s.product = product
    BY <2>1 DEF Live
  <2>2. cmd' = [cmd EXCEPT !.seen = s] /\ cmd \in Command
    BY <1>3, <2>1 DEF Inspect, InspectRestore, Ind, TypeOK
  <2>3. /\ cmd'.seen = s /\ cmd'.ver = cmd.ver /\ cmd'.since = cmd.since
        /\ cmd'.op = cmd.op /\ cmd'.txn = cmd.txn
    BY <2>2 DEF Command
  <2>4. \/ pc \in OpSteps /\ pc' = "undoTransaction" /\ Recognised(cmd.op)
        \/ pc \in RestoreSteps /\ pc' = "checkRestoreProduct"
           /\ RestoreRecognised(txns[cmd.txn])
    BY <1>3 DEF Inspect, InspectRestore, OpSteps, RestoreSteps
  <2>5. OneBuild => bundle.ver = cmd.ver
    BY <1>3, <2>4, OneBuildVersions DEF Recognised, RestoreRecognised, Orig
  <2>6. /\ todo' = todo /\ txns' = txns /\ bundle' = bundle /\ product' = product
    BY <1>1 DEF Disk, Environment
  <2>7. CASE pc \in OpSteps /\ pc' = "undoTransaction"
    BY <1>3, <2>1, <2>1a, <2>3, <2>5, <2>6, <2>7
    DEF OneBuild, RestoreSteps, Rewriting, OpSteps, Applying, UndoSteps
  <2>8. CASE pc \in RestoreSteps /\ pc' = "checkRestoreProduct"
    BY <1>3, <2>1, <2>1a, <2>3, <2>5, <2>6, <2>8
    DEF OneBuild, RestoreSteps, Rewriting, OpSteps, Applying, UndoSteps
  <2> QED BY <2>3, <2>4, <2>7, <2>8
<1> QED BY <1>1, <1>2, <1>3, QuietStep

\* A command that begins finds no update under way, and a pair of one build or
\* a recovery of the product's build.
LEMMA BeginKeepsQuiet ==
  ASSUME Ind, OwnInv, Begin \/ Rerun
  PROVE  QuietInv'
<1>1. UNCHANGED <<Disk, Environment>> /\ todo = {}
  BY DEF Begin, Rerun, BeginInstall, BeginRefresh, BeginUninstall, BeginRecovery,
         BeginRestoreRecovery, Start
<1>2. product.ver \in Versions /\ latest \in Versions /\ latest <= latest
  BY MaxVersionAssumption DEF Ind, TypeOK, Content, Versions
<1>3. ASSUME Bound(bundle.txn)
      PROVE  /\ bundle.ver = product.ver /\ txns[bundle.txn].ver = product.ver
             /\ txns[bundle.txn].patched = Live
  <2>1. PICK m : m = txns[bundle.txn]
    OBVIOUS
  <2>2. /\ m.ver = product.ver /\ m.patched = Live /\ Genuine(bundle.txn, m)
        /\ m.state # "prepared"
    BY <1>3, <2>1 DEF Bound, OwnInv, Recorded
  <2> QED BY <2>1, <2>2 DEF Genuine, Live
<1>4. ASSUME NEW p \in Payloads, BeginInstall(p)
      PROVE  QuietInv'
  <2>1. cmd' = [ver |-> product.ver, since |-> latest, txn |-> None,
                payload |-> p, op |-> None, seen |-> None]
    BY <1>4 DEF BeginInstall, Start, NoCommand
  <2>2. cmd'.ver = product.ver /\ cmd'.since = latest
    BY <2>1
  <2>3. pc' = "create" /\ bundle.ver = product.ver
    BY <1>4, Originals DEF BeginInstall, Start, Live
  <2> QED
    BY <1>1, <1>2, <2>2, <2>3
    DEF QuietInv, OneBuild, Disk, Environment, OpSteps, SeenSteps, RestoreSteps,
        Applying, Rewriting, UndoSteps
<1>5. ASSUME NEW p \in Payloads, BeginRefresh(p)
      PROVE  QuietInv'
  <2>1. cmd' = [ver |-> product.ver, since |-> latest, txn |-> bundle.txn,
                payload |-> p, op |-> None, seen |-> None]
    BY <1>5 DEF BeginRefresh, Start, NoCommand
  <2>2. cmd'.ver = product.ver /\ cmd'.since = latest /\ cmd'.txn = bundle.txn
    BY <2>1
  <2>3. pc' = "prepare" /\ Bound(bundle.txn)
    BY <1>5 DEF BeginRefresh, Start
  <2> QED
    BY <1>1, <1>2, <1>3, <2>2, <2>3
    DEF QuietInv, OneBuild, Disk, Environment, OpSteps, SeenSteps, RestoreSteps,
        Applying, Rewriting, UndoSteps
<1>6. ASSUME BeginUninstall
      PROVE  QuietInv'
  <2>1. cmd' = [ver |-> product.ver, since |-> latest, txn |-> bundle.txn,
                payload |-> None, op |-> None, seen |-> None]
    BY <1>6 DEF BeginUninstall, Start, NoCommand
  <2>2. cmd'.ver = product.ver /\ cmd'.since = latest /\ cmd'.txn = bundle.txn
    BY <2>1
  <2>3. pc' = "snapshot" /\ Bound(bundle.txn)
    BY <1>6 DEF BeginUninstall, Start
  <2>4. Live' = Live /\ txns' = txns
    BY <1>1 DEF Live, Disk
  <2> QED
    BY <1>1, <1>2, <1>3, <2>2, <2>3, <2>4
    DEF QuietInv, OneBuild, Disk, Environment, OpSteps, SeenSteps, RestoreSteps,
        Applying, Rewriting, UndoSteps
<1>7. ASSUME BeginRecovery
      PROVE  QuietInv'
  <2>1. PICK op \in active : /\ op.ver = product.ver
                             /\ Start("inspect", [NoCommand EXCEPT !.op = op, !.txn = op.txn])
    BY <1>7 DEF BeginRecovery
  <2>2. cmd' = [ver |-> product.ver, since |-> latest, txn |-> op.txn,
                payload |-> None, op |-> op, seen |-> None]
    BY <2>1 DEF Start, NoCommand
  <2>3. cmd'.ver = product.ver /\ cmd'.since = latest /\ cmd'.op = op
    BY <2>2
  <2>4. pc' = "inspect"
    BY <2>1 DEF Start
  <2> QED
    BY <1>1, <1>2, <2>1, <2>3, <2>4
    DEF QuietInv, OneBuild, Disk, Environment, OpSteps, SeenSteps, RestoreSteps,
        Applying, Rewriting, UndoSteps
<1>8. ASSUME BeginRestoreRecovery
      PROVE  QuietInv'
  <2>1. PICK t \in Restoring : /\ txns[t].ver = product.ver
                               /\ Start("inspectRestore", [NoCommand EXCEPT !.txn = t])
    BY <1>8 DEF BeginRestoreRecovery
  <2>2. cmd' = [ver |-> product.ver, since |-> latest, txn |-> t,
                payload |-> None, op |-> None, seen |-> None]
    BY <2>1 DEF Start, NoCommand
  <2>3. cmd'.ver = product.ver /\ cmd'.since = latest /\ cmd'.txn = t
    BY <2>2
  <2>4. pc' = "inspectRestore"
    BY <2>1 DEF Start
  <2> QED
    BY <1>1, <1>2, <2>1, <2>3, <2>4
    DEF QuietInv, OneBuild, Disk, Environment, OpSteps, SeenSteps, RestoreSteps,
        Applying, Rewriting, UndoSteps
<1> QED BY <1>4, <1>5, <1>6, <1>7, <1>8 DEF Begin, Rerun

LEMMA CreateKeepsQuiet ==
  ASSUME Ind, OwnInv, QuietInv, NEW t \in Txns, CreateTransaction(t)
  PROVE  QuietInv'
<1> USE DEF CreateTransaction
<1>1. UNCHANGED <<bundle, product, active, Environment>> /\ pc = "create"
  OBVIOUS
<1>2. CASE Leave
  BY <1>1, <1>2, QuietStep DEF Leave
<1>3. ASSUME ~Leave
      PROVE  cmd'.since = cmd.since /\ (OneBuild => OneBuild')
  <2>1. PICK m : m = [state |-> "prepared", ver |-> cmd.ver, orig |-> Live,
                      patched |-> None]
    OBVIOUS
  <2>1a. m.ver = cmd.ver
    BY <2>1
  <2>2. txns'[t] = m
    BY <2>1 DEF Ind, TypeOK
  <2>3. cmd' = [cmd EXCEPT !.txn = t] /\ cmd \in Command /\ pc' = "prepare"
    BY <1>3 DEF Ind, TypeOK
  <2>4. cmd'.txn = t /\ cmd'.ver = cmd.ver /\ cmd'.since = cmd.since
    BY <2>3 DEF Command
  <2> QED
    BY <1>1, <1>3, <2>1a, <2>2, <2>3, <2>4
    DEF OneBuild, Environment, OpSteps, SeenSteps, RestoreSteps, Applying,
        Rewriting, UndoSteps
<1> QED BY <1>1, <1>2, <1>3, QuietStep

LEMMA PrepareKeepsQuiet ==
  ASSUME Ind, QuietInv, PrepareOperation
  PROVE  QuietInv'
<1> DEFINE op == OperationOf(txns[cmd.txn])
<1> USE DEF PrepareOperation
<1>1. UNCHANGED <<bundle, product, txns, Environment>> /\ pc = "prepare"
  OBVIOUS
<1>2. CASE Leave
  BY <1>1, <1>2, QuietStep DEF Leave
<1>3. ASSUME ~Leave
      PROVE  cmd'.since = cmd.since /\ (OneBuild => OneBuild')
  <2>1. PICK o : o = op
    OBVIOUS
  <2>1a. o.ver = cmd.ver
    BY <2>1 DEF OperationOf
  <2>1b. PICK s : s = o.before
    OBVIOUS
  <2>2. /\ cmd' = [cmd EXCEPT !.op = o, !.seen = s] /\ cmd \in Command
        /\ pc' = "checkBundle" /\ s = Live
    BY <1>3, <2>1, <2>1b DEF Ind, TypeOK
  <2>3. /\ cmd'.op = o /\ cmd'.seen = s /\ cmd'.ver = cmd.ver
        /\ cmd'.since = cmd.since
    BY <2>2 DEF Command
  <2>4. s.bundle = bundle /\ s.product = product
    BY <2>2 DEF Live
  <2> QED
    BY <1>1, <1>3, <2>1a, <2>2, <2>3, <2>4
    DEF OneBuild, Environment, OpSteps, SeenSteps, RestoreSteps, Applying,
        Rewriting, UndoSteps
<1> QED BY <1>1, <1>2, <1>3, QuietStep

LEMMA SnapshotKeepsQuiet ==
  ASSUME Ind, OwnInv, QuietInv, SnapshotForRestore
  PROVE  QuietInv'
<1> USE DEF SnapshotForRestore
<1>1. UNCHANGED <<bundle, product, active, Environment>> /\ pc = "snapshot"
  OBVIOUS
<1>2. cmd'.since = cmd.since /\ (OneBuild => OneBuild')
  <2>1. PICK m \in Manifest : /\ m = txns[cmd.txn] /\ m.state = "installed"
                              /\ Genuine(cmd.txn, m) /\ cmd.txn \in Txns
    BY DEF Ind, TypeOK, Phase, OwnInv, Recorded
  <2>2. PICK n \in Manifest : n = [m EXCEPT !.state = "restoring"] /\ n.ver = m.ver
    BY <2>1, StateOnly
  <2>3. txns'[cmd.txn] = n
    BY <2>1, <2>2 DEF Ind, TypeOK
  <2>4. PICK s : s = Live
    OBVIOUS
  <2>4a. s.bundle = bundle /\ s.product = product
    BY <2>4 DEF Live
  <2>5. cmd' = [cmd EXCEPT !.seen = s] /\ cmd \in Command
    BY <2>4 DEF Ind, TypeOK
  <2>6. /\ cmd'.seen = s /\ cmd'.ver = cmd.ver /\ cmd'.since = cmd.since
        /\ cmd'.txn = cmd.txn
    BY <2>5 DEF Command
  <2> QED
    BY <1>1, <2>1, <2>2, <2>3, <2>4, <2>4a, <2>6
    DEF OneBuild, Environment, OpSteps, SeenSteps, RestoreSteps, Applying,
        Rewriting, UndoSteps
<1> QED BY <1>1, <1>2, QuietStep

LEMMA FinishRestoreKeepsQuiet ==
  ASSUME Ind, QuietInv, FinishRestore
  PROVE  QuietInv'
<1> USE DEF FinishRestore
<1>1. UNCHANGED <<bundle, product, active, Environment>> /\ pc = "finishRestore"
  OBVIOUS
<1>2. CASE Leave
  BY <1>1, <1>2, QuietStep DEF Leave
<1>3. CASE Advance("undoRestore") /\ UNCHANGED txns
  <2>1. OneBuild => OneBuild'
    BY <1>1, <1>3
    DEF OneBuild, Advance, Environment, OpSteps, SeenSteps, RestoreSteps, Applying,
        Rewriting, UndoSteps
  <2> QED BY <1>1, <1>3, <2>1, QuietStep DEF Advance
<1> QED BY <1>2, <1>3

LEMMA InterruptedKeepsQuiet ==
  ASSUME QuietInv, Interrupted
  PROVE  QuietInv'
<1>1. CASE Crash
  BY <1>1, QuietStep DEF Crash, Leave
<1>2. CASE StepFails
  <2>1. /\ UNCHANGED <<Disk, Environment, cmd>>
        /\ pc' \in {"inspect", "undoRestore"}
        /\ pc' = "inspect" => pc \in OpSteps
        /\ pc' = "undoRestore" => pc \in SeenSteps \cap RestoreSteps
        /\ pc \notin {"idle", "inspect", "inspectRestore"}
    BY <1>2 DEF StepFails, RollBack, Advance, OpSteps, SeenSteps, RestoreSteps,
                Applying, Rewriting
  <2>2. OneBuild => OneBuild'
    BY <2>1
    DEF OneBuild, Disk, Environment, OpSteps, SeenSteps, RestoreSteps, Applying,
        Rewriting, UndoSteps
  <2> QED BY <2>1, <2>2, QuietStep
<1> QED BY <1>1, <1>2 DEF Interrupted

\* The updater's writes come after a newer build has begun.
LEMMA UpdaterKeepsQuiet ==
  ASSUME Ind, QuietInv, Settle \/ Update
  PROVE  QuietInv'
<1>1. latest \in Int /\ cmd.since \in Versions => cmd.since \in Int
  BY MaxVersionAssumption DEF Ind, TypeOK, Versions
<1>2. CASE Settle
  BY <1>2 DEF Settle, QuietInv, OneBuild, Disk, Live
<1>3. CASE StartUpdate
  <2>1. latest' = latest + 1 /\ UNCHANGED <<pc, cmd>>
    BY <1>3 DEF StartUpdate
  <2>2. pc # "idle" => /\ cmd.since \in Versions /\ cmd.since <= latest'
                       /\ latest' # cmd.since
    BY <1>1, <2>1, MaxVersionAssumption DEF QuietInv, Versions, Ind, TypeOK
  <2> QED BY <2>1, <2>2 DEF QuietInv
<1>4. CASE UpdateStops \/ \E f \in todo : UpdateFile(f)
  <2>1. todo # {} /\ UNCHANGED <<latest, pc, cmd>>
    BY <1>4 DEF UpdateStops, UpdateFile
  <2> QED BY <2>1 DEF QuietInv, OneBuild
<1> QED BY <1>2, <1>3, <1>4 DEF Update

LEMMA QuietInvariant == Spec => []QuietInv
<1>1. Init => QuietInv
  BY DEF Init, QuietInv
<1>2. Ind /\ OwnInv /\ QuietInv /\ [Next]_vars => QuietInv'
  <2> SUFFICES ASSUME Ind, OwnInv, QuietInv, [Next]_vars PROVE QuietInv'
    OBVIOUS
  <2>1. CASE Begin \/ Rerun
    BY <2>1, BeginKeepsQuiet
  <2>2. CASE Patch
    BY <2>2, CreateKeepsQuiet, PrepareKeepsQuiet, MidwayKeepsQuiet DEF Patch, Midway
  <2>3. CASE Undo
    BY <2>3, InspectKeepsQuiet, MidwayKeepsQuiet DEF Undo, Midway
  <2>4. CASE Restore
    BY <2>4, SnapshotKeepsQuiet, InspectKeepsQuiet, FinishRestoreKeepsQuiet,
       MidwayKeepsQuiet DEF Restore, Midway
  <2>5. CASE Interrupted
    BY <2>5, InterruptedKeepsQuiet
  <2>6. CASE Settle \/ Update
    BY <2>6, UpdaterKeepsQuiet
  <2>7. CASE UNCHANGED vars
    BY <2>7 DEF vars, QuietInv, OneBuild, Live
  <2> QED BY <2>1, <2>2, <2>3, <2>4, <2>5, <2>6, <2>7 DEF Next
<1> QED BY <1>1, <1>2, IndInvariant, OwnInvariant, PTL DEF Spec

\* No command puts a file back to an older build than the one it finds there,
\* unless an update began while it ran: the journals and backups of older
\* builds that lie around are never taken for the present one's
\* (rollback_operation, recover_interrupted_restore).
THEOREM FilesNeverGoBack == Spec => NoDowngrade
<1> DEFINE Ahead == todo' = todo /\ latest = cmd.since =>
                      bundle'.ver >= bundle.ver /\ product'.ver >= product.ver
<1>1. Ind /\ OwnInv /\ QuietInv /\ [Next]_vars => [Ahead]_vars
  <2> SUFFICES ASSUME Ind, OwnInv, QuietInv, Next, todo' = todo, latest = cmd.since
               PROVE  bundle'.ver >= bundle.ver /\ product'.ver >= product.ver
    OBVIOUS
  <2>1. bundle.ver \in Int /\ product.ver \in Int
    BY MaxVersionAssumption DEF Ind, TypeOK, Content, Versions
  <2>2. CASE UNCHANGED <<bundle, product>>
    BY <2>1, <2>2
  <2>3. CASE Midway
    <3>1. pc # "idle"
      BY <2>3, MidwaySteps DEF SeenSteps, Applying, Rewriting, UndoSteps
    <3>2. OneBuild
      BY <3>1 DEF QuietInv
    <3> QED BY <2>1, <2>3, <3>2, MidwayKeepsBuild
  <2>4. UNCHANGED <<bundle, product>> \/ Midway
    <3>1. CASE Begin \/ Rerun
      BY <3>1 DEF Begin, Rerun, BeginInstall, BeginRefresh, BeginUninstall,
                  BeginRecovery, BeginRestoreRecovery, Start, Disk
    <3>2. CASE Patch \/ Undo \/ Restore
      BY <3>2 DEF Patch, Undo, Restore, Midway, CreateTransaction, PrepareOperation,
                  Inspect, InspectRestore, SnapshotForRestore, FinishRestore, Disk
    <3>3. CASE Interrupted \/ Settle \/ Update
      BY <3>3 DEF Interrupted, StepFails, Crash, Settle, Update, StartUpdate,
                  UpdateFile, UpdateStops, Disk
    <3> QED BY <3>1, <3>2, <3>3 DEF Next
  <2> QED BY <2>2, <2>3, <2>4
<1>2. [][Ahead]_vars <=> NoDowngrade
  BY DEF NoDowngrade
<1> QED BY <1>1, <1>2, IndInvariant, OwnInvariant, QuietInvariant, PTL DEF Spec

-----------------------------------------------------------------------------
(***************************************************************************)
(* The refinement of AtomicPatch.  Two steps change what a user sees: the  *)
(* retirement of the journal is the install or the refresh, and the        *)
(* "restoring" mark is the uninstall.  All others, the writes of the two   *)
(* files among them, are hidden behind the record that is pending.         *)
(***************************************************************************)
Seen(c) == [txn |-> c.txn, payload |-> c.payload]

ViewOf ==
  /\ \A op : active = {op} /\ Restoring = {} => View = Seen(op.before.bundle)
  /\ \A t : active = {} /\ Restoring = {t} => View = Seen(txns[t].orig.bundle)
  /\ ~Pending /\ bundle = product => View = Seen(bundle)

LEMMA ViewIs == ViewOf
<1>1. ASSUME NEW op, active = {op}, Restoring = {}
      PROVE  View = Seen(op.before.bundle)
  <2>1. PICK chosen : chosen = CHOOSE o \in active : TRUE
    OBVIOUS
  <2>2. chosen = op
    BY <1>1, <2>1
  <2>3. View = Seen(chosen.before.bundle)
    BY <1>1, <2>1 DEF View, Seen, Pending
  <2> QED BY <2>2, <2>3
<1>2. ASSUME NEW t, active = {}, Restoring = {t}
      PROVE  View = Seen(txns[t].orig.bundle)
  <2>1. (CHOOSE u \in Restoring : TRUE) = t
    BY <1>2
  <2> QED BY <1>2, <2>1 DEF View, Seen, Pending
<1>3. ~Pending /\ bundle = product => View = Seen(bundle)
  BY DEF View, Seen, Pending
<1> QED BY <1>1, <1>2, <1>3 DEF ViewOf

LEMMA ViewIsNext == ViewOf'
BY ViewIs, PTL

NoUpdate == todo = {}

Quiet == /\ MaxVersion = 0 /\ NoUpdate
         /\ Ind /\ PairInv /\ OwnInv /\ QuietInv

\* Without updates every command works on one build, and a pair without a
\* pending recovery matches.
Matches == ~Pending => bundle = product

LEMMA QuietFacts == Quiet => (pc # "idle" => OneBuild) /\ Matches
<1> SUFFICES ASSUME Quiet PROVE (pc # "idle" => OneBuild) /\ Matches
  OBVIOUS
<1>1. Versions = {0}
  BY DEF Quiet, Versions
<1>2. latest = 0 /\ (pc # "idle" => cmd.since = 0)
  BY <1>1 DEF Quiet, Ind, TypeOK, QuietInv
<1>3. bundle.ver = 0 /\ product.ver = 0
  BY <1>1 DEF Quiet, Ind, TypeOK, Content
<1> QED BY <1>2, <1>3 DEF Matches, Quiet, QuietInv, PairInv, TornPairIsFlagged

LEMMA QuietFactsNext == Quiet' => Matches'
BY QuietFacts, PTL

\* What is pending hides the files.
LEMMA ViewStays ==
  ASSUME Quiet, Quiet', UNCHANGED active,
         \/ active # {}
         \/ UNCHANGED txns /\ (Pending \/ UNCHANGED <<bundle, product>>)
  PROVE  View' = View
<1>1. CASE active # {}
  <2>1. PICK op \in active : TRUE
    BY <1>1
  <2>2. active = {op} /\ Restoring = {}
    BY <2>1 DEF Quiet, Ind, OneRecovery
  <2>3. Restoring' = {}
    BY <2>2 DEF Quiet, Ind, OneRecovery
  <2> QED BY <2>2, <2>3, ViewIs, ViewIsNext DEF ViewOf
<1>2. CASE active = {} /\ UNCHANGED txns
  <2>1. Restoring' = Restoring
    BY <1>2 DEF Restoring
  <2>2. CASE Restoring # {}
    <3>1. PICK t \in Restoring : TRUE
      BY <2>2
    <3>2. Restoring = {t}
      BY <3>1 DEF Quiet, Ind, OneRecovery
    <3> QED BY <1>2, <2>1, <3>2, ViewIs, ViewIsNext DEF ViewOf
  <2>3. CASE Restoring = {}
    <3>1. ~Pending /\ ~Pending' /\ UNCHANGED <<bundle, product>>
      BY <1>2, <2>1, <2>3 DEF Pending
    <3>2. bundle = product
      BY <3>1, QuietFacts DEF Matches
    <3> QED BY <3>1, <3>2, ViewIs, ViewIsNext DEF ViewOf
  <2> QED BY <2>2, <2>3
<1> QED BY <1>1, <1>2

\* The end of an operation shows the files that it found or left.
LEMMA ViewRetired ==
  ASSUME Quiet, Quiet', NEW op, active = {op}, active' = {},
         UNCHANGED <<bundle, product, txns>>
  PROVE  View = Seen(op.before.bundle) /\ View' = Seen(bundle)
<1>1. Restoring = {} /\ Restoring' = Restoring
  BY DEF Quiet, Ind, OneRecovery, Restoring
<1>2. ~Pending'
  BY <1>1 DEF Pending
<1>3. bundle' = product'
  BY <1>2, QuietFactsNext DEF Matches
<1> QED BY <1>1, <1>2, <1>3, ViewIs, ViewIsNext DEF ViewOf

(***************************************************************************)
(* The steps.                                                              *)
(***************************************************************************)
LEMMA CompleteIsAtomic ==
  ASSUME Quiet, Quiet', CompleteOperation
  PROVE  Abstract!Install \/ Abstract!Refresh \/ UNCHANGED View
<1> USE DEF CompleteOperation
<1>1. pc \in OpSteps
  BY DEF OpSteps, Applying
<1>2. CASE active' = active
  BY <1>1, <1>2, OwnOperation, ViewStays DEF Quiet
<1>3. CASE Live = cmd.op.target /\ active' = active \ {cmd.op}
  <2>1. PICK op \in Operation : /\ op = cmd.op /\ GenuineOperation(op)
                               /\ active = {op} /\ op.txn \in Txns
    BY <1>1, OwnOperation, Projections DEF Quiet
  <2>2. View = Seen(op.before.bundle) /\ View' = Seen(bundle)
    BY <1>3, <2>1, ViewRetired
  <2>3. bundle = op.target.bundle
    BY <1>3, <2>1 DEF Live
  <2>4. PICK t \in Txns, p \in Payloads : View' = [txn |-> t, payload |-> p] /\ t = op.txn
    BY <2>1, <2>2, <2>3 DEF GenuineOperation, Seen
  <2>5. PICK m \in Manifest : /\ m = op.txnBefore /\ Usable(op.txn, m)
                             /\ op.before = BeforeOf(m)
    BY <2>1, Projections DEF GenuineOperation
  <2>6. CASE m.state = "prepared"
    <3>1. op.before = Both(Original(m.ver))
      BY <2>5, <2>6 DEF BeforeOf, Usable
    <3>2. View = Abstract!Vendor
      BY <2>2, <3>1, Originals DEF Seen, Abstract!Vendor, Original
    <3> QED BY <2>4, <3>2 DEF Abstract!Install
  <2>7. CASE m.state # "prepared"
    <3>1. op.before = m.patched /\ m.patched.bundle.txn = op.txn
      BY <2>5, <2>7 DEF BeforeOf, Usable, Genuine
    <3>2. PICK q : View = [txn |-> t, payload |-> q]
      BY <2>2, <2>4, <3>1 DEF Seen
    <3>3. View # Abstract!Vendor
      BY <3>2, NoneAssumption DEF Abstract!Vendor
    <3>4. View' = [View EXCEPT !.payload = p]
      BY <2>4, <3>2
    <3> QED BY <3>3, <3>4 DEF Abstract!Refresh
  <2> QED BY <2>6, <2>7
<1> QED BY <1>2, <1>3

LEMMA RolledBackIsHidden ==
  ASSUME Quiet, Quiet', RolledBack
  PROVE  UNCHANGED View
<1> USE DEF RolledBack
<1>1. pc \in OpSteps
  BY DEF OpSteps, UndoSteps
<1>2. CASE active' = active
  BY <1>1, <1>2, OwnOperation, ViewStays DEF Quiet
<1>3. CASE Live = cmd.op.before /\ active' = active \ {cmd.op}
  <2>1. active = {cmd.op}
    BY <1>1, OwnOperation DEF Quiet
  <2>2. View = Seen(cmd.op.before.bundle) /\ View' = Seen(bundle)
    BY <1>3, <2>1, ViewRetired
  <2>3. bundle = cmd.op.before.bundle
    BY <1>3 DEF Live
  <2> QED BY <2>2, <2>3
<1> QED BY <1>2, <1>3

\* While a restore is pending, the vendor's files are what is there.
VendorWhileRestoring ==
  \A t : OwnInv /\ active = {} /\ Restoring = {t} => View = Abstract!Vendor

LEMMA RestoringIsVendor == VendorWhileRestoring
<1> SUFFICES ASSUME NEW t, OwnInv, active = {}, Restoring = {t}
             PROVE  View = Abstract!Vendor
  BY DEF VendorWhileRestoring
<1>1. PICK m : m = txns[t]
  OBVIOUS
<1>2. t \in Restoring
  OBVIOUS
<1>3. Genuine(t, m) /\ m.state # "prepared"
  BY <1>1, <1>2 DEF OwnInv, Recorded, Restoring
<1>4. m.orig = Both(Original(m.ver))
  BY <1>3 DEF Genuine
<1>5. m.orig.bundle = Original(m.ver)
  BY <1>4, Originals
<1>6. View = Seen(Original(m.ver))
  BY <1>1, <1>5, ViewIs DEF ViewOf
<1> QED BY <1>6 DEF Seen, Original, Abstract!Vendor

LEMMA RestoringIsVendorNext == VendorWhileRestoring'
BY RestoringIsVendor, PTL

LEMMA PrepareIsHidden ==
  ASSUME Quiet, Quiet', PrepareOperation
  PROVE  UNCHANGED View
<1> DEFINE op == OperationOf(txns[cmd.txn])
<1> USE DEF PrepareOperation
<1>1. active = {} /\ Restoring = {} /\ UNCHANGED <<bundle, product, txns>>
  BY DEF Quiet, Ind, Phase
<1>2. CASE active' = active
  BY <1>1, <1>2, ViewStays
<1>3. CASE Live = op.before /\ active' = active \cup {op}
  <2>1. ~Pending /\ bundle = product
    BY <1>1, QuietFacts DEF Pending, Matches
  <2>2. View = Seen(bundle)
    BY <2>1, ViewIs DEF ViewOf
  <2>3. PICK o : o = op
    OBVIOUS
  <2>4. active' = {o} /\ Live = o.before
    BY <1>1, <1>3, <2>3
  <2>5. View' = Seen(o.before.bundle)
    BY <1>1, <2>4, ViewIsNext DEF ViewOf, Restoring
  <2> QED BY <2>2, <2>4, <2>5 DEF Live
<1> QED BY <1>2, <1>3

LEMMA CreateIsHidden ==
  ASSUME Quiet, NEW t \in Txns, CreateTransaction(t)
  PROVE  UNCHANGED View
<1> USE DEF CreateTransaction
<1>1. /\ active = {} /\ Restoring = {} /\ UNCHANGED <<bundle, product, active>>
      /\ pc = "create"
  BY DEF Quiet, Ind, Phase
<1>2. Restoring' = {}
  <2>1. PICK m : /\ m = [state |-> "prepared", ver |-> cmd.ver, orig |-> Live,
                         patched |-> None]
                 /\ txns' = [txns EXCEPT ![t] = m]
    OBVIOUS
  <2>2. m.state = "prepared"
    BY <2>1
  <2>3. txns'[t] = m /\ \A u \in Txns : u # t => txns'[u] = txns[u]
    BY <2>1 DEF Quiet, Ind, TypeOK
  <2> QED BY <1>1, <2>2, <2>3 DEF Restoring
<1>3. ~Pending /\ ~Pending' /\ bundle = product
  BY <1>1, <1>2, QuietFacts DEF Pending, Matches
<1> QED BY <1>1, <1>3, ViewIs, ViewIsNext DEF ViewOf

LEMMA SnapshotIsUninstall ==
  ASSUME Quiet, OwnInv', Ind', SnapshotForRestore
  PROVE  Abstract!Uninstall
<1> USE DEF SnapshotForRestore
<1>1. /\ active = {} /\ Restoring = {} /\ UNCHANGED <<bundle, product, active>>
      /\ pc = "snapshot" /\ cmd.txn \in Txns
  BY DEF Quiet, Ind, Phase
<1>2. PICK m \in Manifest : /\ m = txns[cmd.txn] /\ m.state = "installed"
                            /\ Genuine(cmd.txn, m) /\ m.patched = Live
  BY <1>1, QuietFacts DEF Quiet, Ind, TypeOK, Phase, OwnInv, Recorded, OneBuild
<1>3. View = Seen(bundle) /\ bundle.txn = cmd.txn
  <2>1. ~Pending /\ bundle = product
    BY <1>1, QuietFacts DEF Pending, Matches
  <2>2. View = Seen(bundle)
    BY <2>1, ViewIs DEF ViewOf
  <2> QED BY <1>2, <2>2 DEF Genuine, Live
<1>4. View # Abstract!Vendor
  BY <1>1, <1>3, NoneAssumption DEF Seen, Abstract!Vendor
<1>5. PICK n \in Manifest : n = [m EXCEPT !.state = "restoring"] /\ n.state = "restoring"
  BY <1>2, StateOnly
<1>6. /\ txns'[cmd.txn] = n /\ n # None
      /\ \A u \in Txns : u # cmd.txn => txns'[u] = txns[u]
  BY <1>1, <1>2, <1>5, NoneAssumption DEF Quiet, Ind, TypeOK
<1>7. Restoring' = {cmd.txn} /\ active' = {}
  BY <1>1, <1>5, <1>6 DEF Restoring
<1>8. View' = Abstract!Vendor
  BY <1>7, RestoringIsVendorNext DEF VendorWhileRestoring
<1> QED BY <1>4, <1>8 DEF Abstract!Uninstall

LEMMA FinishRestoreIsHidden ==
  ASSUME Quiet, Quiet', FinishRestore
  PROVE  UNCHANGED View
<1> USE DEF FinishRestore
<1>1. PICK m \in Manifest : /\ m = txns[cmd.txn] /\ m.state = "restoring"
                            /\ Genuine(cmd.txn, m) /\ cmd.txn \in Txns
  BY NoneAssumption DEF Quiet, Ind, TypeOK, Phase, OwnInv, Recorded, RestoreSteps,
                        Rewriting
<1>2. cmd.txn \in Restoring
  BY <1>1, NoneAssumption DEF Restoring
<1>3. Restoring = {cmd.txn} /\ active = {} /\ Pending
  BY <1>2 DEF Quiet, Ind, OneRecovery, Pending
<1>4. CASE UNCHANGED txns
  BY <1>3, <1>4, ViewStays
<1>5. CASE Live = Orig /\ txns' = [txns EXCEPT ![cmd.txn].state = "restored"]
  <2>1. View = Abstract!Vendor
    BY <1>3, RestoringIsVendor DEF VendorWhileRestoring, Quiet
  <2>2. m.orig = Both(Original(m.ver))
    BY <1>1 DEF Genuine
  <2>3. bundle = Original(m.ver)
    BY <1>1, <1>5, <2>2, Originals DEF Orig, Live
  <2>4. PICK n \in Manifest : n = [m EXCEPT !.state = "restored"] /\ n.state = "restored"
    BY <1>1, StateOnly
  <2>5. /\ txns'[cmd.txn] = n
        /\ \A u \in Txns : u # cmd.txn => txns'[u] = txns[u]
    BY <1>1, <1>5, <2>4 DEF Quiet, Ind, TypeOK
  <2>6. Restoring' = {} /\ active' = {}
    <3>1. ASSUME NEW u \in Txns, txns'[u] # None
          PROVE  txns'[u].state # "restoring"
      <4>1. CASE u = cmd.txn
        BY <2>4, <2>5, <4>1
      <4>2. CASE u # cmd.txn
        <5>1. u \notin Restoring /\ txns'[u] = txns[u]
          BY <1>3, <2>5, <4>2
        <5> QED BY <3>1, <5>1 DEF Restoring
      <4> QED BY <4>1, <4>2
    <3>2. Restoring' = {}
      BY <3>1 DEF Restoring
    <3> QED BY <1>3, <3>2
  <2>7. ~Pending' /\ bundle' = product'
    BY <2>6, QuietFactsNext DEF Pending, Matches
  <2>8. View' = Seen(bundle)
    BY <2>7, ViewIsNext DEF ViewOf
  <2> QED BY <2>1, <2>3, <2>8 DEF Seen, Original, Abstract!Vendor
<1> QED BY <1>4, <1>5

LEMMA OthersAreHidden ==
  ASSUME Quiet, Quiet',
         \/ Begin \/ Rerun \/ Interrupted \/ Settle \/ Update
         \/ Inspect \/ InspectRestore \/ UNCHANGED vars
         \/ Midway /\ ~CompleteOperation /\ ~RolledBack
  PROVE  UNCHANGED View
<1>1. CASE UNCHANGED <<bundle, product, txns, active>>
  BY <1>1, ViewStays
<1>2. CASE Midway /\ ~CompleteOperation /\ ~RolledBack
  <2>1. UNCHANGED active
    BY <1>2 DEF Midway, CheckBundle, CheckProduct, CheckUndoProduct, CheckUndoBundle,
         CheckRestoreProduct, CheckRestoreBundle, UndoRestore, UndoRestoredProduct,
         WriteBundle, WriteProduct, UndoProduct, UndoBundle, RestoreProduct,
         RestoreBundle, PutBackBundle, PutBackProduct, Finalize, UndoTransaction,
         Check, PutBundle, PutProduct, Disk
  <2>2. CASE pc \in OpSteps
    <3>1. active # {}
      BY <2>2 DEF Quiet, Ind, Phase
    <3> QED BY <2>1, <3>1, ViewStays
  <2>3. CASE pc \notin OpSteps
    <3>1. pc \in RestoreSteps
      BY <2>3, <1>2, MidwaySteps DEF SeenSteps, OpSteps, RestoreSteps
    <3>2. Pending
      BY <3>1 DEF Quiet, Ind, Phase, Pending, Restoring
    <3>3. UNCHANGED txns
      BY <1>2, <2>3 DEF Midway, CheckBundle, CheckProduct, CheckUndoProduct,
         CheckUndoBundle, CheckRestoreProduct, CheckRestoreBundle, UndoRestore,
         UndoRestoredProduct, WriteBundle, WriteProduct, UndoProduct, UndoBundle,
         RestoreProduct, RestoreBundle, PutBackBundle, PutBackProduct, Finalize,
         UndoTransaction, Check, PutBundle, PutProduct, Disk, OpSteps, Applying,
         UndoSteps
    <3> QED BY <2>1, <3>2, <3>3, ViewStays
  <2> QED BY <2>2, <2>3
<1>3. CASE Begin \/ Rerun
  BY <1>1, <1>3 DEF Begin, Rerun, BeginInstall, BeginRefresh, BeginUninstall,
     BeginRecovery, BeginRestoreRecovery, Start, Disk
<1>4. CASE Interrupted \/ Settle \/ Inspect \/ InspectRestore
  BY <1>1, <1>4 DEF Interrupted, StepFails, Crash, Settle, Inspect, InspectRestore,
                    Disk
<1>5. CASE UNCHANGED vars
  BY <1>1, <1>5 DEF vars
<1>6. CASE Update
  <2>1. latest = 0 /\ MaxVersion = 0 /\ todo = {}
    BY DEF Quiet, NoUpdate, Ind, TypeOK, Versions
  <2> QED BY <1>6, <2>1 DEF Update, StartUpdate, UpdateFile, UpdateStops
<1> QED BY <1>2, <1>3, <1>4, <1>5, <1>6

\* Without updates the pair of IDE files changes as if in one step: an install,
\* a refresh and an uninstall happen wholly or not at all, and a recovery after
\* a crash at any point undoes or finishes exactly the one that was cut short.
THEOREM PatchIsAtomic ==
  ASSUME MaxVersion = 0
  PROVE  Spec => ImplementsAtomicPatch
<1>1. Init => Abstract!Init
  <2> SUFFICES ASSUME Init PROVE View = Abstract!Vendor
    BY DEF Abstract!Init
  <2>1. Restoring = {} /\ active = {} /\ bundle = Original(0) /\ bundle = product
    BY DEF Init, Restoring
  <2>2. View = Seen(Original(0))
    BY <2>1, ViewIs DEF ViewOf, Pending
  <2> QED BY <2>2 DEF Seen, Original, Abstract!Vendor
<1>2. Spec => []NoUpdate
  <2>1. Init => NoUpdate
    BY DEF Init, NoUpdate
  <2>2. Ind /\ NoUpdate /\ [Next]_vars => NoUpdate'
    <3> SUFFICES ASSUME Ind, todo = {}, [Next]_vars PROVE todo' = {}
      BY DEF NoUpdate
    <3>1. latest = 0
      BY DEF Ind, TypeOK, Versions
    <3>2. CASE UNCHANGED todo
      BY <3>2
    <3>3. CASE Update
      BY <3>1, <3>3 DEF Update, StartUpdate, UpdateFile, UpdateStops
    <3>4. CASE Begin \/ Rerun
      BY <3>4 DEF Begin, Rerun, BeginInstall, BeginRefresh, BeginUninstall,
                  BeginRecovery, BeginRestoreRecovery, Start, Environment
    <3>5. CASE Patch \/ Undo \/ Restore
      <4>1. CASE Midway
        BY <4>1, MidwaySteps DEF Environment
      <4> QED BY <3>5, <4>1 DEF Patch, Undo, Restore, Midway, CreateTransaction,
                 PrepareOperation, Inspect, InspectRestore, SnapshotForRestore,
                 FinishRestore, Environment
    <3>6. CASE Interrupted \/ Settle
      BY <3>6 DEF Interrupted, StepFails, Crash, Settle, Environment
    <3> QED BY <3>2, <3>3, <3>4, <3>5, <3>6 DEF Next, vars
  <2> QED BY <2>1, <2>2, IndInvariant, PTL DEF Spec
<1>3. Quiet /\ Quiet' /\ [Next]_vars => [Abstract!Next]_View
  <2> SUFFICES ASSUME Quiet, Quiet', [Next]_vars
               PROVE  Abstract!Next \/ UNCHANGED View
    OBVIOUS
  <2>1. CASE CompleteOperation \/ RolledBack
    BY <2>1, CompleteIsAtomic, RolledBackIsHidden DEF Abstract!Next
  <2>2. CASE SnapshotForRestore
    BY <2>2, SnapshotIsUninstall DEF Abstract!Next, Quiet
  <2>3. CASE FinishRestore \/ PrepareOperation \/ \E t \in Txns : CreateTransaction(t)
    BY <2>3, FinishRestoreIsHidden, PrepareIsHidden, CreateIsHidden
  <2>4. CASE \/ Begin \/ Rerun \/ Interrupted \/ Settle \/ Update
             \/ Inspect \/ InspectRestore \/ UNCHANGED vars
             \/ Midway /\ ~CompleteOperation /\ ~RolledBack
    BY <2>4, OthersAreHidden
  <2> QED BY <2>1, <2>2, <2>3, <2>4 DEF Next, Patch, Undo, Restore, Midway
<1>4. MaxVersion = 0
  OBVIOUS
<1>5. MaxVersion = 0 /\ NoUpdate /\ Ind /\ PairInv /\ OwnInv /\ QuietInv => Quiet
  BY DEF Quiet
<1>6. Spec => []Quiet
  BY <1>2, <1>4, <1>5, IndInvariant, PairInvariant, OwnInvariant, QuietInvariant, PTL
<1> QED BY <1>1, <1>3, <1>6, PTL DEF Spec, ImplementsAtomicPatch, Abstract!Spec
=============================================================================
