-------------------------- MODULE PatchTransaction --------------------------
(***************************************************************************)
(* The canonical install, refresh and uninstall of the Windsurf patch      *)
(* (installer/patch_operation.py, backup_transaction.py and the commands   *)
(* of __main__.py that drive them).                                        *)
(*                                                                         *)
(* Two files of the IDE have to change together: the renderer bundle and   *)
(* product.json, which holds the bundle's checksum.  Each can only be      *)
(* replaced by a rename of its own, so every command leaves a trail on     *)
(* disk that the next one recovers from: an operation journal while an     *)
(* install or refresh is under way, the state "restoring" of a transaction *)
(* manifest while an uninstall is.                                         *)
(*                                                                         *)
(* One mutating command runs at a time (mutation_lock); the lock dies with *)
(* its process, so a crash at any point frees it.  The vendor's updater    *)
(* knows neither the lock nor the journals: it replaces the two files, one *)
(* at a time, in either order, and may itself stop half way.               *)
(*                                                                         *)
(* A file's content is a record: the vendor build it derives from and, for *)
(* patched content, the transaction and the payload embedded in it.  The   *)
(* checksums the code compares are equalities of these records.  Commands  *)
(* that are refused change nothing and are not steps.                      *)
(***************************************************************************)
EXTENDS Naturals, FiniteSets

CONSTANTS Txns,        \* transaction ids a fresh install may draw
          Payloads,    \* payloads a command may embed
          MaxVersion,  \* bound: vendor builds 0 .. MaxVersion
          None         \* no transaction, no payload, no value

ASSUME MaxVersionAssumption == MaxVersion \in Nat

VARIABLES bundle,    \* content of the live bundle
          product,   \* content of the live product.json
          txns,      \* transaction manifests, with the originals they back up
          active,    \* operation journals in state "active"
          pc,        \* step of the command that holds the mutation lock
          cmd,       \* what that command holds in memory
          latest,    \* newest build the vendor has begun to install
          todo,      \* files its updater has still to replace
          calm       \* nothing interrupts a command any more

vars == <<bundle, product, txns, active, pc, cmd, latest, todo, calm>>

Versions == 0 .. MaxVersion

Content == [ver : Versions, txn : Txns \cup {None},
            payload : Payloads \cup {None}]

Pair == [bundle : Content, product : Content]

Original(v) == [ver |-> v, txn |-> None, payload |-> None]
Both(c) == [bundle |-> c, product |-> c]
Live == [bundle |-> bundle, product |-> product]

Manifest == [state : {"prepared", "installed", "restoring", "restored"},
             ver : Versions, orig : Pair, patched : Pair \cup {None}]

Operation == [txn : Txns, ver : Versions, before : Pair, target : Pair,
              txnBefore : Manifest, txnTarget : Manifest]

\* since: the newest build when the command started (history).
Command == [ver : Versions \cup {None}, since : Versions \cup {None},
            txn : Txns \cup {None}, payload : Payloads \cup {None},
            op : Operation \cup {None}, seen : Pair \cup {None}]

\* None stands for a value that is missing, and is not one.
ASSUME NoneAssumption == /\ None \notin Txns
                         /\ None \notin Payloads
                         /\ None \notin Manifest
                         /\ None \notin Pair

NoCommand == [ver |-> None, since |-> None, txn |-> None,
              payload |-> None, op |-> None, seen |-> None]

\* Steps between the journal of an operation and its completion: a failure
\* there leads to rollback_operation.
Applying == {"checkBundle", "writeBundle", "checkProduct", "writeProduct",
             "finalize", "complete"}

\* Steps inside restore_file_pair's try block: a failure there leads to the
\* conditional undo of what it has written.
Rewriting == {"restoreProduct", "checkRestoreBundle", "restoreBundle",
              "finishRestore"}

Steps == {"idle", "create", "prepare", "inspect", "undoTransaction",
          "checkUndoProduct", "undoProduct", "checkUndoBundle", "undoBundle",
          "rolledBack", "snapshot", "inspectRestore", "checkRestoreProduct",
          "undoRestore", "putBackBundle", "undoRestoredProduct",
          "putBackProduct"} \cup Applying \cup Rewriting

Restoring == {t \in Txns : txns[t] # None /\ txns[t].state = "restoring"}

\* A recovery is pending: a command does nothing else before it is done.
Pending == active # {} \/ Restoring # {}

\* _bound_transaction: the transaction the injected bundle names is installed,
\* for the product as it is now, and the live pair is the one it wrote.
Bound(t) == /\ t \in Txns
            /\ txns[t] # None
            /\ txns[t].state = "installed"
            /\ txns[t].ver = product.ver
            /\ txns[t].patched = Live

Init == /\ bundle = Original(0)
        /\ product = Original(0)
        /\ txns = [t \in Txns |-> None]
        /\ active = {}
        /\ pc = "idle"
        /\ cmd = NoCommand
        /\ latest = 0
        /\ todo = {}
        /\ calm = FALSE

-----------------------------------------------------------------------------
\* The command goes on to step next, or ends and drops what it knew.
Advance(next) == pc' = next /\ UNCHANGED cmd
Leave == pc' = "idle" /\ cmd' = NoCommand
RollBack == Advance("inspect")

Disk == <<bundle, product, txns, active>>
Environment == <<latest, todo, calm>>

\* A command starts when no other holds the lock and neither the IDE nor its
\* updater runs; it reads the product's identity once.
Start(next, command) == /\ pc = "idle"
                        /\ todo = {}
                        /\ pc' = next
                        /\ cmd' = [command EXCEPT !.ver = product.ver,
                                                  !.since = latest]
                        /\ UNCHANGED <<Disk, Environment>>

BeginInstall(p) ==
  /\ ~Pending
  /\ \E t \in Txns : txns[t] = None     \* bound: the instance's ids
  /\ bundle.txn = None
  /\ Live = Both(Original(product.ver))
  /\ Start("create", [NoCommand EXCEPT !.payload = p])

BeginRefresh(p) ==
  /\ ~Pending
  /\ Bound(bundle.txn)
  /\ Start("prepare", [NoCommand EXCEPT !.payload = p, !.txn = bundle.txn])

\* Broken: uninstall does not look for an operation that is still active.
UninstallUnrecovered ==
  /\ Bound(bundle.txn)
  /\ Start("snapshot", [NoCommand EXCEPT !.txn = bundle.txn])

BeginUninstall ==
  /\ ~Pending
  /\ Bound(bundle.txn)
  /\ Start("snapshot", [NoCommand EXCEPT !.txn = bundle.txn])

\* Install and uninstall first roll back the one operation that is active,
\* provided it was journalled for the product as it is now.
BeginRecovery ==
  \E op \in active :
    /\ active = {op}
    /\ op.ver = product.ver
    /\ Start("inspect", [NoCommand EXCEPT !.op = op, !.txn = op.txn])

BeginRestoreRecovery ==
  \E t \in Restoring :
    /\ active = {}
    /\ Restoring = {t}
    /\ txns[t].ver = product.ver
    /\ Start("inspectRestore", [NoCommand EXCEPT !.txn = t])

-----------------------------------------------------------------------------
(* Install and refresh. *)

\* Broken: the snapshot is not compared with the trusted build again.
CreateUnverified(t) ==
  /\ pc = "create"
  /\ txns[t] = None
  /\ txns' = [txns EXCEPT ![t] = [state |-> "prepared", ver |-> cmd.ver,
                                  orig |-> Live, patched |-> None]]
  /\ pc' = "prepare" /\ cmd' = [cmd EXCEPT !.txn = t]
  /\ UNCHANGED <<bundle, product, active, Environment>>

\* Backups of the live pair and a "prepared" manifest; a snapshot that is not
\* the trusted build ends the command and leaves the manifest behind.
CreateTransaction(t) ==
  /\ pc = "create"
  /\ txns[t] = None
  /\ txns' = [txns EXCEPT ![t] = [state |-> "prepared", ver |-> cmd.ver,
                                  orig |-> Live, patched |-> None]]
  /\ IF Live = Both(Original(cmd.ver))
       THEN pc' = "prepare" /\ cmd' = [cmd EXCEPT !.txn = t]
       ELSE Leave
  /\ UNCHANGED <<bundle, product, active, Environment>>

\* The pair an operation of transaction m starts from.
BeforeOf(m) == IF m.state = "prepared" THEN m.orig ELSE m.patched

\* inject_bundle puts the command's payload and transaction id in place of the
\* ones that are there; the product's checksum entry follows the bundle.
Inject(c) == [c EXCEPT !.txn = cmd.txn, !.payload = cmd.payload]

OperationOf(m) ==
  LET target == [bundle |-> Inject(BeforeOf(m).bundle),
                 product |-> Inject(BeforeOf(m).product)]
  IN  [txn |-> cmd.txn, ver |-> cmd.ver, before |-> BeforeOf(m),
       target |-> target, txnBefore |-> m,
       txnTarget |-> [m EXCEPT !.state = "installed", !.patched = target]]

\* Targets are built from the live pair and the journal is written, unless the
\* pair is no longer the one the transaction records.
PrepareOperation ==
  /\ pc = "prepare"
  /\ LET m  == txns[cmd.txn]
         op == OperationOf(m)
     IN  IF Live = op.before
           THEN /\ active' = active \cup {op}
                /\ pc' = "checkBundle"
                /\ cmd' = [cmd EXCEPT !.op = op, !.seen = op.before]
           ELSE Leave /\ UNCHANGED active
  /\ UNCHANGED <<bundle, product, txns, Environment>>

\* A conditional write reads the file, compares, and then replaces it: the
\* comparison and the replacement are separate steps.
Check(at, ok, next, otherwise) ==
  /\ pc = at
  /\ IF ok THEN Advance(next) ELSE otherwise
  /\ UNCHANGED <<Disk, Environment>>

PutBundle(at, content, next) ==
  /\ pc = at
  /\ bundle' = content
  /\ Advance(next)
  /\ UNCHANGED <<product, txns, active, Environment>>

PutProduct(at, content, next) ==
  /\ pc = at
  /\ product' = content
  /\ Advance(next)
  /\ UNCHANGED <<bundle, txns, active, Environment>>

CheckBundle == Check("checkBundle", todo = {} /\ Live = cmd.op.before,
                     "writeBundle", RollBack)

WriteBundle == PutBundle("writeBundle", cmd.op.target.bundle, "checkProduct")

CheckProduct ==
  Check("checkProduct", /\ bundle = cmd.op.target.bundle
                        /\ product = cmd.op.before.product,
        "writeProduct", RollBack)

WriteProduct == PutProduct("writeProduct", cmd.op.target.product, "finalize")

\* The transaction's manifest becomes "installed" once the live pair is the
\* target; the manifest itself is written under the lock only.
Finalize ==
  /\ pc = "finalize"
  /\ IF Live = cmd.op.target /\ txns[cmd.txn] = cmd.op.txnBefore
       THEN /\ txns' = [txns EXCEPT ![cmd.txn] = cmd.op.txnTarget]
            /\ Advance("complete")
       ELSE RollBack /\ UNCHANGED txns
  /\ UNCHANGED <<bundle, product, active, Environment>>

CompleteOperation ==
  /\ pc = "complete"
  /\ IF Live = cmd.op.target /\ txns[cmd.txn] = cmd.op.txnTarget
       THEN active' = active \ {cmd.op} /\ Leave
       ELSE RollBack /\ UNCHANGED active
  /\ UNCHANGED <<bundle, product, txns, Environment>>

-----------------------------------------------------------------------------
(* rollback_operation: manifest, then product, then bundle.  Whatever goes  *)
(* wrong, the command ends and the journal stays.                           *)

\* Broken: only the product file has to be recognised.
RecognisedProduct(op) ==
  /\ product \in {op.before.product, op.target.product}
  /\ txns[op.txn] \in {op.txnBefore, op.txnTarget}

\* Broken: the files have to be both before or both after the operation.
RecognisedTogether(op) == /\ Live \in {op.before, op.target}
                          /\ txns[op.txn] \in {op.txnBefore, op.txnTarget}

\* Both files and the manifest must each be in the state before or the state
\* after the operation.
Recognised(op) == /\ bundle \in {op.before.bundle, op.target.bundle}
                  /\ product \in {op.before.product, op.target.product}
                  /\ txns[op.txn] \in {op.txnBefore, op.txnTarget}

\* Broken: the journal is retired before the files are back.
InspectRetiring ==
  /\ pc = "inspect"
  /\ IF Recognised(cmd.op)
       THEN /\ pc' = "undoTransaction"
            /\ cmd' = [cmd EXCEPT !.seen = Live]
            /\ active' = active \ {cmd.op}
       ELSE Leave /\ UNCHANGED active
  /\ UNCHANGED <<bundle, product, txns, Environment>>

Inspect ==
  /\ pc = "inspect"
  /\ IF Recognised(cmd.op)
       THEN pc' = "undoTransaction" /\ cmd' = [cmd EXCEPT !.seen = Live]
       ELSE Leave
  /\ UNCHANGED <<Disk, Environment>>

UndoTransaction ==
  /\ pc = "undoTransaction"
  /\ txns' = [txns EXCEPT ![cmd.txn] = cmd.op.txnBefore]
  /\ Advance("checkUndoProduct")
  /\ UNCHANGED <<bundle, product, active, Environment>>

CheckUndoProduct == Check("checkUndoProduct", product = cmd.seen.product,
                          "undoProduct", Leave)

UndoProduct == PutProduct("undoProduct", cmd.op.before.product,
                          "checkUndoBundle")

CheckUndoBundle ==
  Check("checkUndoBundle", /\ product = cmd.op.before.product
                           /\ bundle = cmd.seen.bundle,
        "undoBundle", Leave)

UndoBundle == PutBundle("undoBundle", cmd.op.before.bundle, "rolledBack")

RolledBack ==
  /\ pc = "rolledBack"
  /\ active' = IF Live = cmd.op.before /\ txns[cmd.txn] = cmd.op.txnBefore
                 THEN active \ {cmd.op} ELSE active
  /\ Leave
  /\ UNCHANGED <<bundle, product, txns, Environment>>

-----------------------------------------------------------------------------
(* Uninstall: restore_transaction, restore_file_pair and the recovery of an *)
(* interrupted restore.                                                     *)

\* Broken: the manifest is not marked before the files are touched.
SnapshotUnmarked ==
  /\ pc = "snapshot"
  /\ pc' = "checkRestoreProduct"
  /\ cmd' = [cmd EXCEPT !.seen = Live]
  /\ UNCHANGED <<Disk, Environment>>

\* The live pair is read again after the validation, whatever it is now, and
\* the manifest becomes "restoring".
SnapshotForRestore ==
  /\ pc = "snapshot"
  /\ txns' = [txns EXCEPT ![cmd.txn].state = "restoring"]
  /\ pc' = "checkRestoreProduct"
  /\ cmd' = [cmd EXCEPT !.seen = Live]
  /\ UNCHANGED <<bundle, product, active, Environment>>

\* Recovery of a restore insists on original or patched files.
RestoreRecognised(m) == /\ bundle \in {m.orig.bundle, m.patched.bundle}
                        /\ product \in {m.orig.product, m.patched.product}

InspectRestore ==
  /\ pc = "inspectRestore"
  /\ IF RestoreRecognised(txns[cmd.txn])
       THEN pc' = "checkRestoreProduct" /\ cmd' = [cmd EXCEPT !.seen = Live]
       ELSE Leave
  /\ UNCHANGED <<Disk, Environment>>

Orig == txns[cmd.txn].orig

CheckRestoreProduct == Check("checkRestoreProduct", Live = cmd.seen,
                             "restoreProduct", Leave)

RestoreProduct == PutProduct("restoreProduct", Orig.product,
                             "checkRestoreBundle")

CheckRestoreBundle ==
  Check("checkRestoreBundle", /\ product = Orig.product
                              /\ bundle = cmd.seen.bundle,
        "restoreBundle", Advance("undoRestore"))

RestoreBundle == PutBundle("restoreBundle", Orig.bundle, "finishRestore")

FinishRestore ==
  /\ pc = "finishRestore"
  /\ \/ /\ Live = Orig
        /\ txns' = [txns EXCEPT ![cmd.txn].state = "restored"]
        /\ Leave
     \/ /\ bundle # Orig.bundle
        /\ Advance("undoRestore")
        /\ UNCHANGED txns
     \/ /\ bundle = Orig.bundle /\ product # Orig.product
        /\ Leave
        /\ UNCHANGED txns
  /\ UNCHANGED <<bundle, product, active, Environment>>

\* The undo of a failed restore puts back, each on its own, the files that
\* hold what it wrote; the manifest stays "restoring".
UndoRestore ==
  Check("undoRestore", bundle = Orig.bundle /\ bundle # cmd.seen.bundle,
        "putBackBundle", Advance("undoRestoredProduct"))

PutBackBundle == PutBundle("putBackBundle", cmd.seen.bundle,
                           "undoRestoredProduct")

UndoRestoredProduct ==
  Check("undoRestoredProduct",
        product = Orig.product /\ product # cmd.seen.product,
        "putBackProduct", Leave)

PutBackProduct ==
  /\ pc = "putBackProduct"
  /\ product' = cmd.seen.product
  /\ Leave
  /\ UNCHANGED <<bundle, txns, active, Environment>>

-----------------------------------------------------------------------------
\* An operating system error, a failed signature or a host that was started.
StepFails ==
  /\ ~calm
  /\ \/ pc \in Applying /\ RollBack
     \/ pc \in Rewriting /\ Advance("undoRestore")
  /\ UNCHANGED <<Disk, Environment>>

\* The process dies; so end, to the same effect, all failures outside the
\* steps above.
Crash == /\ ~calm
         /\ pc # "idle"
         /\ Leave
         /\ UNCHANGED <<Disk, Environment>>

Settle == /\ ~calm
          /\ calm' = TRUE
          /\ UNCHANGED <<Disk, pc, cmd, latest, todo>>

\* The vendor's updater.
StartUpdate ==
  /\ todo = {}
  /\ latest < MaxVersion
  /\ latest' = latest + 1
  /\ todo' = {"bundle", "product"}
  /\ UNCHANGED <<Disk, pc, cmd, calm>>

UpdateFile(f) ==
  /\ f \in todo
  /\ todo' = todo \ {f}
  /\ bundle' = IF f = "bundle" THEN Original(latest) ELSE bundle
  /\ product' = IF f = "product" THEN Original(latest) ELSE product
  /\ UNCHANGED <<txns, active, pc, cmd, latest, calm>>

UpdateStops == /\ todo # {}
               /\ todo' = {}
               /\ UNCHANGED <<Disk, pc, cmd, latest, calm>>

-----------------------------------------------------------------------------
Begin == \/ \E p \in Payloads : BeginInstall(p) \/ BeginRefresh(p)
         \/ BeginUninstall

Rerun == BeginRecovery \/ BeginRestoreRecovery

Patch == \/ \E t \in Txns : CreateTransaction(t)
         \/ PrepareOperation \/ CheckBundle \/ WriteBundle \/ CheckProduct
         \/ WriteProduct \/ Finalize \/ CompleteOperation

Undo == \/ Inspect \/ UndoTransaction \/ CheckUndoProduct \/ UndoProduct
        \/ CheckUndoBundle \/ UndoBundle \/ RolledBack

Restore == \/ SnapshotForRestore \/ InspectRestore \/ CheckRestoreProduct
           \/ RestoreProduct \/ CheckRestoreBundle \/ RestoreBundle
           \/ FinishRestore \/ UndoRestore \/ PutBackBundle
           \/ UndoRestoredProduct \/ PutBackProduct

Interrupted == StepFails \/ Crash

Update == StartUpdate \/ (\E f \in todo : UpdateFile(f)) \/ UpdateStops

Next == Begin \/ Rerun \/ Patch \/ Undo \/ Restore \/ Interrupted \/ Settle
        \/ Update

Spec == Init /\ [][Next]_vars

\* A command that is running goes on, and the user reruns one that the code
\* asks to rerun.
FairSpec == Spec /\ WF_vars(Patch \/ Undo \/ Restore) /\ WF_vars(Rerun)

-----------------------------------------------------------------------------
(* Properties *)

TypeOK == /\ bundle \in Content
          /\ product \in Content
          /\ txns \in [Txns -> Manifest \cup {None}]
          /\ active \subseteq Operation
          /\ pc \in Steps
          /\ cmd \in Command
          /\ latest \in Versions
          /\ todo \subseteq {"bundle", "product"}
          /\ calm \in BOOLEAN

\* Never two recoveries at once: the journal of an operation and a restoring
\* manifest, or two of either, would leave every later command with "manual
\* recovery" (find_active_operation, find_restoring_transaction).
RecoveryUnambiguous == Cardinality(active) + Cardinality(Restoring) <= 1

\* Bundle and product of one vendor build that do not belong together - the IDE
\* calls that a corrupt installation - exist only while a journal or a manifest
\* on disk says so, whatever crashed and whatever the updater did meanwhile.
TornPairIsFlagged ==
  bundle.ver = product.ver /\ bundle # product => Pending

\* Between commands, an injected bundle whose product is of the same build can
\* be uninstalled: its transaction is installed, recorded exactly this pair,
\* and backs up the vendor's own.
InjectedIsUninstallable ==
  /\ pc = "idle" /\ ~Pending /\ todo = {}
  /\ bundle.txn # None /\ bundle.ver = product.ver
  => /\ Bound(bundle.txn)
     /\ txns[bundle.txn].orig = Both(Original(bundle.ver))

\* A file that the patcher replaces never goes back to an older vendor build,
\* unless an update began during this very command: neither the journals of
\* older builds that lie around nor files that an earlier update or an earlier
\* command left half way make it do so.
NoDowngrade ==
  [][todo' = todo /\ latest = cmd.since =>
       bundle'.ver >= bundle.ver /\ product'.ver >= product.ver]_vars

\* What the pair is for a user: while a recovery is pending, what the recovery
\* will make of it.
View ==
  LET file == CASE active # {}    -> (CHOOSE op \in active : TRUE).before.bundle
                [] Restoring # {} -> txns[CHOOSE t \in Restoring : TRUE].orig.bundle
                [] OTHER          -> bundle
  IN  IF ~Pending /\ bundle # product
        THEN [txn |-> None, payload |-> "torn"]
        ELSE [txn |-> file.txn, payload |-> file.payload]

Abstract == INSTANCE AtomicPatch WITH build <- View

\* Without updates the two files change as if in one step: installs, refreshes
\* and uninstalls happen wholly or not at all across every crash.
ImplementsAtomicPatch == Abstract!Spec

\* Once interruptions cease, and without updates, a pending recovery completes:
\* whatever state the crashes left behind, the code accepts it and goes on.
RecoveryCompletes == calm ~> ~Pending
=============================================================================
