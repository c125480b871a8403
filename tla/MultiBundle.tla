----------------------------- MODULE MultiBundle -----------------------------
(***************************************************************************)
(* The exact-build patch of Devin Desktop on Windows                       *)
(* (installer/multi_bundle_patch.py): six files of the IDE are written in  *)
(* place, one after the other, through exclusive handles, under a          *)
(* transaction manifest that names the file about to be written.           *)
(*                                                                         *)
(* An in-place write is not atomic: a crash in the middle leaves a torn    *)
(* file, which only the manifest's intent tells from a file somebody else  *)
(* replaced.  The handles keep everybody else out from the moment a        *)
(* command holds the mutation lock to the moment it ends; before that, a   *)
(* command has read and validated without any lock, and what it saw may be *)
(* out of date when it gets the lock.                                      *)
(*                                                                         *)
(* The checksums the code compares are equalities of contents: every file  *)
(* that embeds the transaction id, or the checksum of one that does, is    *)
(* different in every transaction; the others are the same in all.         *)
(* Backups are written and verified before the manifest exists and are     *)
(* taken to stay intact.                                                   *)
(***************************************************************************)
EXTENDS Naturals, FiniteSets

CONSTANTS Txns,       \* transaction ids an install may draw
          Artifacts,  \* the files the patch consists of
          Rank,       \* their place in the order of installation
          Unique,     \* those whose patched content embeds the transaction
          Product,    \* product.json, which also identifies the installation
          Shells,     \* where users start commands; bound: one each at a time
          None        \* no transaction, no artifact, no manifest, no request

States == {"unpublished", "prepared", "installing", "installed", "restoring",
           "restored", "rolled_back"}

\* write, restore: the file an install or an undo is about to overwrite.
\* "unpublished" is a transaction directory that has no manifest yet.
Manifest == [state : States, write : Artifacts \cup {None},
             restore : Artifacts \cup {None}]

\* Contents that are nobody's patch, and the patch all transactions share.
Plain == {"original", "torn", "unreadable", "foreign"}
Content == Plain \cup {"patched"} \cup Txns

\* A command before it takes the lock: the manifest it read, and whether that
\* still is the one on disk (the code compares the files' SHA-256, and every
\* manifest that is written carries a new time stamp).
Request == [kind : {"install", "restore"}, txn : Txns,
            seen : Manifest \cup {None}, current : BOOLEAN]

ASSUME ConstantsAssumption ==
  /\ IsFiniteSet(Artifacts)
  /\ \A a \in Artifacts : Rank[a] \in 1..Cardinality(Artifacts)
  /\ Unique \subseteq Artifacts
  /\ Product \in Unique
  /\ Unique # {Product}
  /\ None \notin Txns \cup Artifacts \cup Manifest \cup Request
  /\ Txns \cap (Plain \cup {"patched"}) = {}

VARIABLES live,     \* content of the IDE's files
          journal,  \* what each transaction directory holds
          asked,    \* commands that are still checking, without the lock
          pc,       \* step of the command that holds the lock
          run       \* what that command holds in memory

vars == <<live, journal, asked, pc, run>>

Outside == {p \in Shells : asked[p] # None}
Of(t) == {p \in Outside : asked[p].txn = t}

Run == [txn : Txns \cup {None}, man : Manifest \cup {None},
        todo : SUBSET Artifacts, goal : {"installed", "restored", "rolled_back"}]

NoRun == [txn |-> None, man |-> None, todo |-> {}, goal |-> "installed"]

Installing == {"record", "write", "writing", "clear", "commit"}
Undoing == {"undo", "undoRecord", "undoWrite", "undoWriting", "undoClear",
            "undoFinish"}
Steps == {"idle", "prepare"} \cup Installing \cup Undoing

Target(a, t) == IF a \in Unique THEN t ELSE "patched"

Vendors == \A a \in Artifacts : live[a] = "original"
Whole(t) == \A a \in Artifacts : live[a] = Target(a, t)

Exists(t) == journal[t] # None
InState(t, states) == Exists(t) /\ journal[t].state \in states
Restorable == {"prepared", "installing", "installed", "restoring"}
Finished == {"installed", "restored", "rolled_back"}

\* Reading product.json tells the commands which installation this is.
Identified == live[Product] # "unreadable"

Init == /\ live = [a \in Artifacts |-> "original"]
        /\ journal = [t \in Txns |-> None]
        /\ asked = [p \in Shells |-> None]
        /\ pc = "idle"
        /\ run = NoRun

-----------------------------------------------------------------------------
(* Without the lock. *)

\* While a command holds its handles, the reads are refused.
Ask(p, r) == /\ asked[p] = None
             /\ pc = "idle"
             /\ Identified
             /\ asked' = [asked EXCEPT ![p] = r]
             /\ UNCHANGED <<live, journal, pc, run>>

\* install: every file is its trusted baseline; the transaction id is new.
CheckInstall(p, t) ==
  /\ ~Exists(t) /\ Of(t) = {}
  /\ Vendors
  /\ Ask(p, [kind |-> "install", txn |-> t, seen |-> None, current |-> TRUE])

\* restore: the installation is identified first, ...
CheckRestore(p, t) ==
  /\ Exists(t)
  /\ Ask(p, [kind |-> "restore", txn |-> t, seen |-> None, current |-> FALSE])

Unread(r) == r.kind = "restore" /\ r.seen = None

\* ... then the manifest of the transaction is read and validated.
ReadManifest(p) ==
  LET t == asked[p].txn
  IN  /\ pc = "idle"
      /\ Unread(asked[p])
      /\ InState(t, Restorable)
      /\ asked' = [asked EXCEPT ![p].seen = journal[t], ![p].current = TRUE]
      /\ UNCHANGED <<live, journal, pc, run>>

-----------------------------------------------------------------------------
(* Taking the lock and the handles. *)

\* The file a crash may have left torn.
IntentOf(m) == IF m.state = "installing" THEN m.write
               ELSE IF m.state = "restoring" THEN m.restore
               ELSE None

\* Broken: files of another transaction are overwritten as well.
RecognisedAny(t, m) == TRUE

\* _capture_recovery_snapshot: every file is original or this transaction's,
\* but for the one that was being written.
Recognised(t, m) ==
  \A a \in Artifacts : live[a] \in {"original", Target(a, t)} \/ a = IntentOf(m)

\* Broken: a manifest that changed in the meantime is not noticed.
AdmissibleStale(r) == ~Unread(r) /\ Recognised(r.txn, r.seen)

\* What a restore checks under the lock.
Admissible(r) == ~Unread(r) /\ r.current /\ Recognised(r.txn, r.seen)

TakeLock(p, kind) == /\ pc = "idle"
                     /\ asked[p].kind = kind
                     /\ asked' = [asked EXCEPT ![p] = None]
                     /\ UNCHANGED live

\* The directory of the transaction is made.
LockForInstall(p) ==
  /\ TakeLock(p, "install")
  /\ journal' = [journal EXCEPT ![asked[p].txn] =
                   [state |-> "unpublished", write |-> None, restore |-> None]]
  /\ pc' = "prepare"
  /\ run' = [NoRun EXCEPT !.txn = asked[p].txn]

ForRestore(m) ==
  [m EXCEPT !.state = "restoring",
            !.restore = IF m.state = "installing" /\ @ = None THEN m.write ELSE @]

LockForRestore(p) ==
  /\ TakeLock(p, "restore")
  /\ Admissible(asked[p])
  /\ pc' = "undo"
  /\ run' = [NoRun EXCEPT !.txn = asked[p].txn, !.goal = "restored",
                          !.man = ForRestore(asked[p].seen)]
  /\ UNCHANGED journal

\* The lock is taken, or what the command sees is not what it needs.
Refuse(p) ==
  /\ \/ pc # "idle"
     \/ Unread(asked[p]) /\ ~InState(asked[p].txn, Restorable)
     \/ asked[p].seen # None /\ ~Admissible(asked[p])
  /\ asked' = [asked EXCEPT ![p] = None]
  /\ UNCHANGED <<live, journal, pc, run>>

-----------------------------------------------------------------------------
(* Under the lock. *)

\* The manifest is replaced atomically; who read the old one is out of date.
WriteManifest(m) ==
  /\ journal' = [journal EXCEPT ![run.txn] = m]
  /\ asked' = [p \in Shells |-> IF p \in Of(run.txn)
                                  THEN [asked[p] EXCEPT !.current = FALSE]
                                  ELSE asked[p]]

Advance(next, command) == /\ pc' = next
                          /\ run' = command

Leave == Advance("idle", NoRun)

Prepared == [state |-> "prepared", write |-> None, restore |-> None]

\* Every file still is its baseline and has been backed up.
Prepare ==
  /\ pc = "prepare"
  /\ Vendors
  /\ WriteManifest(Prepared)
  /\ Advance("record", [run EXCEPT !.man = Prepared, !.todo = Artifacts])
  /\ UNCHANGED live

\* Nothing has been written: the directory is removed, or stays half removed.
PrepareFails ==
  /\ pc = "prepare"
  /\ journal' \in {journal, [journal EXCEPT ![run.txn] = None]}
  /\ Leave
  /\ UNCHANGED <<live, asked>>

First(S) == CHOOSE a \in S : \A b \in S : Rank[a] <= Rank[b]
Last(S) == CHOOSE a \in S : \A b \in S : Rank[a] >= Rank[b]

Recorded(a) == [run.man EXCEPT !.state = "installing", !.write = a]
Cleared == [run.man EXCEPT !.write = None]

\* A step that writes manifest m and goes on.
Record(at, m, next, todo) ==
  /\ pc = at
  /\ WriteManifest(m)
  /\ Advance(next, [run EXCEPT !.man = m, !.todo = todo])
  /\ UNCHANGED live

RecordIntent == Record("record", Recorded(First(run.todo)), "write", run.todo)

\* write_all replaces the file piece by piece: before it is done the content is
\* neither, and a product.json that is neither may not even be JSON.
Torn(a) == IF a = Product THEN {"torn", "unreadable"} ELSE {"torn"}

Overwrite(at, a, contents, next) ==
  /\ pc = at
  /\ live' \in {[live EXCEPT ![a] = c] : c \in contents}
  /\ Advance(next, run)
  /\ UNCHANGED <<journal, asked>>

Written == First(run.todo)

BeginWrite == Overwrite("write", Written, Torn(Written), "writing")
EndWrite == Overwrite("writing", Written, {Target(Written, run.txn)}, "clear")

ClearIntent ==
  LET rest == run.todo \ {Written}
  IN  Record("clear", Cleared, IF rest = {} THEN "commit" ELSE "record", rest)

\* All files are verified once more, and "installed" is written before the
\* handles are released.
Commit ==
  /\ pc = "commit"
  /\ Whole(run.txn)
  /\ WriteManifest([run.man EXCEPT !.state = "installed"])
  /\ Leave
  /\ UNCHANGED live

\* The rollback starts from what the manifest in memory says.
RollBack(m) == Advance("undo", [run EXCEPT !.goal = "rolled_back",
                                           !.man = [m EXCEPT !.state = "restoring",
                                                             !.restore = m.write]])

\* An operating system error on the way.
Fail ==
  /\ pc \in Installing
  /\ RollBack(run.man)
  /\ UNCHANGED <<live, journal, asked>>

\* An error while a manifest is written: the one in memory is already changed,
\* the one on disk may be or not.
FailToRecord ==
  LET ahead == IF pc = "record" THEN Recorded(First(run.todo)) ELSE Cleared
  IN  /\ pc \in {"record", "clear"}
      /\ RollBack(ahead)
      /\ \/ WriteManifest(ahead)
         \/ UNCHANGED <<journal, asked>>
      /\ UNCHANGED live

-----------------------------------------------------------------------------
(* _rollback_forced and _apply_restore_snapshot: the file of the intent     *)
(* first, then the others in reverse order; whatever fails ends the command. *)

BeginUndo == Record("undo", run.man, "undoRecord", Artifacts)

\* Broken: always in reverse order, also after a crash.
RestoredInOrder == Last(run.todo)

Restored == IF run.man.restore \in run.todo THEN run.man.restore
            ELSE Last(run.todo)

RecordRestore == Record("undoRecord", [run.man EXCEPT !.restore = Restored],
                        "undoWrite", run.todo)

BeginRestore == Overwrite("undoWrite", Restored, Torn(Restored), "undoWriting")
EndRestore == Overwrite("undoWriting", Restored, {"original"}, "undoClear")

\* Broken: the last file is forgotten.
ClearRestoreEarly ==
  LET rest == run.todo \ {Restored}
  IN  Record("undoClear", [run.man EXCEPT !.restore = None],
             IF Cardinality(rest) <= 1 THEN "undoFinish" ELSE "undoRecord", rest)

ClearRestore ==
  LET rest == run.todo \ {Restored}
  IN  Record("undoClear", [run.man EXCEPT !.restore = None],
             IF rest = {} THEN "undoFinish" ELSE "undoRecord", rest)

FinishUndo ==
  /\ pc = "undoFinish"
  /\ run.goal = "restored" => Vendors
  /\ WriteManifest([run.man EXCEPT
       !.state = run.goal,
       !.write = IF run.goal = "rolled_back" THEN None ELSE @])
  /\ Leave
  /\ UNCHANGED live

-----------------------------------------------------------------------------
(* The rest of the world. *)

\* The process dies; so end, to the same effect, the failures of an undo and
\* of the final manifest.
Crash == /\ pc # "idle"
         /\ Leave
         /\ UNCHANGED <<live, journal, asked>>

\* While no command holds its handles, the vendor may reinstall a file or
\* somebody may put another one there.
Replace(a) == /\ pc = "idle"
              /\ live' \in {[live EXCEPT ![a] = c] : c \in {"original", "foreign"}}
              /\ UNCHANGED <<journal, asked, pc, run>>

-----------------------------------------------------------------------------
Check == \/ \E p \in Shells, t \in Txns : CheckInstall(p, t) \/ CheckRestore(p, t)
         \/ \E p \in Outside : ReadManifest(p) \/ Refuse(p)

Lock == \E p \in Outside : LockForInstall(p) \/ LockForRestore(p)

Install == Prepare \/ RecordIntent \/ BeginWrite \/ EndWrite \/ ClearIntent
           \/ Commit

Undo == BeginUndo \/ RecordRestore \/ BeginRestore \/ EndRestore
        \/ ClearRestore \/ FinishUndo

Interrupted == PrepareFails \/ Fail \/ FailToRecord \/ Crash

Outsider == \E a \in Artifacts : Replace(a)

Next == Check \/ Lock \/ Install \/ Undo \/ Interrupted \/ Outsider

Spec == Init /\ [][Next]_vars

-----------------------------------------------------------------------------
(* Properties *)

TypeOK == /\ live \in [Artifacts -> Content]
          /\ journal \in [Txns -> Manifest \cup {None}]
          /\ asked \in [Shells -> Request \cup {None}]
          /\ pc \in Steps
          /\ run \in Run

\* Something of a patch is on disk, whole or not.
Dirty == \E a \in Artifacts : live[a] \notin {"original", "foreign"}

\* Broken: the files are not looked at.
HealthyByState(t) == InState(t, Finished)

\* What status and doctor make of a transaction (describe_transaction): it is
\* finished and every file is what its state says.
Healthy(t) ==
  /\ InState(t, Finished)
  /\ IF journal[t].state = "installed" THEN Whole(t) ELSE Vendors

\* status and doctor end with a failure (discover_transactions scans them all).
StatusFails == ~Identified \/ \E t \in Txns : Exists(t) /\ ~Healthy(t)

\* A set of files of which some are patched and some are not, or are torn, is
\* reported by status, whatever crashed and whatever was replaced since.
MixedIsReported ==
  pc = "idle" /\ Dirty /\ (\A t \in Txns : ~Whole(t)) => StatusFails

\* A crash never leaves files that restore would take for somebody else's: as
\* long as nobody put a foreign file there, some unfinished transaction accepts
\* every patched or torn file there is.
CrashIsRecognised ==
  pc = "idle" /\ Dirty /\ (\A a \in Artifacts : live[a] # "foreign") =>
    \E t \in Txns : InState(t, Restorable) /\ Recognised(t, journal[t])

\* winlock.write_all: "the transaction's durable backups cover crash recovery".
\* The same, and restore gets as far as finding its transaction.
CrashIsRecoverable ==
  pc = "idle" /\ Dirty /\ (\A a \in Artifacts : live[a] # "foreign") =>
    /\ Identified
    /\ \E t \in Txns : InState(t, Restorable) /\ Recognised(t, journal[t])

\* README: status and doctor report "prepared/installing/restoring/mixed" as
\* non-zero.  An installation that is none of these passes.
CompleteInstallPasses ==
  /\ pc = "idle"
  /\ \E t \in Txns : InState(t, {"installed"}) /\ Whole(t)
  /\ \A t \in Txns : Exists(t) => journal[t].state \in Finished
  => ~StatusFails

\* A transaction is declared installed, restored or rolled back only in a step
\* in which every one of its files is what that means.
CommitsWholeSet ==
  [][\A t \in Txns :
       /\ journal'[t] # journal[t]
       /\ journal'[t] # None
       /\ journal'[t].state \in Finished
       => IF journal'[t].state = "installed" THEN Whole(t)' ELSE Vendors']_vars

\* What is restored or rolled back stays so: a restore that read the manifest
\* before another one finished does not reopen the transaction.
TerminalIsFinal ==
  [][\A t \in Txns :
       InState(t, {"restored", "rolled_back"}) => journal'[t] = journal[t]]_vars

\* The complete installation of a transaction is undone by a restore of that
\* transaction, or by somebody outside, and never on behalf of another one.
InstallationIsKept ==
  [][\A t \in Txns :
       InState(t, {"installed"}) /\ Whole(t) /\ live' # live =>
         pc = "idle" \/ run.txn = t]_vars
=============================================================================
