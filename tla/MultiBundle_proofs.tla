------------------------- MODULE MultiBundle_proofs -------------------------
(***************************************************************************)
(* MultiBundle for any files, transactions and number of commands: types,  *)
(* and that what a crash leaves behind is recognised and reported.         *)
(*                                                                         *)
(* CrashIsRecognised speaks of the moments without a command.  What makes  *)
(* it true is that at every step of a command the manifest on disk already *)
(* names the one file that may be torn (Files), that the command's memory  *)
(* agrees with that manifest (Agreement), and that the manifest a restore  *)
(* starts from is the one on disk (Requests).  The conjunction IInv is     *)
(* inductive; all the properties that the run multi_crashes checks follow. *)
(***************************************************************************)
EXTENDS MultiBundle, FiniteSetTheorems, WellFoundedInduction, TLAPS

Busy == {"record", "write", "writing", "clear", "undoRecord", "undoWrite",
         "undoWriting", "undoClear"}

Running ==
  /\ pc = "prepare" => run.txn \in Txns
  /\ pc \notin {"idle", "prepare"} => run.txn \in Txns /\ run.man \in Manifest
  /\ pc \in Busy => run.todo # {}

TypeInv == TypeOK /\ Running

Agreement ==
  /\ pc = "prepare" => InState(run.txn, {"unpublished"})
  /\ pc \in Installing => /\ journal[run.txn] = run.man
                          /\ run.man.state \in {"prepared", "installing"}
  /\ pc \in {"write", "writing", "clear"} => /\ run.man.state = "installing"
                                             /\ run.man.write = Written
  /\ pc = "undo" => /\ run.man.state = "restoring"
                    /\ InState(run.txn, Restorable)
  /\ pc \in Undoing \ {"undo"} => /\ journal[run.txn] = run.man
                                  /\ run.man.state = "restoring"
  /\ pc = "undoRecord" => run.man.restore \in run.todo \cup {None}
  /\ pc \in {"undoWrite", "undoWriting", "undoClear"} =>
       run.man.restore \in run.todo
  /\ pc = "undoFinish" => run.todo = {}
  /\ pc \in Undoing => run.goal # "installed"

\* While an install is under way, no intent to restore is recorded.
Journals ==
  \A t \in Txns : InState(t, {"prepared", "installing"}) =>
                    journal[t].restore = None

Requests ==
  \A p \in Outside :
    /\ asked[p].kind = "install" =>
         /\ ~Exists(asked[p].txn)
         /\ \A q \in Outside : q # p => asked[q].txn # asked[p].txn
    /\ asked[p].kind = "restore" /\ asked[p].current /\ asked[p].seen # None =>
         /\ asked[p].seen = journal[asked[p].txn]
         /\ asked[p].seen.state \in Restorable

\* But for the files in A, every file is original or patched for t.
Only(t, A) ==
  \A a \in Artifacts : live[a] \in {"original", Target(a, t)} \/ a \in A

Owner(t) ==
  /\ InState(t, Restorable)
  /\ \A a \in Artifacts : \/ live[a] \in {"original", "foreign", Target(a, t)}
                          \/ a = IntentOf(journal[t])

Owned == Dirty => \E t \in Txns : Owner(t)

Files ==
  /\ pc \in {"idle", "prepare"} => Owned
  /\ pc \in {"record", "write", "clear", "commit", "undoClear"} =>
       Only(run.txn, {})
  /\ pc = "writing" => Only(run.txn, {Written})
  /\ pc = "undo" => Only(run.txn, {IntentOf(journal[run.txn])})
  /\ pc \in {"undo", "undoRecord", "undoWrite", "undoWriting"} =>
       Only(run.txn, {run.man.restore})
  /\ pc \in Undoing \ {"undo"} =>
       \A a \in Artifacts \ run.todo : live[a] = "original"
  /\ pc = "undoClear" => live[run.man.restore] = "original"

IInv == TypeInv /\ Agreement /\ Journals /\ Requests /\ Files

-----------------------------------------------------------------------------
(* Types. *)

LEMMA LeastNumber ==
  ASSUME NEW T \in SUBSET Nat, T # {}
  PROVE  \E x \in T : \A y \in T : x <= y
<1>1. PICK x \in T : \A y \in T : <<y, x>> \notin OpToRel(<, Nat)
  BY NatLessThanWellFounded, WFMin
<1>2. \A y \in T : ~(y < x)
  BY <1>1 DEF OpToRel
<1> QED BY <1>2

\* Some files have a first and a last one in the order of installation.
LEMMA ChoiceInSet ==
  ASSUME NEW S \in SUBSET Artifacts, S # {}
  PROVE  First(S) \in S /\ Last(S) \in S
<1> DEFINE n == Cardinality(Artifacts)
           up == {Rank[a] : a \in S}
           down == {n - Rank[a] : a \in S}
<1>1. n \in Nat /\ \A a \in S : Rank[a] \in 1..n
  BY ConstantsAssumption, FS_CardinalityType
<1> HIDE DEF n
<1>2. up \in SUBSET Nat /\ up # {} /\ down \in SUBSET Nat /\ down # {}
  BY <1>1
<1>3. PICK x \in up : \A y \in up : x <= y
  <2> HIDE DEF up
  <2> QED BY <1>2, LeastNumber
<1>4. PICK z \in down : \A y \in down : z <= y
  <2> HIDE DEF down
  <2> QED BY <1>2, LeastNumber
<1>5. PICK a \in S : x = Rank[a]
  OBVIOUS
<1>6. PICK b \in S : z = n - Rank[b]
  OBVIOUS
<1>7. \A c \in S : Rank[a] <= Rank[c]
  BY <1>3, <1>5
<1>8. \A c \in S : z <= n - Rank[c]
  BY <1>4
<1>9. \A c \in S : Rank[b] >= Rank[c]
  BY <1>1, <1>6, <1>8
<1> QED BY <1>7, <1>9 DEF First, Last

LEMMA ManifestIsSome == \A m \in Manifest : m # None
BY ConstantsAssumption

\* What the commands write into a manifest is a manifest.
LEMMA ManifestKinds ==
  \A m \in Manifest, a \in Artifacts \cup {None}, s \in States :
    /\ [m EXCEPT !.state = s] \in Manifest
    /\ [m EXCEPT !.state = s, !.write = a] \in Manifest
    /\ [m EXCEPT !.state = s, !.restore = a] \in Manifest
    /\ [m EXCEPT !.write = a] \in Manifest
    /\ [m EXCEPT !.restore = a] \in Manifest
    /\ m.state \in States
    /\ m.write \in Artifacts \cup {None}
    /\ m.restore \in Artifacts \cup {None}
BY DEF Manifest

LEMMA SomeStates ==
  {"prepared", "installing", "installed", "restoring"} \subseteq States
BY DEF States

LEMMA TypeOfRequests ==
  ASSUME TypeOK, NEW p \in Outside
  PROVE  /\ asked[p] \in Request
         /\ asked[p].txn \in Txns
         /\ asked[p].seen \in Manifest \cup {None}
         /\ asked[p].kind \in {"install", "restore"}
<1>1. asked[p] \in Request
  BY DEF TypeOK, Outside
<1> QED BY <1>1 DEF Request

LEMMA WriteKeepsTypes ==
  ASSUME TypeOK, NEW m \in Manifest, run.txn \in Txns, WriteManifest(m)
  PROVE  /\ journal' \in [Txns -> Manifest \cup {None}]
         /\ journal'[run.txn] = m
         /\ \A t \in Txns \ {run.txn} : journal'[t] = journal[t]
         /\ asked' \in [Shells -> Request \cup {None}]
<1>1. journal \in [Txns -> Manifest \cup {None}]
  BY DEF TypeOK
<1>2. journal' = [journal EXCEPT ![run.txn] = m]
  BY DEF WriteManifest
<1>3. \A p \in Outside : [asked[p] EXCEPT !.current = FALSE] \in Request
  BY TypeOfRequests DEF Request
<1>4. asked' \in [Shells -> Request \cup {None}]
  BY <1>3 DEF WriteManifest, TypeOK, Of, Outside
<1> QED BY <1>1, <1>2, <1>4

LEMMA RecordKeepsTypes ==
  ASSUME TypeInv, NEW at \in Steps \ {"idle", "prepare"}, NEW m \in Manifest,
         NEW next \in Steps \ {"idle", "prepare"},
         NEW todo \in SUBSET Artifacts, next \in Busy => todo # {},
         Record(at, m, next, todo)
  PROVE  TypeInv'
<1>1. run.txn \in Txns /\ run \in Run
  BY DEF TypeInv, TypeOK, Running, Record
<1>2. /\ journal' \in [Txns -> Manifest \cup {None}]
      /\ journal'[run.txn] = m
      /\ asked' \in [Shells -> Request \cup {None}]
  BY <1>1, WriteKeepsTypes DEF TypeInv, Record
<1>3. /\ run' \in Run /\ run'.txn = run.txn /\ run'.man = m /\ run'.todo = todo
      /\ pc' = next /\ live' = live
  BY <1>1 DEF Record, Advance, Run
<1>4. TypeOK'
  BY <1>2, <1>3 DEF TypeOK, TypeInv
<1>5. Running'
  BY <1>1, <1>2, <1>3 DEF Running
<1> QED BY <1>4, <1>5 DEF TypeInv

LEMMA OverwriteKeepsTypes ==
  ASSUME TypeInv, NEW at \in Busy, NEW a \in Artifacts,
         NEW contents \in SUBSET Content, NEW next \in Busy,
         Overwrite(at, a, contents, next)
  PROVE  TypeInv'
<1>1. live' \in [Artifacts -> Content]
  BY DEF TypeInv, TypeOK, Overwrite
<1>2. pc' = next /\ run' = run /\ UNCHANGED <<journal, asked>>
  BY DEF Overwrite, Advance
<1>3. pc = at
  BY DEF Overwrite
<1> QED BY <1>1, <1>2, <1>3
        DEF TypeInv, TypeOK, Running, Busy, Steps, Installing, Undoing

LEMMA LeaveKeepsTypes ==
  ASSUME TypeInv, Leave, UNCHANGED live,
         journal' \in [Txns -> Manifest \cup {None}],
         asked' \in [Shells -> Request \cup {None}]
  PROVE  TypeInv'
<1>1. NoRun \in Run
  BY DEF NoRun, Run
<1> QED BY <1>1 DEF Leave, Advance, TypeInv, TypeOK, Running, Steps, Busy

LEMMA TypesInit == Init => TypeInv
<1>1. NoRun \in Run
  BY DEF NoRun, Run
<1> QED BY <1>1
        DEF Init, TypeInv, TypeOK, Running, Content, Plain, Steps, Busy

LEMMA TypesNext == TypeInv /\ [Next]_vars => TypeInv'
<1> SUFFICES ASSUME TypeInv, [Next]_vars PROVE TypeInv'
  OBVIOUS
<1>1. ASSUME NEW p \in Shells, NEW t \in Txns,
             CheckInstall(p, t) \/ CheckRestore(p, t)
      PROVE  TypeInv'
  <2>1. PICK r \in Request : Ask(p, r)
    BY <1>1 DEF CheckInstall, CheckRestore, Request
  <2> QED BY <2>1 DEF Ask, TypeInv, TypeOK, Running
<1>2. ASSUME NEW p \in Outside, ReadManifest(p)
      PROVE  TypeInv'
  <2>1. [asked[p] EXCEPT !.seen = journal[asked[p].txn], !.current = TRUE]
          \in Request
    BY TypeOfRequests, <1>2 DEF Request, TypeInv, TypeOK
  <2>2. asked' \in [Shells -> Request \cup {None}]
    BY <2>1, <1>2 DEF ReadManifest, TypeInv, TypeOK
  <2> QED BY <2>2, <1>2 DEF ReadManifest, TypeInv, TypeOK, Running
<1>3. ASSUME NEW p \in Outside, Refuse(p)
      PROVE  TypeInv'
  BY <1>3 DEF Refuse, TypeInv, TypeOK, Running
<1>4. ASSUME NEW p \in Outside, LockForInstall(p)
      PROVE  TypeInv'
  <2>1. asked[p].txn \in Txns
    BY TypeOfRequests DEF TypeInv
  <2>2. [state |-> "unpublished", write |-> None, restore |-> None] \in Manifest
    BY DEF Manifest, States
  <2>3. run' \in Run /\ run'.txn \in Txns /\ pc' = "prepare"
    BY <1>4, <2>1 DEF LockForInstall, NoRun, Run
  <2>4. journal' \in [Txns -> Manifest \cup {None}]
    BY <1>4, <2>2 DEF LockForInstall, TypeInv, TypeOK
  <2> QED BY <1>4, <2>3, <2>4
          DEF LockForInstall, TakeLock, TypeInv, TypeOK, Running, Steps, Busy
<1>5. ASSUME NEW p \in Outside, LockForRestore(p)
      PROVE  TypeInv'
  <2>1. asked[p].txn \in Txns /\ asked[p].seen \in Manifest
    BY <1>5, TypeOfRequests
       DEF LockForRestore, TakeLock, Admissible, Unread, TypeInv
  <2>2. ForRestore(asked[p].seen) \in Manifest
    BY <2>1 DEF ForRestore, Manifest, States
  <2>3. /\ run' \in Run /\ run'.txn = asked[p].txn
        /\ run'.man = ForRestore(asked[p].seen)
    BY <1>5, <2>1, <2>2 DEF LockForRestore, NoRun, Run
  <2> QED BY <1>5, <2>1, <2>2, <2>3
          DEF LockForRestore, TakeLock, TypeInv, TypeOK, Running, Steps,
              Undoing, Busy
<1>6. CASE Prepare
  <2>1. Prepared \in Manifest /\ run.txn \in Txns /\ run \in Run
    BY <1>6 DEF Prepared, Manifest, States, Prepare, TypeInv, TypeOK, Running
  <2>2. run' \in Run /\ run'.txn = run.txn /\ run'.man = Prepared
        /\ run'.todo = Artifacts
    BY <1>6, <2>1 DEF Prepare, Advance, Run
  <2> QED BY <1>6, <2>1, <2>2, WriteKeepsTypes, ConstantsAssumption
          DEF Prepare, Advance, TypeInv, TypeOK, Running, Steps, Installing, Busy
<1>7. CASE RecordIntent
  <2>1. run.man \in Manifest /\ run \in Run /\ First(run.todo) \in Artifacts
        /\ run.todo \in SUBSET Artifacts /\ run.todo # {}
    BY <1>7, ChoiceInSet
       DEF RecordIntent, Record, TypeInv, TypeOK, Running, Busy, Run
  <2>2. Recorded(First(run.todo)) \in Manifest
    BY <2>1, ManifestKinds, SomeStates DEF Recorded
  <2> QED BY <1>7, <2>1, <2>2, RecordKeepsTypes
          DEF RecordIntent, Steps, Installing
<1>8. CASE BeginWrite \/ EndWrite
  <2>1. Written \in Artifacts /\ run.txn \in Txns
    BY <1>8, ChoiceInSet
       DEF BeginWrite, EndWrite, Overwrite, Written, TypeInv, TypeOK, Running,
           Busy, Run
  <2>2. Torn(Written) \in SUBSET Content /\ {Target(Written, run.txn)} \in SUBSET Content
    BY <2>1 DEF Torn, Target, Content, Plain
  <2> QED BY <1>8, <2>1, <2>2, OverwriteKeepsTypes DEF BeginWrite, EndWrite, Busy
<1>9. CASE ClearIntent
  <2> DEFINE rest == run.todo \ {Written}
             next == IF rest = {} THEN "commit" ELSE "record"
  <2>1. run.man \in Manifest /\ rest \in SUBSET Artifacts
    BY <1>9 DEF ClearIntent, Record, TypeInv, TypeOK, Running, Run
  <2>2. Cleared \in Manifest
    BY <2>1, ManifestKinds, SomeStates DEF Cleared
  <2>3. /\ next \in Steps \ {"idle", "prepare"}
        /\ "clear" \in Steps \ {"idle", "prepare"}
        /\ next \in Busy => rest # {}
    BY DEF Steps, Installing, Busy
  <2>4. Record("clear", Cleared, next, rest)
    BY <1>9 DEF ClearIntent
  <2> HIDE DEF rest, next
  <2> QED BY <2>1, <2>2, <2>3, <2>4, RecordKeepsTypes
<1>10. CASE Commit
  <2>1. run.man \in Manifest /\ run.txn \in Txns
    BY <1>10 DEF Commit, TypeInv, Running
  <2>2. [run.man EXCEPT !.state = "installed"] \in Manifest
    BY <2>1, ManifestKinds, SomeStates
  <2> QED BY <1>10, <2>1, <2>2, WriteKeepsTypes, LeaveKeepsTypes
          DEF Commit, TypeInv
<1>11. ASSUME NEW m \in Manifest, RollBack(m), pc \in Installing
       PROVE  run' \in Run /\ run'.txn = run.txn /\ run'.man \in Manifest
              /\ pc' = "undo" /\ run.txn \in Txns
  <2>1. run \in Run /\ run.txn \in Txns
    BY <1>11 DEF TypeInv, TypeOK, Running, Installing
  <2>2. [m EXCEPT !.state = "restoring", !.restore = m.write] \in Manifest
    BY ManifestKinds, SomeStates
  <2> QED BY <1>11, <2>1, <2>2 DEF RollBack, Advance, Run
<1>12. CASE Fail
  <2>1. run.man \in Manifest
    BY <1>12 DEF Fail, TypeInv, Running, Installing
  <2> QED BY <1>11, <1>12, <2>1
          DEF Fail, TypeInv, TypeOK, Running, Steps, Undoing, Busy
<1>13. CASE FailToRecord
  <2> DEFINE ahead == IF pc = "record" THEN Recorded(First(run.todo))
                      ELSE Cleared
  <2>1. run.man \in Manifest /\ pc \in Installing /\ run \in Run /\ run.txn \in Txns
    BY <1>13 DEF FailToRecord, TypeInv, TypeOK, Running, Installing
  <2>2. pc = "record" => First(run.todo) \in Artifacts
    BY <2>1, ChoiceInSet DEF TypeInv, Running, Busy, Run
  <2>3. ahead \in Manifest
    BY <2>1, <2>2, ManifestKinds, SomeStates DEF Recorded, Cleared
  <2>4. /\ RollBack(ahead) /\ live' = live
        /\ WriteManifest(ahead) \/ UNCHANGED <<journal, asked>>
    BY <1>13 DEF FailToRecord
  <2> HIDE DEF ahead
  <2>5. /\ journal' \in [Txns -> Manifest \cup {None}]
        /\ asked' \in [Shells -> Request \cup {None}]
    BY <2>1, <2>3, <2>4, WriteKeepsTypes DEF TypeInv, TypeOK
  <2> QED BY <1>11, <2>1, <2>3, <2>4, <2>5
          DEF TypeInv, TypeOK, Running, Steps, Undoing, Busy
<1>14. CASE BeginUndo
  <2>1. run.man \in Manifest
    BY <1>14 DEF BeginUndo, Record, TypeInv, Running
  <2> QED BY <1>14, <2>1, RecordKeepsTypes, ConstantsAssumption
          DEF BeginUndo, Steps, Undoing
<1>15. ASSUME pc \in {"undoRecord", "undoWrite", "undoWriting", "undoClear"}
       PROVE  /\ run.man \in Manifest /\ run.todo \in SUBSET Artifacts
              /\ run.todo # {} /\ Restored \in run.todo
  <2>1. run.man \in Manifest /\ run.todo \in SUBSET Artifacts /\ run.todo # {}
    BY <1>15 DEF TypeInv, TypeOK, Running, Busy, Run
  <2> QED BY <2>1, ChoiceInSet DEF Restored
<1>16. CASE RecordRestore
  <2>1. [run.man EXCEPT !.restore = Restored] \in Manifest
    BY <1>15, <1>16, ManifestKinds, SomeStates DEF RecordRestore, Record
  <2> QED BY <1>15, <1>16, <2>1, RecordKeepsTypes
          DEF RecordRestore, Record, Steps, Undoing
<1>17. CASE BeginRestore \/ EndRestore
  <2>1. Restored \in Artifacts
    BY <1>15, <1>17 DEF BeginRestore, EndRestore, Overwrite
  <2>2. Torn(Restored) \in SUBSET Content /\ {"original"} \in SUBSET Content
    BY DEF Torn, Content, Plain
  <2> QED BY <1>17, <2>1, <2>2, OverwriteKeepsTypes
          DEF BeginRestore, EndRestore, Busy
<1>18. CASE ClearRestore
  <2> DEFINE rest == run.todo \ {Restored}
             next == IF rest = {} THEN "undoFinish" ELSE "undoRecord"
             m == [run.man EXCEPT !.restore = None]
  <2>1. run.man \in Manifest /\ rest \in SUBSET Artifacts
    BY <1>15, <1>18 DEF ClearRestore, Record
  <2>2. m \in Manifest
    BY <2>1, ManifestKinds, SomeStates
  <2>3. /\ next \in Steps \ {"idle", "prepare"}
        /\ "undoClear" \in Steps \ {"idle", "prepare"}
        /\ next \in Busy => rest # {}
    BY DEF Steps, Undoing, Busy
  <2>4. Record("undoClear", m, next, rest)
    BY <1>18 DEF ClearRestore
  <2> HIDE DEF rest, next, m
  <2> QED BY <2>1, <2>2, <2>3, <2>4, RecordKeepsTypes
<1>19. CASE FinishUndo
  <2> DEFINE m == [run.man EXCEPT
                     !.state = run.goal,
                     !.write = IF run.goal = "rolled_back" THEN None ELSE @]
  <2>1. run.man \in Manifest /\ run.txn \in Txns /\ run.goal \in States
    BY <1>19 DEF FinishUndo, TypeInv, TypeOK, Running, Run, States
  <2>2. m \in Manifest
    <3>1. None \in Artifacts \cup {None} /\ run.man.write \in Artifacts \cup {None}
      BY <2>1, ManifestKinds
    <3> QED BY <2>1, <3>1, ManifestKinds
  <2>3. WriteManifest(m) /\ Leave /\ UNCHANGED live
    BY <1>19 DEF FinishUndo
  <2> HIDE DEF m
  <2> QED BY <2>1, <2>2, <2>3, WriteKeepsTypes, LeaveKeepsTypes DEF TypeInv
<1>20. CASE PrepareFails
  BY <1>20, LeaveKeepsTypes DEF PrepareFails, TypeInv, TypeOK
<1>21. CASE Crash
  BY <1>21, LeaveKeepsTypes DEF Crash, TypeInv, TypeOK
<1>22. ASSUME NEW a \in Artifacts, Replace(a)
       PROVE  TypeInv'
  BY <1>22 DEF Replace, TypeInv, TypeOK, Running, Content, Plain
<1>23. CASE UNCHANGED vars
  BY <1>23 DEF vars, TypeInv, TypeOK, Running
<1> QED
  BY <1>1, <1>2, <1>3, <1>4, <1>5, <1>6, <1>7, <1>8, <1>9, <1>10, <1>12, <1>13,
     <1>14, <1>16, <1>17, <1>18, <1>19, <1>20, <1>21, <1>22, <1>23
     DEF Next, Check, Lock, Install, Undo, Interrupted, Outsider

-----------------------------------------------------------------------------
(* Manifests and requests. *)

LEMMA HolderExists ==
  ASSUME TypeInv, Agreement, pc # "idle"
  PROVE  run.txn \in Txns /\ Exists(run.txn)
<1>1. run.txn \in Txns /\ (pc # "prepare" => run.man \in Manifest)
  BY DEF TypeInv, Running
<1>2. pc \in {"prepare", "undo"} \/ journal[run.txn] = run.man
  BY DEF Agreement, TypeInv, TypeOK, Steps
<1> QED BY <1>1, <1>2, ManifestIsSome DEF Agreement, InState, Exists

\* Who read the old manifest knows that it is out of date; nobody wants to
\* install under an id that has a manifest.
LEMMA WriteKeepsRequests ==
  ASSUME TypeInv, Agreement, Requests, pc # "idle", NEW m \in Manifest,
         WriteManifest(m)
  PROVE  Requests'
<1>1. run.txn \in Txns /\ Exists(run.txn)
  BY HolderExists
<1>2. \A t \in Txns \ {run.txn} : journal'[t] = journal[t]
  BY <1>1, WriteKeepsTypes DEF TypeInv
<1>3. ASSUME NEW p \in Shells
      PROVE  /\ (p \in Outside)' <=> p \in Outside
             /\ p \in Outside => /\ asked'[p].kind = asked[p].kind
                                 /\ asked'[p].txn = asked[p].txn
                                 /\ asked'[p].seen = asked[p].seen
             /\ p \in Of(run.txn) => asked'[p].current = FALSE
             /\ p \in Outside \ Of(run.txn) => asked'[p] = asked[p]
  <2>1. CASE p \in Of(run.txn)
    <3>1. asked[p] \in Request /\ asked'[p] = [asked[p] EXCEPT !.current = FALSE]
      BY <2>1, TypeOfRequests DEF WriteManifest, TypeInv, Of
    <3>2. asked'[p] \in Request
      BY <3>1 DEF Request
    <3>3. asked'[p] # None
      BY <3>2, ConstantsAssumption
    <3> QED BY <2>1, <3>1, <3>3 DEF Request, Of, Outside
  <2>2. CASE p \notin Of(run.txn)
    BY <2>2 DEF WriteManifest, Outside
  <2> QED BY <2>1, <2>2
<1>4. ASSUME NEW p \in Outside, asked[p].kind = "install"
      PROVE  asked[p].txn \in Txns \ {run.txn}
  BY <1>1, <1>4, TypeOfRequests DEF Requests, TypeInv
<1>5. \A p \in Outside : p \notin Of(run.txn) => asked[p].txn \in Txns \ {run.txn}
  BY TypeOfRequests DEF Of, TypeInv
<1>6. ASSUME NEW p \in Shells, (p \in Outside)', asked'[p].kind = "install"
      PROVE  /\ journal'[asked'[p].txn] = None
             /\ \A q \in Outside' : q # p => asked'[q].txn # asked'[p].txn
  <2>1. p \in Outside /\ asked[p].kind = "install" /\ asked'[p].txn = asked[p].txn
    BY <1>3, <1>6
  <2>2. journal'[asked'[p].txn] = None
    BY <1>2, <1>4, <2>1 DEF Requests, Exists
  <2>3. \A q \in Shells : (q \in Outside)' =>
          q \in Outside /\ asked'[q].txn = asked[q].txn
    BY <1>3
  <2> QED BY <2>1, <2>2, <2>3 DEF Requests, Outside
<1>7. ASSUME NEW p \in Shells, (p \in Outside)', asked'[p].kind = "restore",
             asked'[p].current, asked'[p].seen # None
      PROVE  /\ asked'[p].seen = journal'[asked'[p].txn]
             /\ asked'[p].seen.state \in Restorable
  <2>1. p \in Outside \ Of(run.txn) /\ asked'[p] = asked[p]
    BY <1>3, <1>7
  <2> QED BY <1>2, <1>5, <1>7, <2>1 DEF Requests
<1>8. \A p \in Outside' : p \in Shells /\ (p \in Outside)'
  BY DEF Outside
<1> QED BY <1>6, <1>7, <1>8 DEF Requests, Exists

LEMMA WriteKeepsJournals ==
  ASSUME TypeInv, Journals, pc # "idle", NEW m \in Manifest,
         m.state \in {"prepared", "installing"} => m.restore = None,
         WriteManifest(m)
  PROVE  Journals'
<1>1. run.txn \in Txns
  BY DEF TypeInv, TypeOK, Running, Steps
<1> QED BY <1>1, WriteKeepsTypes DEF Journals, InState, Exists, TypeInv

LEMMA QuietStep ==
  ASSUME Requests, Journals, UNCHANGED <<journal, asked>>
  PROVE  Requests' /\ Journals'
BY DEF Requests, Journals, InState, Exists, Outside

\* What an install has in memory while it works.
LEMMA InstallingFacts ==
  ASSUME TypeInv, Agreement, Journals, pc \in Installing
  PROVE  /\ run.txn \in Txns /\ run.man \in Manifest
         /\ journal[run.txn] = run.man
         /\ run.man.state \in {"prepared", "installing"}
         /\ run.man.restore = None
         /\ \A a \in Artifacts \cup {None} :
              /\ [run.man EXCEPT !.state = "installing", !.write = a] \in Manifest
              /\ [run.man EXCEPT !.state = "installing", !.write = a].restore = None
              /\ [run.man EXCEPT !.write = a] \in Manifest
              /\ [run.man EXCEPT !.write = a].restore = None
<1>1. run.txn \in Txns /\ run.man \in Manifest
  BY DEF TypeInv, Running, Installing
<1>2. /\ journal[run.txn] = run.man
      /\ run.man.state \in {"prepared", "installing"}
  BY DEF Agreement
<1>3. run.man.restore = None
  BY <1>1, <1>2, ManifestIsSome DEF Journals, InState, Exists
<1>4. ASSUME NEW a \in Artifacts \cup {None}
      PROVE  /\ [run.man EXCEPT !.state = "installing", !.write = a].restore = None
             /\ [run.man EXCEPT !.write = a].restore = None
  BY <1>1, <1>3 DEF Manifest
<1> QED BY <1>1, <1>2, <1>3, <1>4, ManifestKinds, SomeStates

LEMMA UndoingFacts ==
  ASSUME TypeInv, Agreement, pc \in Undoing
  PROVE  /\ run.txn \in Txns /\ run.man \in Manifest
         /\ run.man.state = "restoring"
         /\ run.goal \in {"restored", "rolled_back"}
         /\ run.todo \in SUBSET Artifacts
         /\ pc \in {"undoRecord", "undoWrite", "undoWriting", "undoClear"} =>
              Restored \in run.todo
         /\ \A a \in Artifacts \cup {None} :
              /\ [run.man EXCEPT !.restore = a] \in Manifest
              /\ [run.man EXCEPT !.restore = a].state = "restoring"
              /\ [run.man EXCEPT !.restore = a].restore = a
<1>1. run.txn \in Txns /\ run.man \in Manifest /\ run \in Run
  BY DEF TypeInv, TypeOK, Running, Undoing
<1>2. run.goal \in {"restored", "rolled_back"} /\ run.man.state = "restoring"
  BY <1>1 DEF Agreement, Undoing, Run
<1>3. run.todo \in SUBSET Artifacts
  BY <1>1 DEF Run
<1>4. pc \in {"undoRecord", "undoWrite", "undoWriting", "undoClear"} =>
        Restored \in run.todo
  BY <1>3, ChoiceInSet DEF Restored, TypeInv, Running, Busy
<1> QED BY <1>1, <1>2, <1>3, <1>4, ManifestKinds DEF Manifest

FinalManifest ==
  [run.man EXCEPT !.state = run.goal,
                  !.write = IF run.goal = "rolled_back" THEN None ELSE @]

LEMMA FinalFacts ==
  ASSUME TypeInv, Agreement, pc \in Undoing
  PROVE  FinalManifest \in Manifest /\ FinalManifest.state = run.goal
<1>1. /\ run.man \in Manifest /\ run.goal \in States
      /\ run.man.write \in Artifacts \cup {None} /\ None \in Artifacts \cup {None}
  BY UndoingFacts, ManifestKinds DEF States
<1>2. FinalManifest \in Manifest
  BY <1>1, ManifestKinds DEF FinalManifest
<1> QED BY <1>1, <1>2 DEF FinalManifest, Manifest

LEMMA RecordsNext ==
  ASSUME TypeInv, Agreement, Journals, Requests, [Next]_vars
  PROVE  Requests' /\ Journals'
<1>1. ASSUME NEW p \in Shells, NEW t \in Txns,
             CheckInstall(p, t) \/ CheckRestore(p, t)
      PROVE  Requests' /\ Journals'
  <2>1. PICK r \in Request :
          /\ Ask(p, r) /\ r.txn = t
          /\ r.kind = "install" => ~Exists(t) /\ Of(t) = {}
          /\ r.kind = "restore" => Exists(t) /\ ~r.current
    <3>1. [kind |-> "install", txn |-> t, seen |-> None, current |-> TRUE] \in Request
      BY DEF Request
    <3>2. [kind |-> "restore", txn |-> t, seen |-> None, current |-> FALSE] \in Request
      BY DEF Request
    <3>3. CASE CheckInstall(p, t)
      BY <3>1, <3>3 DEF CheckInstall
    <3>4. CASE CheckRestore(p, t)
      BY <3>2, <3>4 DEF CheckRestore
    <3> QED BY <1>1, <3>3, <3>4
  <2>2. asked' = [asked EXCEPT ![p] = r] /\ asked[p] = None /\ journal' = journal
    BY <2>1 DEF Ask
  <2>3. \A q \in Outside : q \in Shells /\ q # p /\ asked'[q] = asked[q]
    BY <2>2 DEF TypeInv, TypeOK, Outside
  <2>4. r # None /\ asked'[p] = r /\ r.kind \in {"install", "restore"}
    BY <2>2, ConstantsAssumption DEF Request, TypeInv, TypeOK
  <2>5. Outside' = Outside \cup {p}
    BY <2>2, <2>4 DEF Outside, TypeInv, TypeOK
  <2>6. \A q \in Outside : asked[q].txn = t => r.kind = "restore"
    BY <2>1, <2>4 DEF Of
  <2>7. \A q \in Outside : asked[q].txn = t => asked[q].kind # "install"
    BY <2>1, <2>4, <2>6 DEF Requests
  <2>8. Requests'
    BY <2>1, <2>2, <2>3, <2>4, <2>5, <2>6, <2>7 DEF Requests, Exists
  <2> QED BY <2>2, <2>8 DEF Journals, InState, Exists
<1>2. ASSUME NEW p \in Outside, ReadManifest(p)
      PROVE  Requests' /\ Journals'
  <2> DEFINE t == asked[p].txn
             r == [asked[p] EXCEPT !.seen = journal[t], !.current = TRUE]
  <2>1. /\ asked' = [asked EXCEPT ![p] = r] /\ journal' = journal
        /\ InState(t, Restorable) /\ asked[p].kind = "restore"
    BY <1>2 DEF ReadManifest, Unread, TypeInv, TypeOK
  <2>2. /\ asked[p] \in Request /\ r \in Request
        /\ r.kind = "restore" /\ r.txn = t /\ r.seen = journal[t]
    BY <2>1, TypeOfRequests, <1>2 DEF Request, TypeInv, TypeOK
  <2>3. r # None
    BY <2>2, ConstantsAssumption
  <2>4. /\ asked'[p] = r
        /\ \A q \in Shells \ {p} : asked'[q] = asked[q]
        /\ p \in Shells /\ asked[p] # None
    BY <2>1 DEF TypeInv, TypeOK, Outside
  <2> HIDE DEF r
  <2>5. Outside' = Outside
    BY <2>3, <2>4 DEF Outside
  <2>6. \A q \in Outside : asked'[q].kind = asked[q].kind /\ asked'[q].txn = asked[q].txn
    BY <2>1, <2>2, <2>4 DEF Outside
  <2>7. Requests'
    BY <2>1, <2>2, <2>4, <2>5, <2>6 DEF Requests, Exists, InState, Outside
  <2> QED BY <2>1, <2>7 DEF Journals, InState, Exists
<1>3. ASSUME NEW p \in Outside, asked' = [asked EXCEPT ![p] = None]
      PROVE  Outside' = Outside \ {p} /\ \A q \in Outside' : asked'[q] = asked[q]
  BY <1>3 DEF Outside, TypeInv, TypeOK
<1>4. ASSUME NEW p \in Outside, Refuse(p) \/ LockForRestore(p)
      PROVE  Requests' /\ Journals'
  <2>1. asked' = [asked EXCEPT ![p] = None] /\ journal' = journal
    BY <1>4 DEF Refuse, LockForRestore, TakeLock
  <2>2. Outside' = Outside \ {p} /\ \A q \in Outside' : asked'[q] = asked[q]
    BY <1>3, <2>1
  <2>3. Requests'
    BY <2>1, <2>2 DEF Requests, Exists
  <2> QED BY <2>1, <2>3 DEF Journals, InState, Exists
<1>5. ASSUME NEW p \in Outside, LockForInstall(p)
      PROVE  Requests' /\ Journals'
  <2> DEFINE t == asked[p].txn
  <2>1. /\ asked' = [asked EXCEPT ![p] = None]
        /\ journal' = [journal EXCEPT ![t] =
                         [state |-> "unpublished", write |-> None, restore |-> None]]
        /\ asked[p].kind = "install" /\ t \in Txns
    BY <1>5, TypeOfRequests DEF LockForInstall, TakeLock, TypeInv
  <2>2. Outside' = Outside \ {p} /\ \A q \in Outside' : asked'[q] = asked[q]
    BY <1>3, <2>1
  <2>3. \A q \in Outside \ {p} : asked[q].txn # t
    BY <2>1 DEF Requests
  <2>4. \A s \in Txns \ {t} : journal'[s] = journal[s]
    BY <2>1 DEF TypeInv, TypeOK
  <2>5. \A q \in Outside \ {p} : journal'[asked[q].txn] = journal[asked[q].txn]
    BY <2>3, <2>4, TypeOfRequests DEF TypeInv
  <2>6. Requests'
    BY <2>2, <2>5 DEF Requests, Exists
  <2>7. journal'[t].state = "unpublished"
    BY <2>1 DEF TypeInv, TypeOK
  <2> HIDE DEF t
  <2>8. Journals'
    BY <2>4, <2>7 DEF Journals, InState, Exists
  <2> QED BY <2>6, <2>8
<1>6. CASE Prepare
  <2>1. Prepared \in Manifest /\ Prepared.restore = None /\ pc # "idle"
    BY <1>6 DEF Prepared, Manifest, States, Prepare
  <2> QED BY <1>6, <2>1, WriteKeepsRequests, WriteKeepsJournals DEF Prepare
<1>7. ASSUME pc \in {"record", "clear"}
      PROVE  /\ pc = "record" => /\ Recorded(First(run.todo)) \in Manifest
                                 /\ Recorded(First(run.todo)).restore = None
             /\ pc = "clear" => Cleared \in Manifest /\ Cleared.restore = None
             /\ pc # "idle"
  <2>1. pc = "record" => First(run.todo) \in Artifacts
    BY ChoiceInSet DEF TypeInv, TypeOK, Running, Busy, Run
  <2> QED BY <1>7, <2>1, InstallingFacts DEF Recorded, Cleared, Installing
<1>8. CASE RecordIntent \/ ClearIntent
  BY <1>7, <1>8, WriteKeepsRequests, WriteKeepsJournals
     DEF RecordIntent, ClearIntent, Record
<1>9. CASE FailToRecord
  BY <1>7, <1>9, WriteKeepsRequests, WriteKeepsJournals, QuietStep
     DEF FailToRecord
<1>10. CASE Commit
  <2>1. [run.man EXCEPT !.state = "installed"] \in Manifest
    BY <1>10, ManifestKinds, SomeStates, InstallingFacts DEF Commit, Installing
  <2>2. run.man \in Manifest
    BY <1>10, InstallingFacts DEF Commit, Installing
  <2>3. [run.man EXCEPT !.state = "installed"].state = "installed"
    BY <2>2 DEF Manifest
  <2> QED BY <1>10, <2>1, <2>3, WriteKeepsRequests, WriteKeepsJournals DEF Commit
<1>11. CASE BeginUndo \/ RecordRestore \/ ClearRestore
  <2>1. pc \in Undoing
    BY <1>11 DEF BeginUndo, RecordRestore, ClearRestore, Record, Undoing
  <2>2. PICK m \in Manifest : m.state = "restoring" /\ WriteManifest(m)
    BY <1>11, <2>1, UndoingFacts
       DEF BeginUndo, RecordRestore, ClearRestore, Record
  <2> QED BY <2>1, <2>2, WriteKeepsRequests, WriteKeepsJournals DEF Undoing
<1>12. CASE FinishUndo
  <2>1. pc \in Undoing /\ pc # "idle" /\ WriteManifest(FinalManifest)
    BY <1>12 DEF FinishUndo, Undoing, FinalManifest
  <2>2. FinalManifest.state \in {"restored", "rolled_back"}
    BY <2>1, FinalFacts, UndoingFacts
  <2> QED BY <2>1, <2>2, FinalFacts, WriteKeepsRequests, WriteKeepsJournals
<1>13. CASE PrepareFails
  <2>1. CASE journal' = journal
    BY <1>13, <2>1, QuietStep DEF PrepareFails
  <2>2. CASE journal' = [journal EXCEPT ![run.txn] = None]
    <3>1. /\ run.txn \in Txns /\ asked' = asked
          /\ journal'[run.txn] = None
          /\ \A t \in Txns \ {run.txn} : journal'[t] = journal[t]
          /\ Exists(run.txn) /\ journal[run.txn].state = "unpublished"
      BY <1>13, <2>2
         DEF PrepareFails, TypeInv, TypeOK, Running, Agreement, InState
    <3>2. \A p \in Outside : /\ asked[p].txn \in Txns
                             /\ asked[p].kind = "install" => asked[p].txn # run.txn
      BY <3>1, TypeOfRequests DEF TypeInv, Requests
    <3>3. \A p \in Outside :
            asked[p].kind = "restore" /\ asked[p].current /\ asked[p].seen # None
              => asked[p].txn # run.txn
      BY <3>1 DEF Requests, Restorable
    <3>4. Requests'
      BY <3>1, <3>2, <3>3 DEF Requests, Exists, Outside
    <3> QED BY <3>1, <3>4 DEF Journals, InState, Exists
  <2> QED BY <1>13, <2>1, <2>2 DEF PrepareFails
<1>14. CASE BeginWrite \/ EndWrite \/ BeginRestore \/ EndRestore \/ Fail \/ Crash
            \/ Outsider \/ UNCHANGED vars
  BY <1>14, QuietStep
     DEF BeginWrite, EndWrite, BeginRestore, EndRestore, Overwrite, Fail, Crash,
         Outsider, Replace, vars
<1> QED
  BY <1>1, <1>2, <1>4, <1>5, <1>6, <1>8, <1>9, <1>10, <1>11, <1>12, <1>13, <1>14
     DEF Next, Check, Lock, Install, Undo, Interrupted

-----------------------------------------------------------------------------
(* Files. *)

\* The transaction at work accounts for every file that is not the vendor's.
LEMMA HolderOwns ==
  ASSUME TypeInv, Agreement, Files, pc \notin {"idle", "prepare"}
  PROVE  run.txn \in Txns /\ Owner(run.txn)
<1>1. run.txn \in Txns /\ Exists(run.txn)
  BY HolderExists
<1>2. pc \in Installing \cup Undoing
  BY DEF TypeInv, TypeOK, Steps
<1>3. InState(run.txn, Restorable)
  BY <1>1, <1>2 DEF Agreement, InState, Restorable
<1>4. CASE pc \in {"record", "write", "clear", "commit", "undoClear"}
  BY <1>1, <1>3, <1>4 DEF Files, Only, Owner
<1>5. CASE pc = "writing"
  BY <1>1, <1>3, <1>5
     DEF Files, Only, Owner, Agreement, Installing, IntentOf
<1>6. CASE pc = "undo"
  BY <1>1, <1>3, <1>6 DEF Files, Only, Owner
<1>7. CASE pc \in {"undoRecord", "undoWrite", "undoWriting"}
  <2>1. IntentOf(journal[run.txn]) = run.man.restore
    BY <1>7 DEF Agreement, Undoing, IntentOf
  <2> QED BY <1>1, <1>3, <1>7, <2>1 DEF Files, Only, Owner
<1>8. CASE pc = "undoFinish"
  BY <1>1, <1>3, <1>8 DEF Files, Agreement, Undoing, Owner
<1> QED BY <1>2, <1>4, <1>5, <1>6, <1>7, <1>8 DEF Installing, Undoing

LEMMA AlwaysOwned ==
  ASSUME TypeInv, Agreement, Files
  PROVE  Owned
BY HolderOwns DEF Owned, Files

LEMMA RecordEffect ==
  ASSUME TypeInv, NEW at \in Steps \ {"idle", "prepare"}, NEW m \in Manifest,
         NEW next, NEW todo, Record(at, m, next, todo)
  PROVE  /\ pc = at /\ pc' = next /\ live' = live
         /\ run'.txn = run.txn /\ run'.man = m /\ run'.todo = todo
         /\ run'.goal = run.goal /\ run.txn \in Txns
         /\ journal'[run.txn] = m
<1>1. run.txn \in Txns /\ run \in Run
  BY DEF TypeInv, TypeOK, Running, Record
<1>2. journal'[run.txn] = m
  BY <1>1, WriteKeepsTypes DEF Record, TypeInv
<1> QED BY <1>1, <1>2 DEF Record, Advance, Run

\* A step after which no command holds the lock.
LEMMA LeftAlone ==
  ASSUME pc' = "idle", Owned'
  PROVE  Agreement' /\ Files'
BY DEF Agreement, Files, Installing, Undoing

LEMMA SameOwners ==
  ASSUME TypeInv, Owned, live' = live,
         \A t \in Txns : InState(t, Restorable) => journal'[t] = journal[t]
  PROVE  Owned'
BY DEF Owned, Owner, Dirty, InState, Exists

LEMMA WithoutCommand ==
  ASSUME TypeInv, Agreement, Journals, Requests, Files,
         NEW p \in Outside, LockForInstall(p) \/ LockForRestore(p)
  PROVE  Agreement' /\ Files'
<1>1. CASE LockForInstall(p)
  <2> DEFINE t == asked[p].txn
  <2>1. /\ t \in Txns /\ ~Exists(t) /\ live' = live /\ pc' = "prepare"
        /\ run'.txn = t /\ pc = "idle"
    BY <1>1, TypeOfRequests
       DEF LockForInstall, TakeLock, Requests, TypeInv, NoRun
  <2>2. /\ journal'[t] = [state |-> "unpublished", write |-> None, restore |-> None]
        /\ \A s \in Txns \ {t} : journal'[s] = journal[s]
    BY <1>1, <2>1 DEF LockForInstall, TypeInv, TypeOK
  <2>3. journal'[t] \in Manifest
    BY <2>2 DEF Manifest, States
  <2> HIDE DEF t
  <2>4. Owned'
    BY <2>1, <2>2, SameOwners DEF Files, InState
  <2>5. Agreement'
    BY <2>1, <2>2, <2>3, ManifestIsSome
       DEF Agreement, InState, Exists, Installing, Undoing
  <2> QED BY <2>1, <2>4, <2>5 DEF Files, Undoing
<1>2. CASE LockForRestore(p)
  <2> DEFINE t == asked[p].txn
             m == asked[p].seen
  <2>1. /\ live' = live /\ journal' = journal /\ pc' = "undo"
        /\ asked[p].kind = "restore"
        /\ m # None /\ asked[p].current /\ Recognised(t, m)
    BY <1>2 DEF LockForRestore, TakeLock, Admissible, Unread
  <2>2. t \in Txns /\ m \in Manifest
    BY <2>1, TypeOfRequests DEF TypeInv
  <2>3. m = journal[t] /\ m.state \in Restorable
    BY <2>1 DEF Requests
  <2>4. /\ run'.txn = t /\ run'.man = ForRestore(m) /\ run'.goal = "restored"
    BY <1>2 DEF LockForRestore, NoRun
  <2>5. ForRestore(m).state = "restoring"
    BY <2>2 DEF ForRestore, Manifest
  <2>6. m.state = "installing" => m.restore = None
    BY <2>2, <2>3, ManifestIsSome DEF Journals, InState, Exists
  <2>7. m.state # "prepared" /\ m.state # "installed" =>
          ForRestore(m).restore = IntentOf(m)
    BY <2>2, <2>3, <2>6 DEF ForRestore, IntentOf, Manifest, Restorable
  <2>8. m.state \in {"prepared", "installed"} => IntentOf(m) = None
    BY DEF IntentOf
  <2> HIDE DEF t, m
  <2>9. \A a \in Artifacts :
          live[a] \in {"original", Target(a, t)} \/ a = IntentOf(m)
    BY <2>1 DEF Recognised
  <2>10. \A a \in Artifacts :
          live[a] \in {"original", Target(a, t)} \/ a = ForRestore(m).restore
    BY <2>7, <2>8, <2>9, ConstantsAssumption
  <2>11. Agreement'
    BY <2>1, <2>2, <2>3, <2>4, <2>5, ManifestIsSome
       DEF Agreement, InState, Exists, Installing, Undoing
  <2> QED BY <2>1, <2>3, <2>4, <2>9, <2>10, <2>11 DEF Files, Only, Undoing
<1> QED BY <1>1, <1>2

LEMMA InstallSteps ==
  ASSUME TypeInv, Agreement, Journals, Files, Install
  PROVE  Agreement' /\ Files'
<1>1. CASE Prepare
  <2>1. /\ Prepared \in Manifest /\ Prepared.state = "prepared"
        /\ run.txn \in Txns /\ run \in Run
    BY <1>1 DEF Prepared, Manifest, States, Prepare, TypeInv, TypeOK, Running
  <2>2. /\ run'.txn = run.txn /\ run'.man = Prepared /\ pc' = "record"
        /\ live' = live /\ Vendors /\ journal'[run.txn] = Prepared
    BY <1>1, <2>1, WriteKeepsTypes DEF Prepare, Advance, Run, TypeInv
  <2> QED BY <2>1, <2>2
          DEF Agreement, Files, Only, Installing, Undoing, Vendors
<1>2. ASSUME pc \in Installing
      PROVE  /\ run.man \in Manifest /\ run.todo \in SUBSET Artifacts
             /\ pc # "commit" => Written \in run.todo
             /\ run.txn \in Txns /\ run \in Run
  <2>1. run.man \in Manifest /\ run.todo \in SUBSET Artifacts /\ run \in Run
    BY <1>2 DEF TypeInv, TypeOK, Running, Run, Installing
  <2>2. pc # "commit" => run.todo # {}
    BY <1>2 DEF TypeInv, Running, Installing, Busy
  <2> QED BY <1>2, <2>1, <2>2, ChoiceInSet
          DEF Written, TypeInv, Running, Installing
<1>3. CASE RecordIntent
  <2> DEFINE m == Recorded(Written)
  <2>1. pc \in Installing /\ pc = "record"
    BY <1>3 DEF RecordIntent, Record, Installing
  <2>2. m \in Manifest /\ m.state = "installing" /\ m.write = Written
    BY <1>2, <2>1, ManifestKinds, SomeStates DEF Recorded, Manifest
  <2>3. Record("record", m, "write", run.todo)
    BY <1>3 DEF RecordIntent, Written
  <2> HIDE DEF m
  <2>4. /\ pc' = "write" /\ live' = live /\ run'.txn = run.txn /\ run'.man = m
        /\ run'.todo = run.todo /\ journal'[run.txn] = m
    BY <2>2, <2>3, RecordEffect DEF Steps, Installing
  <2> QED BY <2>1, <2>2, <2>4
          DEF Agreement, Files, Only, Installing, Undoing, Written
<1>4. CASE BeginWrite
  <2>1. /\ pc = "write" /\ pc' = "writing" /\ run' = run /\ journal' = journal
        /\ \A a \in Artifacts \ {Written} : live'[a] = live[a]
    BY <1>4 DEF BeginWrite, Overwrite, Advance, TypeInv, TypeOK
  <2> QED BY <2>1 DEF Agreement, Files, Only, Installing, Undoing, Written
<1>5. CASE EndWrite
  <2>1. /\ pc = "writing" /\ pc' = "clear" /\ run' = run /\ journal' = journal
        /\ live' = [live EXCEPT ![Written] = Target(Written, run.txn)]
    BY <1>5 DEF EndWrite, Overwrite, Advance
  <2>2. \A a \in Artifacts :
          live'[a] = IF a = Written THEN Target(a, run.txn) ELSE live[a]
    BY <2>1 DEF TypeInv, TypeOK
  <2>3. Only(run.txn, {})'
    BY <2>1, <2>2 DEF Files, Only, Target
  <2> QED BY <2>1, <2>3 DEF Agreement, Files, Installing, Undoing, Written
<1>6. CASE ClearIntent
  <2> DEFINE rest == run.todo \ {Written}
             next == IF rest = {} THEN "commit" ELSE "record"
             m == Cleared
  <2>1. pc = "clear" /\ pc \in Installing
    BY <1>6 DEF ClearIntent, Record, Installing
  <2>2. m \in Manifest /\ m.state = "installing"
    BY <1>2, <2>1, ManifestKinds DEF Cleared, Agreement, Manifest
  <2>3. Record("clear", m, next, rest) /\ next \in {"commit", "record"}
    BY <1>6 DEF ClearIntent
  <2> HIDE DEF m, next, rest
  <2>4. /\ pc' = next /\ live' = live /\ run'.txn = run.txn /\ run'.man = m
        /\ journal'[run.txn] = m
    BY <2>2, <2>3, RecordEffect DEF Steps, Installing
  <2> QED BY <2>1, <2>2, <2>3, <2>4
          DEF Agreement, Files, Only, Installing, Undoing
<1>7. CASE Commit
  <2> DEFINE m == [run.man EXCEPT !.state = "installed"]
  <2>1. /\ pc \in Installing /\ Whole(run.txn) /\ live' = live /\ pc' = "idle"
        /\ WriteManifest(m)
    BY <1>7 DEF Commit, Installing, Leave, Advance
  <2>2. m \in Manifest /\ m.state = "installed"
    BY <1>2, <2>1, ManifestKinds, SomeStates DEF Manifest
  <2> HIDE DEF m
  <2>3. journal'[run.txn] = m
    BY <1>2, <2>1, <2>2, WriteKeepsTypes DEF TypeInv
  <2>4. Owned'
    BY <1>2, <2>1, <2>2, <2>3, ManifestIsSome
       DEF Owned, Owner, InState, Exists, Restorable, Whole
  <2> QED BY <2>1, <2>4, LeftAlone
<1> QED BY <1>1, <1>3, <1>4, <1>5, <1>6, <1>7 DEF Install

LEMMA UndoSteps ==
  ASSUME TypeInv, Agreement, Journals, Files, Undo
  PROVE  Agreement' /\ Files'
<1>1. pc \in Undoing
  BY DEF Undo, BeginUndo, RecordRestore, BeginRestore, EndRestore, ClearRestore,
         FinishUndo, Record, Overwrite, Undoing
<1>2. /\ run.txn \in Txns /\ run.man \in Manifest /\ run.man.state = "restoring"
      /\ run.goal \in {"restored", "rolled_back"} /\ run.todo \in SUBSET Artifacts
      /\ pc \in {"undoRecord", "undoWrite", "undoWriting", "undoClear"} =>
           Restored \in run.todo
      /\ \A a \in Artifacts \cup {None} :
           /\ [run.man EXCEPT !.restore = a] \in Manifest
           /\ [run.man EXCEPT !.restore = a].state = "restoring"
           /\ [run.man EXCEPT !.restore = a].restore = a
  BY <1>1, UndoingFacts
<1>3. pc \in {"undoWrite", "undoWriting", "undoClear"} =>
        Restored = run.man.restore
  BY DEF Agreement, Restored
<1>4. CASE BeginUndo
  <2>1. /\ pc = "undo" /\ pc' = "undoRecord" /\ live' = live
        /\ run'.txn = run.txn /\ run'.man = run.man /\ run'.todo = Artifacts
        /\ run'.goal = run.goal /\ journal'[run.txn] = run.man
    BY <1>2, <1>4, RecordEffect DEF BeginUndo, Steps, Undoing
  <2>2. run.man.restore \in Artifacts \cup {None}
    BY <1>2, ManifestKinds, SomeStates
  <2> QED BY <1>2, <2>1, <2>2
          DEF Agreement, Files, Only, Installing, Undoing
<1>5. CASE RecordRestore
  <2> DEFINE m == [run.man EXCEPT !.restore = Restored]
  <2>1. pc = "undoRecord" /\ Record("undoRecord", m, "undoWrite", run.todo)
    BY <1>5 DEF RecordRestore, Record
  <2>2. m \in Manifest /\ m.state = "restoring" /\ m.restore = Restored
        /\ Restored \in run.todo
    BY <1>2, <2>1
  <2>3. run.man.restore \in {Restored, None}
    BY <2>1 DEF Agreement, Restored
  <2> HIDE DEF m
  <2>4. /\ pc' = "undoWrite" /\ live' = live /\ run'.txn = run.txn
        /\ run'.man = m /\ run'.todo = run.todo /\ run'.goal = run.goal
        /\ journal'[run.txn] = m
    BY <2>1, <2>2, RecordEffect DEF Steps, Undoing
  <2>5. Only(run.txn, {Restored})
    BY <2>1, <2>3, ConstantsAssumption DEF Files, Only
  <2>6. Agreement'
    BY <1>2, <2>2, <2>4 DEF Agreement, Installing, Undoing
  <2> QED BY <2>1, <2>2, <2>4, <2>5, <2>6 DEF Files, Only, Undoing
<1>6. CASE BeginRestore
  <2>1. /\ pc = "undoWrite" /\ pc' = "undoWriting" /\ run' = run
        /\ journal' = journal
        /\ \A a \in Artifacts \ {Restored} : live'[a] = live[a]
    BY <1>6 DEF BeginRestore, Overwrite, Advance, TypeInv, TypeOK
  <2>2. Agreement'
    BY <1>2, <2>1 DEF Agreement, Installing, Undoing
  <2> QED BY <1>2, <1>3, <2>1, <2>2 DEF Files, Only, Undoing
<1>7. CASE EndRestore
  <2>1. /\ pc = "undoWriting" /\ pc' = "undoClear" /\ run' = run
        /\ journal' = journal
        /\ \A a \in Artifacts :
             live'[a] = IF a = Restored THEN "original" ELSE live[a]
    BY <1>7 DEF EndRestore, Overwrite, Advance, TypeInv, TypeOK
  <2>2. Agreement'
    BY <1>2, <2>1 DEF Agreement, Installing, Undoing
  <2> QED BY <1>2, <1>3, <2>1, <2>2 DEF Files, Only, Undoing
<1>8. CASE ClearRestore
  <2> DEFINE rest == run.todo \ {Restored}
             next == IF rest = {} THEN "undoFinish" ELSE "undoRecord"
             m == [run.man EXCEPT !.restore = None]
  <2>1. /\ pc = "undoClear" /\ Record("undoClear", m, next, rest)
        /\ next = "undoFinish" => rest = {}
        /\ next \in {"undoFinish", "undoRecord"}
    BY <1>8 DEF ClearRestore, Record
  <2>2. m \in Manifest /\ m.state = "restoring" /\ m.restore = None
    BY <1>2
  <2>3. \A a \in Artifacts \ rest : live[a] = "original"
    BY <1>3, <2>1 DEF Files, Undoing
  <2> HIDE DEF m, next, rest
  <2>4. /\ pc' = next /\ live' = live /\ run'.txn = run.txn
        /\ run'.man = m /\ run'.todo = rest /\ run'.goal = run.goal
        /\ journal'[run.txn] = m
    BY <2>1, <2>2, RecordEffect DEF Steps, Undoing
  <2>5. Agreement'
    BY <1>2, <2>1, <2>2, <2>4 DEF Agreement, Installing, Undoing
  <2> QED BY <2>1, <2>3, <2>4, <2>5 DEF Files, Only, Undoing
<1>9. CASE FinishUndo
  <2>1. pc = "undoFinish" /\ live' = live /\ pc' = "idle"
    BY <1>9 DEF FinishUndo, Leave, Advance
  <2>2. \A a \in Artifacts : live'[a] = "original"
    BY <1>1, <2>1 DEF Agreement, Files
  <2> QED BY <2>1, <2>2, LeftAlone DEF Owned, Dirty
<1> QED BY <1>4, <1>5, <1>6, <1>7, <1>8, <1>9 DEF Undo

LEMMA InterruptedSteps ==
  ASSUME TypeInv, Agreement, Journals, Files, Interrupted
  PROVE  Agreement' /\ Files'
<1>1. Owned
  BY AlwaysOwned
<1>2. CASE PrepareFails
  <2>1. \A t \in Txns : InState(t, Restorable) => journal'[t] = journal[t]
    BY <1>2 DEF PrepareFails, Agreement, InState, Restorable, TypeInv, TypeOK
  <2> QED BY <1>1, <1>2, <2>1, SameOwners, LeftAlone
          DEF PrepareFails, Leave, Advance
<1>3. CASE Crash
  BY <1>1, <1>3, SameOwners, LeftAlone DEF Crash, Leave, Advance
\* What the disk says when a rollback begins is what the install recorded, or
\* the next thing it would have recorded.
<1>4. ASSUME pc \in Installing, NEW m \in Manifest, RollBack(m), live' = live,
             m.state \in {"prepared", "installing"},
             journal'[run.txn].state \in {"prepared", "installing"},
             Exists(run.txn)',
             pc = "writing" => /\ m.write = Written
                               /\ IntentOf(journal'[run.txn]) = Written
      PROVE  Agreement' /\ Files'
  <2>1. run.txn \in Txns /\ run \in Run
    BY <1>4 DEF TypeInv, TypeOK, Running, Installing
  <2>2. /\ pc' = "undo" /\ run'.txn = run.txn /\ run'.goal = "rolled_back"
        /\ run'.man = [m EXCEPT !.state = "restoring", !.restore = m.write]
    BY <1>4, <2>1 DEF RollBack, Advance, Run
  <2>3. run'.man.state = "restoring" /\ run'.man.restore = m.write
    BY <2>2 DEF Manifest
  <2>4. Agreement'
    BY <1>4, <2>2, <2>3 DEF Agreement, InState, Exists, Restorable, Installing, Undoing
  <2>5. Only(run.txn, {IntentOf(journal'[run.txn])}) /\ Only(run.txn, {m.write})
    BY <1>4 DEF Files, Only, Installing
  <2> QED BY <1>4, <2>2, <2>3, <2>4, <2>5 DEF Files, Only, Undoing
<1>5. CASE Fail
  <2>1. /\ pc \in Installing /\ RollBack(run.man) /\ live' = live
        /\ journal' = journal
    BY <1>5 DEF Fail
  <2>2. /\ run.man \in Manifest /\ journal[run.txn] = run.man
        /\ run.man.state \in {"prepared", "installing"} /\ Exists(run.txn)
    BY <2>1, InstallingFacts, ManifestIsSome DEF Exists
  <2>3. pc = "writing" => run.man.state = "installing" /\ run.man.write = Written
    BY DEF Agreement
  <2>4. Exists(run.txn)'
    <3>1. run'.txn = run.txn
      BY <2>1 DEF RollBack, Advance, TypeInv, TypeOK, Run
    <3> QED BY <2>1, <2>2, <3>1 DEF Exists
  <2> QED BY <1>4, <2>1, <2>2, <2>3, <2>4 DEF IntentOf
<1>6. CASE FailToRecord
  <2> DEFINE ahead == IF pc = "record" THEN Recorded(First(run.todo)) ELSE Cleared
  <2>1. /\ pc \in {"record", "clear"} /\ pc \in Installing /\ RollBack(ahead)
        /\ live' = live
        /\ WriteManifest(ahead) \/ UNCHANGED <<journal, asked>>
    BY <1>6 DEF FailToRecord, Installing
  <2>2. /\ run.txn \in Txns /\ run.man \in Manifest /\ journal[run.txn] = run.man
        /\ run.man.state \in {"prepared", "installing"}
    BY <2>1, InstallingFacts
  <2>3. pc = "record" => First(run.todo) \in Artifacts
    BY ChoiceInSet DEF TypeInv, TypeOK, Running, Busy, Run
  <2>4. ahead \in Manifest /\ ahead.state = "installing"
    <3>1. CASE pc = "record"
      BY <2>2, <2>3, <3>1, ManifestKinds, SomeStates DEF Recorded, Manifest
    <3>2. CASE pc = "clear"
      BY <2>2, <3>2, ManifestKinds DEF Cleared, Manifest, Agreement
    <3> QED BY <2>1, <3>1, <3>2
  <2> HIDE DEF ahead
  <2>5. journal'[run.txn] \in {ahead, run.man}
    BY <2>1, <2>2, <2>4, WriteKeepsTypes DEF TypeInv
  <2>6. run'.txn = run.txn
    BY <2>1 DEF RollBack, Advance, TypeInv, TypeOK, Run
  <2>7. Exists(run.txn)'
    BY <2>2, <2>4, <2>5, <2>6, ManifestIsSome DEF Exists
  <2> QED BY <1>4, <2>1, <2>2, <2>4, <2>5, <2>7
<1> QED BY <1>2, <1>3, <1>5, <1>6 DEF Interrupted

LEMMA ControlNext ==
  ASSUME TypeInv, Agreement, Journals, Requests, Files, [Next]_vars
  PROVE  Agreement' /\ Files'
<1>1. CASE Check
  <2>1. UNCHANGED <<live, journal, pc, run>>
    BY <1>1 DEF Check, CheckInstall, CheckRestore, Ask, ReadManifest, Refuse
  <2>2. Agreement'
    BY <2>1 DEF Agreement, InState, Exists, Written
  <2> QED BY <2>1, <2>2
          DEF Files, Owned, Owner, Dirty, Only, InState, Exists, Written
<1>2. CASE Outsider
  <2>1. PICK a \in Artifacts : Replace(a)
    BY <1>2 DEF Outsider
  <2>2. /\ pc = "idle" /\ pc' = "idle" /\ journal' = journal
        /\ live'[a] \in {"original", "foreign"}
        /\ \A b \in Artifacts \ {a} : live'[b] = live[b]
    BY <2>1 DEF Replace, TypeInv, TypeOK
  <2>3. Owned'
    BY <2>2 DEF Files, Owned, Owner, Dirty, InState, Exists
  <2> QED BY <2>2, <2>3, LeftAlone
<1>3. CASE UNCHANGED vars
  <2>1. Agreement'
    BY <1>3 DEF vars, Agreement, InState, Exists, Written
  <2> QED BY <1>3, <2>1
          DEF vars, Files, Owned, Owner, Dirty, Only, InState, Exists, Written
<1> QED BY <1>1, <1>2, <1>3, WithoutCommand, InstallSteps, UndoSteps,
           InterruptedSteps DEF Next, Lock

-----------------------------------------------------------------------------
LEMMA Inductive == Spec => []IInv
<1>1. Init => IInv
  BY TypesInit, ConstantsAssumption
     DEF Init, IInv, Agreement, Journals, Requests, Files, Owned, Dirty, InState,
         Exists, Outside, Installing, Undoing
<1>2. IInv /\ [Next]_vars => IInv'
  BY TypesNext, RecordsNext, ControlNext DEF IInv
<1> QED BY <1>1, <1>2, PTL DEF Spec

\* Every reachable state is well typed, for any files, transactions and shells.
THEOREM TypeCorrect == Spec => []TypeOK
<1>1. IInv => TypeOK
  BY DEF IInv, TypeInv
<1> QED BY <1>1, Inductive, PTL

\* As long as nobody replaced a file, some unfinished transaction accepts all
\* that a crash, at whatever step of whatever command, has left on the disk.
THEOREM CrashesAreRecognised == Spec => []CrashIsRecognised
<1>1. IInv => CrashIsRecognised
  <2> SUFFICES ASSUME IInv, pc = "idle", Dirty,
                      \A a \in Artifacts : live[a] # "foreign"
               PROVE  \E t \in Txns : /\ InState(t, Restorable)
                                      /\ Recognised(t, journal[t])
    BY DEF CrashIsRecognised
  <2>1. PICK t \in Txns : Owner(t)
    BY DEF IInv, Files, Owned
  <2> QED BY <2>1 DEF Owner, Recognised
<1> QED BY <1>1, Inductive, PTL

\* Files that are not all the vendor's and not all one transaction's never pass
\* status and doctor.
THEOREM MixedIsAlwaysReported == Spec => []MixedIsReported
<1>1. IInv => MixedIsReported
  <2> SUFFICES ASSUME IInv, pc = "idle", Dirty, \A t \in Txns : ~Whole(t)
               PROVE  StatusFails
    BY DEF MixedIsReported
  <2>1. PICK t \in Txns : InState(t, Restorable)
    BY DEF IInv, Files, Owned, Owner
  <2>2. ~Healthy(t)
    BY <2>1 DEF Healthy, InState, Finished, Restorable
  <2> QED BY <2>1, <2>2 DEF StatusFails, InState
<1> QED BY <1>1, Inductive, PTL

\* The steps that write a manifest: which, and what the files then are.
LEMMA OneTransactionAtATime ==
  ASSUME IInv, [Next]_vars, NEW t \in Txns, journal'[t] # journal[t]
  PROVE  /\ ~InState(t, {"restored", "rolled_back"})
         /\ \/ journal'[t] = None
            \/ journal'[t].state \notin Finished
            \/ journal'[t].state = "installed" /\ Whole(t)'
            \/ journal'[t].state \in {"restored", "rolled_back"} /\ Vendors'
<1> USE DEF IInv
<1>1. ASSUME NEW m \in Manifest, WriteManifest(m), pc # "idle"
      PROVE  t = run.txn /\ journal'[t] = m
  BY <1>1, HolderExists, WriteKeepsTypes DEF TypeInv
<1>2. ASSUME pc \in Installing \cup Undoing, t = run.txn
      PROVE  ~InState(t, {"restored", "rolled_back"})
  <2>1. run.man \in Manifest
    BY <1>2 DEF TypeInv, Running, Installing, Undoing
  <2> QED BY <1>2, <2>1 DEF Agreement, InState, Restorable
<1>3. ASSUME NEW at \in Steps \ {"idle", "prepare"}, NEW m \in Manifest,
             NEW next, NEW todo, Record(at, m, next, todo), m.state \notin Finished
      PROVE  ~InState(t, {"restored", "rolled_back"})
             /\ journal'[t].state \notin Finished
  <2>1. t = run.txn /\ journal'[t] = m /\ pc \in Installing \cup Undoing
    BY <1>1, <1>3 DEF Record, Steps
  <2> QED BY <1>2, <1>3, <2>1
<1>4. CASE Check \/ Outsider \/ UNCHANGED vars
  BY <1>4 DEF Check, CheckInstall, CheckRestore, Ask, ReadManifest, Refuse,
              Outsider, Replace, vars
<1>5. CASE Lock
  <2>1. PICK p \in Outside : LockForInstall(p)
    BY <1>5 DEF Lock, LockForRestore
  <2>2. ~Exists(asked[p].txn) /\ asked[p].txn \in Txns
    BY <2>1, TypeOfRequests DEF LockForInstall, TakeLock, Requests, TypeInv
  <2>3. t = asked[p].txn /\ journal'[t].state = "unpublished"
    BY <2>1, <2>2 DEF LockForInstall, TypeInv, TypeOK
  <2> QED BY <2>2, <2>3 DEF InState, Finished
<1>6. CASE Prepare
  <2>1. Prepared \in Manifest /\ Prepared.state = "prepared"
    BY DEF Prepared, Manifest, States
  <2>2. t = run.txn /\ journal'[t] = Prepared
    BY <1>1, <1>6, <2>1 DEF Prepare
  <2>3. journal[t].state = "unpublished"
    BY <1>6, <2>2 DEF Prepare, Agreement, InState
  <2> QED BY <2>1, <2>2, <2>3 DEF InState, Finished
<1>7. ASSUME pc \in {"record", "clear"}
      PROVE  LET m == IF pc = "record" THEN Recorded(First(run.todo)) ELSE Cleared
             IN  m \in Manifest /\ m.state = "installing"
  <2>1. run.man \in Manifest
    BY <1>7, InstallingFacts DEF Installing
  <2>2. CASE pc = "record"
    <3>1. First(run.todo) \in Artifacts
      BY <2>2, ChoiceInSet DEF TypeInv, TypeOK, Running, Busy, Run
    <3> QED BY <2>1, <2>2, <3>1, ManifestKinds, SomeStates DEF Recorded, Manifest
  <2>3. CASE pc = "clear"
    BY <2>1, <2>3, ManifestKinds DEF Cleared, Manifest, Agreement
  <2> QED BY <1>7, <2>2, <2>3
<1>8. CASE RecordIntent \/ ClearIntent
  <2>1. PICK m \in Manifest, at \in {"record", "clear"}, next \in Steps,
             todo \in SUBSET Artifacts :
          m.state = "installing" /\ Record(at, m, next, todo)
    <3>1. pc \in {"record", "clear"} /\ run.todo \in SUBSET Artifacts
      BY <1>8 DEF RecordIntent, ClearIntent, Record, TypeInv, TypeOK, Run
    <3>2. CASE RecordIntent
      BY <1>7, <3>1, <3>2 DEF RecordIntent, Record, Steps, Installing
    <3>3. CASE ClearIntent
      BY <1>7, <3>1, <3>3 DEF ClearIntent, Record, Steps, Installing
    <3> QED BY <1>8, <3>2, <3>3
  <2> QED BY <1>3, <2>1 DEF Steps, Installing, Finished
<1>9. CASE FailToRecord
  <2> DEFINE m == IF pc = "record" THEN Recorded(First(run.todo)) ELSE Cleared
  <2>1. pc \in Installing /\ pc # "idle" /\ WriteManifest(m)
    BY <1>9 DEF FailToRecord, Installing
  <2>2. m \in Manifest /\ m.state = "installing"
    BY <1>7, <1>9 DEF FailToRecord
  <2> HIDE DEF m
  <2>3. t = run.txn /\ journal'[t] = m
    BY <1>1, <2>1, <2>2
  <2> QED BY <1>2, <2>1, <2>2, <2>3 DEF Finished
<1>10. CASE Commit
  <2> DEFINE m == [run.man EXCEPT !.state = "installed"]
  <2>1. /\ pc \in Installing /\ pc # "idle" /\ Whole(run.txn)
        /\ live' = live /\ WriteManifest(m)
    BY <1>10 DEF Commit, Installing
  <2>2. m \in Manifest /\ m.state = "installed"
    BY <2>1, InstallingFacts, ManifestKinds, SomeStates DEF Manifest
  <2> HIDE DEF m
  <2>3. t = run.txn /\ journal'[t] = m
    BY <1>1, <2>1, <2>2
  <2> QED BY <1>2, <2>1, <2>2, <2>3 DEF Whole
<1>11. CASE BeginUndo \/ RecordRestore \/ ClearRestore
  <2>1. pc \in Undoing /\ pc # "idle"
    BY <1>11 DEF BeginUndo, RecordRestore, ClearRestore, Record, Undoing
  <2>2. PICK m \in Manifest : m.state = "restoring" /\ WriteManifest(m)
    BY <1>11, <2>1, UndoingFacts
       DEF BeginUndo, RecordRestore, ClearRestore, Record
  <2>3. t = run.txn /\ journal'[t] = m
    BY <1>1, <2>1, <2>2
  <2> QED BY <1>2, <2>1, <2>2, <2>3 DEF Finished
<1>12. CASE FinishUndo
  <2>1. /\ pc = "undoFinish" /\ pc \in Undoing /\ live' = live
        /\ WriteManifest(FinalManifest)
    BY <1>12 DEF FinishUndo, Undoing, FinalManifest
  <2>2. /\ FinalManifest \in Manifest
        /\ FinalManifest.state \in {"restored", "rolled_back"}
    BY <2>1, FinalFacts, UndoingFacts
  <2>3. t = run.txn /\ journal'[t] = FinalManifest
    BY <1>1, <2>1, <2>2
  <2>4. \A a \in Artifacts : live'[a] = "original"
    BY <2>1 DEF Agreement, Files
  <2> QED BY <1>2, <2>1, <2>2, <2>3, <2>4 DEF Vendors
<1>13. CASE PrepareFails
  <2>1. t = run.txn /\ journal'[t] = None
    BY <1>13 DEF PrepareFails, TypeInv, TypeOK
  <2> QED BY <1>13, <2>1 DEF PrepareFails, Agreement, InState
<1>14. CASE BeginWrite \/ EndWrite \/ BeginRestore \/ EndRestore \/ Fail \/ Crash
  BY <1>14 DEF BeginWrite, EndWrite, BeginRestore, EndRestore, Overwrite, Fail,
               Crash
<1> QED
  BY <1>4, <1>5, <1>6, <1>8, <1>9, <1>10, <1>11, <1>12, <1>13, <1>14
     DEF Next, Install, Undo, Interrupted

\* A manifest says installed, restored or rolled back only of a whole set.
THEOREM WholeSetsAreCommitted == Spec => CommitsWholeSet
<1>1. IInv /\ [Next]_vars =>
        [\A t \in Txns :
           /\ journal'[t] # journal[t]
           /\ journal'[t] # None
           /\ journal'[t].state \in Finished
           => IF journal'[t].state = "installed" THEN Whole(t)' ELSE Vendors']_vars
  BY OneTransactionAtATime
<1> QED BY <1>1, Inductive, PTL DEF CommitsWholeSet, Spec

\* No restore reopens a transaction that another one has finished.
THEOREM TerminalStatesAreFinal == Spec => TerminalIsFinal
<1>1. IInv /\ [Next]_vars =>
        [\A t \in Txns :
           InState(t, {"restored", "rolled_back"}) => journal'[t] = journal[t]]_vars
  BY OneTransactionAtATime
<1> QED BY <1>1, Inductive, PTL DEF TerminalIsFinal, Spec

\* Two files tell the transactions apart, and at most one is being written.
THEOREM InstallationsAreKept == Spec => InstallationIsKept
<1> DEFINE Kept == \A t \in Txns :
             InState(t, {"installed"}) /\ Whole(t) /\ live' # live =>
               pc = "idle" \/ run.txn = t
<1>1. IInv /\ [Next]_vars => [Kept]_vars
  <2> SUFFICES ASSUME IInv, Next, NEW t \in Txns, Whole(t), live' # live,
                      pc # "idle"
               PROVE  run.txn = t
    OBVIOUS
  <2>1. BeginWrite \/ EndWrite \/ BeginRestore \/ EndRestore
    BY DEF Next, Check, CheckInstall, CheckRestore, Ask, ReadManifest, Refuse,
           Lock, LockForInstall, LockForRestore, TakeLock, Install, Undo, Prepare,
           RecordIntent, ClearIntent, Record, Commit, BeginUndo, RecordRestore,
           ClearRestore, FinishUndo, Interrupted, PrepareFails, Fail,
           FailToRecord, Crash, Outsider, Replace
  <2>2. pc \in {"write", "writing", "undoWrite", "undoWriting"}
    BY <2>1 DEF BeginWrite, EndWrite, BeginRestore, EndRestore, Overwrite
  <2>3. run.txn \in Txns
    BY <2>2 DEF IInv, TypeInv, Running
  <2>4. PICK b : Only(run.txn, {b})
    BY <2>2 DEF IInv, Files, Only
  <2>5. PICK a \in Unique : a # b
    BY ConstantsAssumption
  <2>6. a \in Artifacts /\ live[a] = t /\ live[a] \in {"original", run.txn}
    BY <2>4, <2>5, ConstantsAssumption DEF Only, Whole, Target
  <2> QED BY <2>6, ConstantsAssumption DEF Plain
<1> QED BY <1>1, Inductive, PTL DEF InstallationIsKept, Spec
=============================================================================
