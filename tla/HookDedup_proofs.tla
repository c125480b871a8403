-------------------------- MODULE HookDedup_proofs --------------------------
(***************************************************************************)
(* Proofs about the claim protocol of HookDedup, for every number of hook   *)
(* processes and keys, every window, TTL and cap, and any file fault.       *)
(***************************************************************************)
EXTENDS HookDedup, FiniteSetTheorems, TLAPS

(***************************************************************************)
(* A directory snapshot is well typed.                                      *)
(***************************************************************************)
LEMMA SnapshotType == TypeOK => Snapshot \in Sweep
<1> SUFFICES ASSUME TypeOK PROVE Snapshot \in Sweep
  OBVIOUS
<1> DEFINE old  == {k \in Keys : Exists(k) /\ mtime[k] < now - Retention}
           live == {k \in Keys : Exists(k) /\ mtime[k] >= now - Retention}
           aged == {k \in live : mtime[k] < now - Window}
<1>1. EntriesOf(old) \in SUBSET Entry /\ EntriesOf(aged) \in SUBSET Entry
  BY DEF EntriesOf, Entry, TypeOK, Time, Exists, Absent
<1>2. Cardinality(live) \in Nat
  BY KeysAssumption, FS_Subset, FS_CardinalityType
<1>3. Cardinality(live) - MaxFiles \in Int
  BY <1>2, MaxFilesAssumption
<1> QED
  BY <1>1, <1>3 DEF Snapshot, Sweep

(***************************************************************************)
(* Dropping an entry keeps what a sweep has left well typed.                *)
(***************************************************************************)
LEMMA DropType ==
  ASSUME TypeOK, NEW p \in Procs, NEW e, Drop(p, e)
  PROVE  sweep' \in [Procs -> Sweep]
<1> DEFINE s == [expired |-> sweep[p].expired \ {e}, aged |-> sweep[p].aged \ {e},
                 excess |-> sweep[p].excess]
<1>1. sweep[p] \in Sweep
  BY DEF TypeOK
<1>2. s \in Sweep
  BY <1>1 DEF Sweep
<1>3. sweep' = [sweep EXCEPT ![p] = s]
  BY DEF Drop
<1> HIDE DEF s
<1> QED
  BY <1>2, <1>3 DEF TypeOK

(***************************************************************************)
(* Every step keeps the state well typed.                                   *)
(***************************************************************************)
LEMMA TypeStep == TypeOK /\ [Next]_vars => TypeOK'
<1> SUFFICES ASSUME TypeOK, [Next]_vars PROVE TypeOK'
  OBVIOUS
<1> USE DEF TypeOK, Time, Bodies, Labels, Goto, files, history
<1>1. ASSUME NEW p \in Procs, NEW k \in Keys, BeginClaim(p, k) PROVE TypeOK'
  BY <1>1, SnapshotType DEF BeginClaim
<1>2. ASSUME NEW p \in Procs, ClaimUnavailable(p) PROVE TypeOK'
  BY <1>2 DEF ClaimUnavailable, Won
<1>3. ASSUME NEW p \in Procs, SweepConfirm(p) PROVE TypeOK'
  <2> PICK e \in Candidates(p) :
        /\ Drop(p, e)
        /\ victim' = [victim EXCEPT ![p] = {[key |-> e.key, mtime |-> e.mtime,
                                  aged |-> e \notin sweep[p].expired]}]
    BY <1>3 DEF SweepConfirm
  <2>1. sweep[p] \in Sweep
    OBVIOUS
  <2>2. e \in Entry
    BY <2>1 DEF Candidates, Sweep
  <2>3. victim' \in [Procs -> SUBSET Victim]
    <3>1. (e \notin sweep[p].expired) \in BOOLEAN
      OBVIOUS
    <3> DEFINE v == [key |-> e.key, mtime |-> e.mtime,
                     aged |-> e \notin sweep[p].expired]
    <3>2. v \in Victim
      BY <2>2, <3>1 DEF Entry, Victim
    <3>3. {v} \in SUBSET Victim
      BY <3>2
    <3>4. victim' = [victim EXCEPT ![p] = {v}]
      OBVIOUS
    <3> HIDE DEF v
    <3> QED
      BY <3>3, <3>4
  <2>4. sweep' \in [Procs -> Sweep]
    BY DropType
  <2>5. pc' \in [Procs -> Labels]
    BY <1>3 DEF SweepConfirm
  <2>6. UNCHANGED <<now, mtime, body, key, prior, tracked, lastMark, seenMark,
                    wonAt, recordedAt, raced>>
    BY <1>3 DEF SweepConfirm
  <2> QED
    BY <2>3, <2>4, <2>5, <2>6
<1>4. ASSUME NEW p \in Procs, SweepSpare(p) PROVE TypeOK'
  <2>1. sweep' \in [Procs -> Sweep]
    BY <1>4, DropType DEF SweepSpare
  <2> QED
    BY <1>4, <2>1 DEF SweepSpare
<1>5. ASSUME NEW p \in Procs, SweepUnlink(p) PROVE TypeOK'
  <2> PICK v \in victim[p] :
        /\ mtime' = [mtime EXCEPT ![v.key] = Absent]
        /\ SetBody(v.key, NoConclusion)
        /\ sweep' = [sweep EXCEPT ![p].excess =
                       IF v.aged /\ Exists(v.key) THEN @ - 1 ELSE @]
        /\ raced' = IF mtime[v.key] \notin {Absent, v.mtime}
                    THEN raced \cup {v.key} ELSE raced
    BY <1>5 DEF SweepUnlink
  <2>1. v \in Victim
    OBVIOUS
  <2>2. sweep' \in [Procs -> Sweep]
    BY DEF Sweep
  <2> QED
    BY <1>5, <2>1, <2>2 DEF SweepUnlink, Victim, SetBody, Never, Absent
<1>6. ASSUME NEW p \in Procs, SweepDone(p) PROVE TypeOK'
  BY <1>6 DEF SweepDone, NoSweep, Sweep
<1>7. ASSUME NEW p \in Procs, CreateClaim(p) PROVE TypeOK'
  BY <1>7 DEF CreateClaim, Won, Mark
<1>8. ASSUME NEW p \in Procs, ClaimExists(p) PROVE TypeOK'
  BY <1>8 DEF ClaimExists
<1>9. ASSUME NEW p \in Procs, StatFresh(p) \/ StatStale(p) PROVE TypeOK'
  BY <1>9 DEF StatFresh, StatStale
<1>10. ASSUME NEW p \in Procs, ReadPrior(p) PROVE TypeOK'
  BY <1>10 DEF ReadPrior
<1>11. ASSUME NEW p \in Procs, TouchAndLose(p) PROVE TypeOK'
  BY <1>11 DEF TouchAndLose
<1>12. ASSUME NEW p \in Procs, TakeOver(p) PROVE TypeOK'
  BY <1>12 DEF TakeOver, Won, Mark, SetBody, Never, Absent
<1>13. ASSUME NEW p \in Procs, TakeOverUnreset(p) PROVE TypeOK'
  BY <1>13 DEF TakeOverUnreset, Won, Mark
<1>14. ASSUME NEW p \in Procs, NEW c \in Bodies, Finish(p, c) PROVE TypeOK'
  BY <1>14 DEF Finish, SetBody, Mark, Return, NoSweep, Sweep, Never, Absent
<1>15. ASSUME NEW p \in Procs, FinishUnrecorded(p) PROVE TypeOK'
  BY <1>15 DEF FinishUnrecorded, Mark, Return, NoSweep, Sweep, Never, Absent
<1>16. ASSUME NEW p \in Procs, FinishNoop(p) \/ Crash(p) PROVE TypeOK'
  <2>1. Return(p) /\ UNCHANGED <<now, mtime, body, key, lastMark, recordedAt, raced>>
    BY <1>16 DEF FinishNoop, Crash
  <2> QED
    BY <2>1 DEF Return, NoSweep, Sweep, Never, Absent
<1>17. CASE Tick
  BY <1>17 DEF Tick
<1>18. CASE UNCHANGED vars
  BY <1>18 DEF vars
<1> QED
  BY <1>1, <1>2, <1>3, <1>4, <1>5, <1>6, <1>7, <1>8, <1>9, <1>10, <1>11,
     <1>12, <1>13, <1>14, <1>15, <1>16, <1>17, <1>18
  DEF Next, ClaimStep, ClaimProceeds

(***************************************************************************)
(* Type correctness of the claim directory and of every hook process.       *)
(***************************************************************************)
THEOREM TypeCorrect == Spec => []TypeOK
<1>1. Init => TypeOK
  BY DEF Init, TypeOK, Time, Bodies, Labels, Sweep, NoSweep, Absent, Never
<1>2. TypeOK /\ [Next]_vars => TypeOK'
  BY TypeStep
<1> QED
  BY <1>1, <1>2, PTL DEF Spec
-----------------------------------------------------------------------------

(***************************************************************************)
(* A snapshot dooms only entries older than the freshness window.           *)
(***************************************************************************)
LEMMA SnapshotAged ==
  ASSUME TypeOK
  PROVE  \A e \in Snapshot.expired \cup Snapshot.aged : now > e.mtime + Window
<1>1. Retention \in Nat /\ Retention >= Window /\ Window \in Nat
  BY WindowAssumption, TTLAssumption DEF Retention
<1>2. ASSUME NEW e \in Snapshot.expired PROVE now > e.mtime + Window
  <2> PICK k \in Keys : /\ Exists(k) /\ mtime[k] < now - Retention
                       /\ e = [key |-> k, mtime |-> mtime[k]]
    BY <1>2 DEF Snapshot, EntriesOf
  <2> QED
    BY <1>1 DEF TypeOK, Time, Absent, Exists
<1>3. ASSUME NEW e \in Snapshot.aged PROVE now > e.mtime + Window
  <2> PICK k \in Keys : /\ Exists(k) /\ mtime[k] < now - Window
                       /\ e = [key |-> k, mtime |-> mtime[k]]
    BY <1>3 DEF Snapshot, EntriesOf
  <2> QED
    BY <1>1 DEF TypeOK, Time, Absent, Exists
<1> QED
  BY <1>2, <1>3

(***************************************************************************)
(* FlightInv holds initially and every step keeps it.                       *)
(***************************************************************************)
LEMMA FlightInvInit == Init => FlightInv
<1> SUFFICES ASSUME Init PROVE FlightInv
  OBVIOUS
<1>1. TypeOK
  BY DEF Init, TypeOK, Time, Bodies, Labels, Sweep, NoSweep, Absent, Never
<1> QED
  BY <1>1 DEF Init, FlightInv, TimesPast, MarkPresent, VictimsAged, MarkSeen,
              TakeOverStale, SingleFlight, Flying, NoSweep, Absent, Never

LEMMA FlightInvStep == FlightInv /\ [Next]_vars => FlightInv'
<1> SUFFICES ASSUME FlightInv, [Next]_vars PROVE FlightInv'
  OBVIOUS
<1>0. TypeOK /\ TypeOK'
  BY TypeStep DEF FlightInv
<1> USE <1>0, WindowAssumption
    DEF FlightInv, TimesPast, MarkPresent, VictimsAged, MarkSeen, TakeOverStale,
        SingleFlight, Flying, Exists, TypeOK, Time, Absent, Never, Goto, files,
        history
<1>1. ASSUME NEW p \in Procs, NEW k \in Keys, BeginClaim(p, k) PROVE FlightInv'
  <2>1. VictimsAged'
    BY <1>1, SnapshotAged DEF BeginClaim
  <2> QED
    BY <1>1, <2>1 DEF BeginClaim
<1>2. ASSUME NEW p \in Procs, ClaimUnavailable(p) PROVE FlightInv'
  BY <1>2 DEF ClaimUnavailable, Won
<1>3. ASSUME NEW p \in Procs, SweepConfirm(p) PROVE FlightInv'
  <2> PICK e \in Candidates(p) :
        /\ Drop(p, e)
        /\ victim' = [victim EXCEPT ![p] = {[key |-> e.key, mtime |-> e.mtime,
                                  aged |-> e \notin sweep[p].expired]}]
    BY <1>3 DEF SweepConfirm
  <2>1. e \in sweep[p].expired \cup sweep[p].aged
    BY DEF Candidates
  <2>2. now' = now
    BY <1>3 DEF SweepConfirm
  <2>3. ASSUME NEW q \in Procs, NEW v \in victim'[q]
        PROVE  now > v.mtime + Window
    <3>1. CASE q = p
      <4>1. victim'[p] = {[key |-> e.key, mtime |-> e.mtime,
                           aged |-> e \notin sweep[p].expired]}
        OBVIOUS
      <4>2. v.mtime = e.mtime
        BY <4>1, <3>1, <2>3
      <4> QED
        BY <4>2, <2>1
    <3>2. CASE q # p
      BY <3>2, <2>3
    <3> QED
      BY <3>1, <3>2
  <2>4. ASSUME NEW q \in Procs,
               NEW f \in sweep'[q].expired \cup sweep'[q].aged
        PROVE  f \in sweep[q].expired \cup sweep[q].aged
    BY <2>4 DEF Drop
  <2>5. VictimsAged'
    BY <2>2, <2>3, <2>4
  <2> QED
    BY <1>3, <2>5 DEF SweepConfirm
<1>4. ASSUME NEW p \in Procs, SweepSpare(p) PROVE FlightInv'
  <2>1. VictimsAged'
    BY <1>4 DEF SweepSpare, Drop
  <2> QED
    BY <1>4, <2>1 DEF SweepSpare
<1>5. ASSUME NEW p \in Procs, SweepUnlink(p) PROVE FlightInv'
  <2> PICK v \in victim[p] :
        /\ mtime' = [mtime EXCEPT ![v.key] = Absent]
        /\ SetBody(v.key, NoConclusion)
        /\ sweep' = [sweep EXCEPT ![p].excess =
                       IF v.aged /\ Exists(v.key) THEN @ - 1 ELSE @]
        /\ raced' = IF mtime[v.key] \notin {Absent, v.mtime}
                    THEN raced \cup {v.key} ELSE raced
    BY <1>5 DEF SweepUnlink
  <2>1. UNCHANGED <<now, key, prior, tracked, lastMark, seenMark, wonAt>>
        /\ pc[p] = "unlink" /\ pc' = [pc EXCEPT ![p] = "sweep"]
        /\ victim' = [victim EXCEPT ![p] = {}]
    BY <1>5 DEF SweepUnlink
  <2>2. v \in Victim /\ now > v.mtime + Window
    OBVIOUS
  <2>3. raced \subseteq raced'
    OBVIOUS
  <2>4. MarkPresent'
    <3> SUFFICES ASSUME NEW k \in Keys, k \notin raced', lastMark[k] # Never,
                        now <= lastMark[k] + Window
                 PROVE  mtime'[k] # Absent /\ mtime'[k] >= lastMark[k]
      BY <2>1
    <3>1. mtime[k] # Absent /\ mtime[k] >= lastMark[k]
      BY <2>3
    <3>2. CASE k = v.key
      <4>1. mtime[k] = v.mtime
        BY <3>1, <3>2
      <4> QED
        BY <4>1, <3>1, <2>2 DEF Victim
    <3> QED
      BY <3>1, <3>2
  <2>5. VictimsAged'
    BY <2>1
  <2>6. TimesPast'
    BY <2>1
  <2> QED
    BY <2>1, <2>3, <2>4, <2>5, <2>6
<1>6. ASSUME NEW p \in Procs, SweepDone(p) PROVE FlightInv'
  BY <1>6 DEF SweepDone, NoSweep
<1>7. ASSUME NEW p \in Procs, CreateClaim(p) PROVE FlightInv'
  BY <1>7 DEF CreateClaim, Won, Mark
<1>8. ASSUME NEW p \in Procs, ClaimExists(p) PROVE FlightInv'
  BY <1>8 DEF ClaimExists
<1>9. ASSUME NEW p \in Procs, StatFresh(p) PROVE FlightInv'
  BY <1>9 DEF StatFresh
<1>10. ASSUME NEW p \in Procs, StatStale(p) PROVE FlightInv'
  <2>1. TakeOverStale'
    <3>1. ASSUME key[p] \notin raced, seenMark[p] # Never
          PROVE  now > seenMark[p] + Window
      BY <1>10, <3>1 DEF StatStale, Fresh
    <3> QED
      BY <1>10, <3>1 DEF StatStale
  <2> QED
    BY <1>10, <2>1 DEF StatStale
<1>11. ASSUME NEW p \in Procs, ReadPrior(p) PROVE FlightInv'
  BY <1>11 DEF ReadPrior
<1>12. ASSUME NEW p \in Procs, TouchAndLose(p) PROVE FlightInv'
  BY <1>12 DEF TouchAndLose
<1>13. ASSUME NEW p \in Procs, TakeOver(p) PROVE FlightInv'
  BY <1>13 DEF TakeOver, Won, Mark
<1>14. ASSUME NEW p \in Procs, TakeOverUnreset(p) PROVE FlightInv'
  <2>1. TimesPast'
    BY <1>14 DEF TakeOverUnreset, Won, Mark
  <2>2. MarkPresent'
    BY <1>14 DEF TakeOverUnreset, Won, Mark
  <2>3. VictimsAged'
    BY <1>14 DEF TakeOverUnreset, Won, Mark
  <2>4. MarkSeen'
    BY <1>14 DEF TakeOverUnreset, Won, Mark
  <2>5. TakeOverStale'
    BY <1>14 DEF TakeOverUnreset, Won, Mark
  <2>6. SingleFlight'
    BY <1>14 DEF TakeOverUnreset, Won, Mark
  <2> QED
    BY <2>1, <2>2, <2>3, <2>4, <2>5, <2>6
<1>15. ASSUME NEW p \in Procs, NEW c \in Bodies, Finish(p, c) PROVE FlightInv'
  <2>1. TimesPast'
    BY <1>15 DEF Finish, Mark, Return, NoSweep
  <2>2. MarkPresent'
    BY <1>15 DEF Finish, Mark, Return, NoSweep
  <2>3. VictimsAged'
    BY <1>15 DEF Finish, Mark, Return, NoSweep
  <2>4. MarkSeen'
    BY <1>15 DEF Finish, Mark, Return, NoSweep
  <2>5. TakeOverStale'
    BY <1>15 DEF Finish, Mark, Return, NoSweep
  <2>6. SingleFlight'
    BY <1>15 DEF Finish, Mark, Return, NoSweep
  <2> QED
    BY <2>1, <2>2, <2>3, <2>4, <2>5, <2>6
<1>16. ASSUME NEW p \in Procs, FinishUnrecorded(p) PROVE FlightInv'
  <2>1. TimesPast'
    BY <1>16 DEF FinishUnrecorded, Mark, Return, NoSweep
  <2>2. MarkPresent'
    BY <1>16 DEF FinishUnrecorded, Mark, Return, NoSweep
  <2>3. VictimsAged'
    BY <1>16 DEF FinishUnrecorded, Mark, Return, NoSweep
  <2>4. MarkSeen'
    BY <1>16 DEF FinishUnrecorded, Mark, Return, NoSweep
  <2>5. TakeOverStale'
    BY <1>16 DEF FinishUnrecorded, Mark, Return, NoSweep
  <2>6. SingleFlight'
    BY <1>16 DEF FinishUnrecorded, Mark, Return, NoSweep
  <2> QED
    BY <2>1, <2>2, <2>3, <2>4, <2>5, <2>6
<1>17. ASSUME NEW p \in Procs, FinishNoop(p) \/ Crash(p) PROVE FlightInv'
  <2>1. Return(p) /\ UNCHANGED <<now, mtime, body, key, lastMark, recordedAt, raced>>
    BY <1>17 DEF FinishNoop, Crash
  <2> QED
    BY <2>1 DEF Return, NoSweep
<1>18. CASE Tick
  <2>1. now' = now + 1 /\ UNCHANGED <<files, pc, key, tracked, sweep, victim, history>>
    BY <1>18 DEF Tick
  <2>2. TimesPast' /\ MarkSeen' /\ SingleFlight'
    BY <2>1
  <2>3. MarkPresent'
    BY <2>1
  <2>4. VictimsAged'
    <3>1. ASSUME NEW q \in Procs, NEW v \in victim[q]
          PROVE  now + 1 > v.mtime + Window
      BY <3>1 DEF Victim
    <3>2. ASSUME NEW q \in Procs, NEW e \in sweep[q].expired \cup sweep[q].aged
          PROVE  now + 1 > e.mtime + Window
      <4>1. sweep[q] \in Sweep
        OBVIOUS
      <4>2. e \in Entry
        BY <4>1, <3>2 DEF Sweep
      <4> QED
        BY <3>2, <4>2 DEF Entry
    <3> QED
      BY <2>1, <3>1, <3>2
  <2>5. TakeOverStale'
    BY <2>1
  <2> QED
    BY <2>2, <2>3, <2>4, <2>5
<1>19. CASE UNCHANGED vars
  BY <1>19 DEF vars
<1> QED
  BY <1>1, <1>2, <1>3, <1>4, <1>5, <1>6, <1>7, <1>8, <1>9, <1>10, <1>11, <1>12,
     <1>13, <1>14, <1>15, <1>16, <1>17, <1>18, <1>19
  DEF Next, ClaimStep, ClaimProceeds

(***************************************************************************)
(* Within the window of a win or a conclusion its claim file is there and   *)
(* no older, no sweep is about to remove it, and no take-over is on its way *)
(* (hookdedup.go:145-171 and 227-249), for any processes, keys and faults.  *)
(***************************************************************************)
THEOREM FlightInvHolds == Spec => []FlightInv
BY FlightInvInit, FlightInvStep, PTL DEF Spec

(***************************************************************************)
(* The single-flight contract of Claim, whatever file operations fail: a    *)
(* claim that begins within the window of a win or conclusion on its key    *)
(* does not win in that window, as long as no sweep hit the gap between its *)
(* re-stat and its removal.                                                 *)
(***************************************************************************)
THEOREM SingleFlightHolds == Spec => []SingleFlight
<1>1. FlightInv => SingleFlight
  BY DEF FlightInv
<1> QED
  BY <1>1, FlightInvHolds, PTL

(***************************************************************************)
(* A flight's losers are never shown the conclusion of an older flight that *)
(* a take-over could clear.                                                 *)
(***************************************************************************)
ConclusionInv ==
  /\ TypeOK
  /\ \A k \in Keys : mtime[k] = Absent => body[k] = NoConclusion
  /\ \A p \in Procs : wonAt[p] <= now
  /\ NoOlderConclusion

THEOREM NoOlderConclusionHolds == Spec => []NoOlderConclusion
<1>1. Init => ConclusionInv
  <2> SUFFICES ASSUME Init PROVE ConclusionInv
    OBVIOUS
  <2>1. TypeOK
    BY FlightInvInit DEF FlightInv
  <2> QED
    BY <2>1 DEF Init, ConclusionInv, NoOlderConclusion, Flying, Never
<1>2. ConclusionInv /\ [Next]_vars => ConclusionInv'
  <2> SUFFICES ASSUME ConclusionInv, [Next]_vars PROVE ConclusionInv'
    OBVIOUS
  <2>0. TypeOK /\ TypeOK'
    BY TypeStep DEF ConclusionInv
  <2> USE <2>0 DEF ConclusionInv, NoOlderConclusion, Flying, Exists, TypeOK, Time,
        Absent, Never, Goto, files, history
  <2>1. ASSUME NEW p \in Procs, NEW k \in Keys, BeginClaim(p, k) PROVE ConclusionInv'
    BY <2>1 DEF BeginClaim
  <2>2. ASSUME NEW p \in Procs, ClaimUnavailable(p) PROVE ConclusionInv'
    BY <2>2 DEF ClaimUnavailable, Won
  <2>3. ASSUME NEW p \in Procs, SweepConfirm(p) \/ SweepSpare(p) \/ SweepDone(p)
        PROVE  ConclusionInv'
    <3>1. UNCHANGED <<now, files, key, tracked, history>> /\ pc'[p] # "won"
          /\ \A q \in Procs : q # p => pc'[q] = pc[q]
      BY <2>3 DEF SweepConfirm, SweepSpare, SweepDone
    <3> QED
      BY <3>1
  <2>4. ASSUME NEW p \in Procs, SweepUnlink(p) PROVE ConclusionInv'
    <3> PICK v \in victim[p] :
          /\ mtime' = [mtime EXCEPT ![v.key] = Absent]
          /\ SetBody(v.key, NoConclusion)
      BY <2>4 DEF SweepUnlink
    <3>1. UNCHANGED <<now, key, tracked, wonAt>> /\ pc' = [pc EXCEPT ![p] = "sweep"]
      BY <2>4 DEF SweepUnlink
    <3>2. v.key \in Keys
      BY DEF Victim
    <3> QED
      BY <3>1, <3>2 DEF SetBody
  <2>5. ASSUME NEW p \in Procs, CreateClaim(p) PROVE ConclusionInv'
    BY <2>5 DEF CreateClaim, Won
  <2>6. ASSUME NEW p \in Procs,
               ClaimExists(p) \/ StatFresh(p) \/ StatStale(p) \/ ReadPrior(p)
        PROVE  ConclusionInv'
    <3>1. UNCHANGED <<now, files, key, tracked, history>> /\ pc'[p] # "won"
          /\ \A q \in Procs : q # p => pc'[q] = pc[q]
      BY <2>6 DEF ClaimExists, StatFresh, StatStale, ReadPrior
    <3> QED
      BY <3>1
  <2>7. ASSUME NEW p \in Procs, TouchAndLose(p) PROVE ConclusionInv'
    BY <2>7 DEF TouchAndLose
  <2>8. ASSUME NEW p \in Procs, TakeOver(p) PROVE ConclusionInv'
    BY <2>8 DEF TakeOver, Won, SetBody
  <2>9. ASSUME NEW p \in Procs, NEW c \in Bodies, Finish(p, c) PROVE ConclusionInv'
    BY <2>9 DEF Finish, SetBody, Return
  <2>10. ASSUME NEW p \in Procs, FinishUnrecorded(p) PROVE ConclusionInv'
    BY <2>10 DEF FinishUnrecorded, Return
  <2>11. ASSUME NEW p \in Procs, FinishNoop(p) \/ Crash(p) PROVE ConclusionInv'
    <3>1. Return(p) /\ UNCHANGED <<now, mtime, body, key, recordedAt>>
      BY <2>11 DEF FinishNoop, Crash
    <3> QED
      BY <3>1 DEF Return
  <2>12. CASE Tick
    BY <2>12 DEF Tick
  <2>13. CASE UNCHANGED vars
    BY <2>13 DEF vars
  <2>14. ASSUME NEW p \in Procs, TakeOverUnreset(p) PROVE ConclusionInv'
    BY <2>14 DEF TakeOverUnreset, Won, Mark
  <2> QED
    BY <2>1, <2>2, <2>3, <2>4, <2>5, <2>6, <2>7, <2>8, <2>9, <2>10, <2>11, <2>12,
       <2>13, <2>14
    DEF Next, ClaimStep, ClaimProceeds
<1>3. ConclusionInv => NoOlderConclusion
  BY DEF ConclusionInv
<1> QED
  BY <1>1, <1>2, <1>3, PTL DEF Spec

(***************************************************************************)
(* A sweep removes no claim inside the freshness window, unless the claim   *)
(* changed between the sweep's re-stat and its removal.                     *)
(***************************************************************************)
THEOREM SweepSparesFreshHolds == Spec => SweepSparesFresh
<1> DEFINE Spares == \A k \in Keys \ raced' :
                       Exists(k) /\ mtime'[k] = Absent => now - mtime[k] > Window
<1>1. FlightInv /\ [Next]_vars => [Spares]_vars
  <2> SUFFICES ASSUME FlightInv, Next, NEW k \in Keys, k \notin raced', Exists(k),
                      mtime'[k] = Absent
               PROVE  now - mtime[k] > Window
    OBVIOUS
  <2> USE WindowAssumption
      DEF FlightInv, VictimsAged, TypeOK, Time, Exists, Absent, files
  <2>1. ASSUME NEW p \in Procs, SweepUnlink(p) PROVE now - mtime[k] > Window
    <3> PICK v \in victim[p] :
          /\ mtime' = [mtime EXCEPT ![v.key] = Absent]
          /\ raced' = IF mtime[v.key] \notin {Absent, v.mtime}
                      THEN raced \cup {v.key} ELSE raced
      BY <2>1 DEF SweepUnlink
    <3>1. k = v.key /\ mtime[k] = v.mtime
      OBVIOUS
    <3>2. v \in Victim /\ now > v.mtime + Window
      OBVIOUS
    <3> QED
      BY <3>1, <3>2 DEF Victim
  <2>2. ASSUME NEW p \in Procs,
               CreateClaim(p) \/ TouchAndLose(p) \/ TakeOver(p)
                 \/ TakeOverUnreset(p) \/ FinishUnrecorded(p)
        PROVE  FALSE
    <3>1. mtime' = mtime \/ mtime' = [mtime EXCEPT ![key[p]] = now]
      BY <2>2 DEF CreateClaim, TouchAndLose, TakeOver, TakeOverUnreset,
                  FinishUnrecorded
    <3> QED
      BY <3>1
  <2>3. \A p \in Procs : \A c \in Bodies : ~Finish(p, c)
    BY DEF Finish
  <2>4. \A p \in Procs : \A j \in Keys : ~BeginClaim(p, j)
    BY DEF BeginClaim
  <2>5. \A p \in Procs : ~ClaimUnavailable(p) /\ ~SweepConfirm(p) /\ ~SweepSpare(p)
                          /\ ~SweepDone(p) /\ ~ClaimExists(p)
    BY DEF ClaimUnavailable, SweepConfirm, SweepSpare, SweepDone, ClaimExists
  <2>6. \A p \in Procs : ~StatFresh(p) /\ ~StatStale(p) /\ ~ReadPrior(p)
                          /\ ~FinishNoop(p) /\ ~Crash(p)
    BY DEF StatFresh, StatStale, ReadPrior, FinishNoop, Crash
  <2>7. ~Tick
    BY DEF Tick
  <2> QED
    BY <2>1, <2>2, <2>3, <2>4, <2>5, <2>6, <2>7 DEF Next, ClaimStep, ClaimProceeds
<1>2. Init /\ [][Next]_vars => [][Spares]_vars
  BY <1>1, FlightInvInit, FlightInvStep, PTL
<1> QED
  BY <1>2 DEF Spec, SweepSparesFresh

=============================================================================
