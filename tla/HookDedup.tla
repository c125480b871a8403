------------------------------ MODULE HookDedup ------------------------------
(***************************************************************************)
(* The claim protocol of internal/adapters/hookdedup: a single-flight lock  *)
(* kept in files, one file per claim key.  A file's modification time says  *)
(* how fresh the claim is, its body holds the conclusion of the flight that *)
(* won it.  Hook processes run Claim concurrently; every system call that   *)
(* another process can observe is an action of its own.                     *)
(*                                                                         *)
(* The code keeps no process identity in a file and takes no lock, so the   *)
(* gaps between two calls (stat then read, stat then reset, re-stat then    *)
(* remove) are the behaviour this module is about.                          *)
(***************************************************************************)
EXTENDS Integers, FiniteSets

CONSTANTS
  Procs,          \* hook processes
  Keys,           \* claim keys: sha256 of a prompt identity, one file each
  Conclusions,    \* what a flight can record for its losers
  NoConclusion,   \* empty, unreadable or OutcomeUnknown body
  Window,         \* freshness window (DefaultWindow = 5s), in ticks
  TTL,            \* claimTTL = 10min, in ticks
  MaxFiles,       \* maxClaimFiles; stands for maxClaimBytes as well
  Faults,         \* the file operations that may fail
  MaxTime         \* bound: the clock stops here

FaultKinds == {"open", "record", "reset", "touch"}

ASSUME KeysAssumption == IsFiniteSet(Keys)
ASSUME ConclusionsAssumption == NoConclusion \notin Conclusions
ASSUME WindowAssumption == Window \in Nat \ {0}
ASSUME TTLAssumption == TTL \in Nat
ASSUME MaxFilesAssumption == MaxFiles \in Nat
ASSUME MaxTimeAssumption == MaxTime \in Nat
ASSUME FaultsAssumption == Faults \subseteq FaultKinds

VARIABLES
  now,      \* the clock that file times and processes share
  mtime,    \* mtime[k]: modification time of the claim file, or Absent
  body,     \* body[k]: the conclusion recorded in the file
  pc,       \* pc[p]: where p is in Claim
  key,      \* key[p]: the key p is claiming
  prior,    \* prior[p]: what a losing Claim returned
  tracked,  \* tracked[p]: FALSE for a win whose finish is the no-op
  sweep,    \* sweep[p]: what collectGarbage has still to look at
  victim    \* victim[p]: the entry p re-stat'ed and is about to remove, if any

(***************************************************************************)
(* History: never read by an action of the code.                            *)
(***************************************************************************)
VARIABLES
  lastMark,   \* lastMark[k]: when a flight on k last won, or concluded
  seenMark,   \* seenMark[p]: lastMark of p's key when p's Claim began
  wonAt,      \* wonAt[p]: when p won
  recordedAt, \* recordedAt[k]: when body[k] was recorded, or a failing reset kept it
  raced       \* keys whose file a sweep removed after it had changed again

files   == <<mtime, body>>
history == <<lastMark, seenMark, wonAt, recordedAt, raced>>
vars    == <<now, files, pc, key, prior, tracked, sweep, victim, history>>

Absent == -1
Never  == -1

Time   == Nat \cup {Absent}
Bodies == Conclusions \cup {NoConclusion}
Entry  == [key: Keys, mtime: Nat]
Victim == [key: Keys, mtime: Nat, aged: BOOLEAN]
Sweep  == [expired: SUBSET Entry, aged: SUBSET Entry, excess: Int]

Labels == {"idle", "sweep", "unlink", "create", "stat", "read", "touch",
           "takeover", "won", "lost"}

NoSweep  == [expired |-> {}, aged |-> {}, excess |-> 0]

TypeOK ==
  /\ now \in Nat
  /\ mtime \in [Keys -> Time]
  /\ body \in [Keys -> Bodies]
  /\ pc \in [Procs -> Labels]
  /\ key \in [Procs -> Keys]
  /\ prior \in [Procs -> Bodies]
  /\ tracked \in [Procs -> BOOLEAN]
  /\ sweep \in [Procs -> Sweep]
  /\ victim \in [Procs -> SUBSET Victim]
  /\ lastMark \in [Keys -> Time]
  /\ seenMark \in [Procs -> Time]
  /\ wonAt \in [Procs -> Time]
  /\ recordedAt \in [Keys -> Time]
  /\ raced \in SUBSET Keys

Init ==
  /\ now = 0
  /\ mtime = [k \in Keys |-> Absent]
  /\ body = [k \in Keys |-> NoConclusion]
  /\ pc = [p \in Procs |-> "idle"]
  /\ key \in [Procs -> Keys]
  /\ prior = [p \in Procs |-> NoConclusion]
  /\ tracked = [p \in Procs |-> FALSE]
  /\ sweep = [p \in Procs |-> NoSweep]
  /\ victim = [p \in Procs |-> {}]
  /\ lastMark = [k \in Keys |-> Never]
  /\ seenMark = [p \in Procs |-> Never]
  /\ wonAt = [p \in Procs |-> Never]
  /\ recordedAt = [k \in Keys |-> Never]
  /\ raced = {}

-----------------------------------------------------------------------------
(* Fields of the claim file that the code reads.                            *)

Exists(k)  == mtime[k] # Absent
Fresh(k)   == Exists(k) /\ now - mtime[k] <= Window

Retention == IF Window > TTL THEN Window ELSE TTL

EntriesOf(K) == {[key |-> k, mtime |-> mtime[k]] : k \in K}

(* Broken: every live entry may be evicted, the freshness window or not.    *)
SnapshotUnprotected ==
  LET old  == {k \in Keys : Exists(k) /\ mtime[k] < now - Retention}
      live == {k \in Keys : Exists(k) /\ mtime[k] >= now - Retention}
  IN [expired |-> EntriesOf(old),
      aged    |-> EntriesOf(live),
      excess  |-> Cardinality(live) - MaxFiles]

(***************************************************************************)
(* What collectGarbage decides from one reading of the directory: the       *)
(* entries past their retention, the entries the caps may evict (older than *)
(* the freshness window), and by how many files the directory is over.      *)
(***************************************************************************)
Snapshot ==
  LET old  == {k \in Keys : Exists(k) /\ mtime[k] < now - Retention}
      live == {k \in Keys : Exists(k) /\ mtime[k] >= now - Retention}
  IN [expired |-> EntriesOf(old),
      aged    |-> EntriesOf({k \in live : mtime[k] < now - Window}),
      excess  |-> Cardinality(live) - MaxFiles]

(* Expired entries go first; then, while the caps are exceeded, the oldest. *)
Candidates(p) ==
  IF sweep[p].expired # {} THEN sweep[p].expired
  ELSE IF sweep[p].excess > 0
       THEN {e \in sweep[p].aged : \A f \in sweep[p].aged : e.mtime <= f.mtime}
       ELSE {}

Drop(p, e) ==
  sweep' = [sweep EXCEPT ![p] = [expired |-> @.expired \ {e},
                                 aged    |-> @.aged \ {e},
                                 excess  |-> @.excess]]

Goto(p, l) == pc' = [pc EXCEPT ![p] = l]

Won(p, isTracked) ==
  /\ Goto(p, "won")
  /\ tracked' = [tracked EXCEPT ![p] = isTracked]
  /\ wonAt' = [wonAt EXCEPT ![p] = now]

SetBody(k, c) ==
  /\ body' = [body EXCEPT ![k] = c]
  /\ recordedAt' = [recordedAt EXCEPT ![k] = IF c = NoConclusion THEN Never ELSE now]

(* The process is gone, and its local variables with it.                    *)
Return(p) ==
  /\ Goto(p, "idle")
  /\ prior' = [prior EXCEPT ![p] = NoConclusion]
  /\ tracked' = [tracked EXCEPT ![p] = FALSE]
  /\ sweep' = [sweep EXCEPT ![p] = NoSweep]
  /\ victim' = [victim EXCEPT ![p] = {}]
  /\ seenMark' = [seenMark EXCEPT ![p] = Never]
  /\ wonAt' = [wonAt EXCEPT ![p] = Never]

Mark(k) == lastMark' = [lastMark EXCEPT ![k] = now]
-----------------------------------------------------------------------------
(* Claim(baseCacheDir, prompt, window).                                     *)

(* Claim is called: the directory is read once, before anything is removed. *)
BeginClaim(p, k) ==
  /\ pc[p] = "idle"
  /\ Goto(p, "sweep")
  /\ key' = [key EXCEPT ![p] = k]
  /\ sweep' = [sweep EXCEPT ![p] = Snapshot]
  /\ seenMark' = [seenMark EXCEPT ![p] = lastMark[k]]
  /\ UNCHANGED <<now, files, prior, tracked, victim, lastMark, wonAt, recordedAt,
                 raced>>

(* The directory cannot be used: the caller wins and nothing is recorded.   *)
ClaimUnavailable(p) ==
  /\ pc[p] \in {"sweep", "create"}
  /\ "open" \in Faults
  /\ Won(p, FALSE)
  /\ UNCHANGED <<now, files, key, prior, sweep, victim, lastMark, seenMark,
                 recordedAt, raced>>

(* Re-stat of the next entry: unchanged since the directory was read.       *)
SweepConfirm(p) ==
  /\ pc[p] = "sweep"
  /\ \E e \in Candidates(p) :
       /\ mtime[e.key] = e.mtime
       /\ Drop(p, e)
       /\ victim' = [victim EXCEPT ![p] = {[key |-> e.key, mtime |-> e.mtime,
                                            aged |-> e \notin sweep[p].expired]}]
  /\ Goto(p, "unlink")
  /\ UNCHANGED <<now, files, key, prior, tracked, history>>

(* Re-stat of the next entry: touched or gone meanwhile, so it is spared.   *)
SweepSpare(p) ==
  /\ pc[p] = "sweep"
  /\ \E e \in Candidates(p) : mtime[e.key] # e.mtime /\ Drop(p, e)
  /\ UNCHANGED <<now, files, pc, key, prior, tracked, victim, history>>

(* os.Remove.  Nothing ties it to the re-stat that came before it.          *)
SweepUnlink(p) ==
  /\ pc[p] = "unlink"
  /\ \E v \in victim[p] :
       /\ mtime' = [mtime EXCEPT ![v.key] = Absent]
       /\ SetBody(v.key, NoConclusion)
       /\ sweep' = [sweep EXCEPT ![p].excess =
                      IF v.aged /\ Exists(v.key) THEN @ - 1 ELSE @]
       /\ raced' = IF mtime[v.key] \notin {Absent, v.mtime}
                   THEN raced \cup {v.key} ELSE raced
  /\ victim' = [victim EXCEPT ![p] = {}]
  /\ Goto(p, "sweep")
  /\ UNCHANGED <<now, key, prior, tracked, lastMark, seenMark, wonAt>>

SweepDone(p) ==
  /\ pc[p] = "sweep"
  /\ Candidates(p) = {}
  /\ sweep' = [sweep EXCEPT ![p] = NoSweep]
  /\ Goto(p, "create")
  /\ UNCHANGED <<now, files, key, prior, tracked, victim, history>>

(* O_CREATE|O_EXCL succeeds: this process made the file and wins.           *)
CreateClaim(p) ==
  /\ pc[p] = "create"
  /\ ~Exists(key[p])
  /\ mtime' = [mtime EXCEPT ![key[p]] = now]
  /\ Won(p, TRUE)
  /\ Mark(key[p])
  /\ UNCHANGED <<now, body, key, prior, sweep, victim, seenMark, recordedAt, raced>>

ClaimExists(p) ==
  /\ pc[p] = "create"
  /\ Exists(key[p])
  /\ Goto(p, "stat")
  /\ UNCHANGED <<now, files, key, prior, tracked, sweep, victim, history>>

StatFresh(p) ==
  /\ pc[p] = "stat"
  /\ Fresh(key[p])
  /\ Goto(p, "read")
  /\ UNCHANGED <<now, files, key, prior, tracked, sweep, victim, history>>

(* Too old, or gone since the failed create.                                *)
StatStale(p) ==
  /\ pc[p] = "stat"
  /\ ~Fresh(key[p])
  /\ Goto(p, "takeover")
  /\ UNCHANGED <<now, files, key, prior, tracked, sweep, victim, history>>

ReadPrior(p) ==
  /\ pc[p] = "read"
  /\ prior' = [prior EXCEPT ![p] = body[key[p]]]
  /\ Goto(p, "touch")
  /\ UNCHANGED <<now, files, key, tracked, sweep, victim, history>>

(* A loser slides the window; touch makes the file again if it is gone.     *)
TouchAndLose(p) ==
  /\ pc[p] = "touch"
  /\ mtime' \in {[mtime EXCEPT ![key[p]] = now]}
                  \cup (IF "touch" \in Faults THEN {mtime} ELSE {})
  /\ Goto(p, "lost")
  /\ UNCHANGED <<now, body, key, prior, tracked, sweep, victim, history>>

(* Broken: a take-over only touches the claim.                              *)
TakeOverTouching(p) ==
  /\ pc[p] = "takeover"
  /\ mtime' = [mtime EXCEPT ![key[p]] = now]
  /\ Won(p, TRUE)
  /\ Mark(key[p])
  /\ UNCHANGED <<now, body, key, prior, sweep, victim, seenMark, recordedAt, raced>>

(* reset: drop the previous flight's conclusion, mark the claim fresh.      *)
TakeOver(p) ==
  /\ pc[p] = "takeover"
  /\ mtime' = [mtime EXCEPT ![key[p]] = now]
  /\ SetBody(key[p], NoConclusion)
  /\ Won(p, TRUE)
  /\ Mark(key[p])
  /\ UNCHANGED <<now, key, prior, sweep, victim, seenMark, raced>>

(* reset cannot write the file and falls back to touch: the body survives.  *)
TakeOverUnreset(p) ==
  /\ pc[p] = "takeover"
  /\ "reset" \in Faults
  /\ \/ /\ mtime' = [mtime EXCEPT ![key[p]] = now]
        /\ Mark(key[p])
     \/ "touch" \in Faults /\ UNCHANGED <<mtime, lastMark>>
  /\ recordedAt' = [recordedAt EXCEPT ![key[p]] = now]
  /\ Won(p, TRUE)
  /\ UNCHANGED <<now, body, key, prior, sweep, victim, seenMark, raced>>

-----------------------------------------------------------------------------
(* The flight is over.                                                      *)

(* Broken: record gives the new file the age of the old one.                *)
FinishAged(p, c) ==
  /\ pc[p] = "won"
  /\ tracked[p]
  /\ SetBody(key[p], c)
  /\ Mark(key[p])
  /\ Return(p)
  /\ UNCHANGED <<now, mtime, key, raced>>

(* finish(c): record replaces the file, which also refreshes it.            *)
Finish(p, c) ==
  /\ pc[p] = "won"
  /\ tracked[p]
  /\ mtime' = [mtime EXCEPT ![key[p]] = now]
  /\ SetBody(key[p], c)
  /\ Mark(key[p])
  /\ Return(p)
  /\ UNCHANGED <<now, key, raced>>

(* record cannot write the file and falls back to touch.                    *)
FinishUnrecorded(p) ==
  /\ pc[p] = "won"
  /\ tracked[p]
  /\ "record" \in Faults
  /\ \/ /\ mtime' = [mtime EXCEPT ![key[p]] = now]
        /\ Mark(key[p])
     \/ "touch" \in Faults /\ UNCHANGED <<mtime, lastMark>>
  /\ Return(p)
  /\ UNCHANGED <<now, body, key, recordedAt, raced>>

(* The no-op finish of a win that holds no claim, or of a loss.             *)
FinishNoop(p) ==
  /\ pc[p] = "lost" \/ (pc[p] = "won" /\ ~tracked[p])
  /\ Return(p)
  /\ UNCHANGED <<now, files, key, lastMark, recordedAt, raced>>

(* The process dies, or the host kills it: what it wrote stays.             *)
Crash(p) ==
  /\ pc[p] # "idle"
  /\ Return(p)
  /\ UNCHANGED <<now, files, key, lastMark, recordedAt, raced>>

Tick ==
  /\ now < MaxTime
  /\ now' = now + 1
  /\ UNCHANGED <<files, pc, key, prior, tracked, sweep, victim, history>>

(* Claim goes on without an error.                                          *)
ClaimProceeds(p) ==
  \/ SweepConfirm(p) \/ SweepSpare(p) \/ SweepUnlink(p) \/ SweepDone(p)
  \/ CreateClaim(p) \/ ClaimExists(p) \/ StatFresh(p) \/ StatStale(p)
  \/ ReadPrior(p) \/ TouchAndLose(p) \/ TakeOver(p)

ClaimStep(p) == ClaimProceeds(p) \/ ClaimUnavailable(p) \/ TakeOverUnreset(p)

Next ==
  \/ \E p \in Procs :
       \/ \E k \in Keys : BeginClaim(p, k)
       \/ ClaimStep(p)
       \/ \E c \in Bodies : Finish(p, c)
       \/ FinishUnrecorded(p) \/ FinishNoop(p) \/ Crash(p)
  \/ Tick

Spec == Init /\ [][Next]_vars

-----------------------------------------------------------------------------
Flying(p) == pc[p] = "won"

(***************************************************************************)
(* The single-flight contract of Claim (hookdedup.go:14-21): a Claim that   *)
(* begins after another flight on the same key won or concluded does not    *)
(* win within the window of that mark.  Claims that overlap one another may *)
(* both win; a claim file that a sweep removed between its re-stat and its  *)
(* os.Remove (raced) protects nobody.                                       *)
(***************************************************************************)
SingleFlight ==
  \A p \in Procs :
    Flying(p) /\ tracked[p] /\ key[p] \notin raced /\ seenMark[p] # Never
      => wonAt[p] > seenMark[p] + Window

(***************************************************************************)
(* The strengthening behind SingleFlight.  MarkPresent is its core: within  *)
(* the window of a win or a conclusion the claim file is there, and is no   *)
(* older.  VictimsAged says why a sweep cannot take such a file away, and   *)
(* TakeOverStale carries the verdict of the stat to the take-over.          *)
(***************************************************************************)
MarkPresent ==
  \A k \in Keys \ raced :
    lastMark[k] # Never /\ now <= lastMark[k] + Window
      => Exists(k) /\ mtime[k] >= lastMark[k]

TimesPast ==
  /\ \A k \in Keys : lastMark[k] <= now /\ mtime[k] <= now
  /\ \A p \in Procs : wonAt[p] <= now /\ seenMark[p] <= now

VictimsAged ==
  \A p \in Procs :
    /\ \A v \in victim[p] : now > v.mtime + Window
    /\ \A e \in sweep[p].expired \cup sweep[p].aged : now > e.mtime + Window

MarkSeen ==
  \A p \in Procs : pc[p] # "idle" => seenMark[p] <= lastMark[key[p]]

TakeOverStale ==
  \A p \in Procs :
    pc[p] = "takeover" /\ key[p] \notin raced /\ seenMark[p] # Never
      => now > seenMark[p] + Window

FlightInv ==
  TypeOK /\ TimesPast /\ MarkPresent /\ VictimsAged /\ MarkSeen /\ TakeOverStale
  /\ SingleFlight

(***************************************************************************)
(* A taken-over claim shows this flight's losers no conclusion of an older  *)
(* flight (hookdedup.go:164-166): while a flight is on, a body that can be  *)
(* read was recorded after the flight won, or is one that a take-over since *)
(* then failed to clear (reset, hookdedup.go:275).                          *)
(***************************************************************************)
NoOlderConclusion ==
  \A p \in Procs :
    Flying(p) /\ tracked[p] /\ body[key[p]] # NoConclusion
      => recordedAt[key[p]] >= wonAt[p]

(***************************************************************************)
(* A sweep removes no claim inside its freshness window, whatever the caps  *)
(* say (hookdedup.go:236-240), unless the claim changed in the gap between  *)
(* the re-stat and the removal.                                             *)
(***************************************************************************)
SweepSparesFresh ==
  [][\A k \in Keys \ raced' :
       Exists(k) /\ mtime'[k] = Absent => now - mtime[k] > Window]_vars
=============================================================================
