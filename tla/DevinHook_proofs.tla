--------------------------- MODULE DevinHook_proofs ---------------------------
(***************************************************************************)
(* The theorems of DevinHook: for every number of sessions, hooks, keys and *)
(* ticks.  Whatever hook dies, is killed, or fails to use the claim         *)
(* directory, a manual prompt is not let through (FailClosed), the types    *)
(* hold, the claims follow HookDedup, no prompt is shown to another         *)
(* session, and no hook is killed that has the time its deadline promises.  *)
(* What one submission costs and shows depends on the claim directory: the  *)
(* last two theorems say on which of its operations.                        *)
(***************************************************************************)
EXTENDS DevinHook, TLAPS

(***************************************************************************)
(* Types of the variables that the argument reads.                          *)
(***************************************************************************)
HostTypeOK ==
  /\ body \in [DedupKeys -> Conclusions \cup {NoConclusion}]
  /\ prior \in [Sessions -> Conclusions \cup {NoConclusion}]
  /\ key \in [Sessions -> DedupKeys]
  /\ phase \in [Sessions -> Phases]
  /\ text \in [Sessions -> Texts]
  /\ step \in [Sessions -> Nat]
  /\ result \in [Sessions -> Results]
  /\ reply \in [Sessions -> Reply]
  /\ injectedKeys \in SUBSET DedupKeys

Running == {"claim", "flight", "deliver", "emit", "conclude"}

(* Only de-duplicating hooks claim.                                         *)
ClaimPhase == \A s \in Sessions : phase[s] = "claim" => cfg.dedup

(* What a loser read is gone with its process.                              *)
PriorLocal ==
  \A s \in Sessions : prior[s] # NoConclusion => cfg.dedup /\ phase[s] \in Running

(***************************************************************************)
(* A conclusion `inject` is in a claim, or was read by a loser, only for a  *)
(* key on which an injection was emitted.                                   *)
(***************************************************************************)
InjectionsRecorded ==
  /\ \A k \in DedupKeys :
       body[k] # NoConclusion /\ body[k].outcome = "inject" => k \in injectedKeys
  /\ \A s \in Sessions :
       prior[s] # NoConclusion /\ prior[s].outcome = "inject"
         => key[s] \in injectedKeys

(* A running hook claims under the key of its own prompt.                   *)
OwnKey ==
  \A s \in Sessions : cfg.dedup /\ phase[s] \in Running => key[s] = CurrentKey(s)

(***************************************************************************)
(* A hook lets a manual prompt pass only after an injection on its key, and *)
(* once its output is written an injection is on record.                    *)
(***************************************************************************)
SafeResult ==
  \A s \in Sessions :
    /\ phase[s] \in {"deliver", "emit", "conclude", "exit"} /\ IsManual(s)
       /\ result[s].decision = "skip" => CurrentKey(s) \in injectedKeys
    /\ phase[s] \in {"conclude", "exit"} /\ result[s].decision = "inject"
         => CurrentKey(s) \in injectedKeys

SafeReply ==
  \A s \in Sessions :
    /\ reply[s].answered /\ IsManual(s)
         => reply[s].blocked \/ CurrentKey(s) \in injectedKeys
    /\ reply[s].verdict = "sent" => ~reply[s].blocked
    /\ phase[s] # "idle" => reply[s].verdict = "none"

ClosedInv ==
  /\ HostTypeOK /\ ClaimPhase /\ PriorLocal /\ InjectionsRecorded /\ OwnKey
  /\ SafeResult /\ SafeReply

(***************************************************************************)
(* What one step of Claim does to a claim body, and to what a loser read.   *)
(***************************************************************************)
LEMMA ClaimStepEffect ==
  ASSUME HostTypeOK, NEW s \in Sessions, Claims!ClaimStep(s)
  PROVE  /\ key' = key
         /\ body' \in [DedupKeys -> Conclusions \cup {NoConclusion}]
         /\ \A k \in DedupKeys : body'[k] = body[k] \/ body'[k] = NoConclusion
         /\ prior' = prior \/ prior' = [prior EXCEPT ![s] = body[key[s]]]
<1> USE DEF HostTypeOK, Claims!files, Claims!history
<1>1. CASE \/ Claims!ClaimUnavailable(s) \/ Claims!SweepConfirm(s)
           \/ Claims!SweepSpare(s) \/ Claims!SweepDone(s) \/ Claims!CreateClaim(s)
           \/ Claims!ClaimExists(s) \/ Claims!StatFresh(s) \/ Claims!StatStale(s)
           \/ Claims!TouchAndLose(s) \/ Claims!TakeOverUnreset(s)
  <2>1. UNCHANGED <<key, body, prior>>
    BY <1>1 DEF Claims!ClaimUnavailable, Claims!SweepConfirm, Claims!SweepSpare,
      Claims!SweepDone, Claims!CreateClaim, Claims!ClaimExists, Claims!StatFresh,
      Claims!StatStale, Claims!TouchAndLose, Claims!TakeOverUnreset
  <2> QED
    BY <2>1
<1>2. CASE Claims!SweepUnlink(s)
  <2> PICK v \in victim[s] : Claims!SetBody(v.key, NoConclusion)
    BY <1>2 DEF Claims!SweepUnlink
  <2>1. UNCHANGED <<key, prior>>
    BY <1>2 DEF Claims!SweepUnlink
  <2> QED
    BY <2>1 DEF Claims!SetBody
<1>3. CASE Claims!ReadPrior(s)
  BY <1>3 DEF Claims!ReadPrior
<1>4. CASE Claims!TakeOver(s)
  <2>1. UNCHANGED <<key, prior>> /\ Claims!SetBody(key[s], NoConclusion)
    BY <1>4 DEF Claims!TakeOver
  <2> QED
    BY <2>1 DEF Claims!SetBody
<1> QED
  BY <1>1, <1>2, <1>3, <1>4 DEF Claims!ClaimStep, Claims!ClaimProceeds

LEMMA ClosedInvInit == Init => ClosedInv
<1> SUFFICES ASSUME Init PROVE ClosedInv
  OBVIOUS
<1>1. HostTypeOK
  BY DEF Init, Claims!Init, HostTypeOK, Phases, Results, Skip, Decisions, NoReply,
         Reply, Claims!NoSweep
<1>2. InjectionsRecorded
  BY <1>1 DEF Init, Claims!Init, InjectionsRecorded, HostTypeOK
<1> QED
  BY <1>1, <1>2 DEF Init, ClosedInv, ClaimPhase, PriorLocal, OwnKey, SafeResult, SafeReply,
                    NoReply, Running, Claims!Init

LEMMA KeyType == \A s \in Sessions, t \in Texts : DedupKey(s, t) \in DedupKeys
  BY DEF DedupKeys

(***************************************************************************)
(* Losing a hook leaves bodies alone, and the process's own reading empty.  *)
(***************************************************************************)
LEMMA LoseHookEffect ==
  ASSUME HostTypeOK, NEW s \in Sessions, LoseHook(s)
  PROVE  /\ UNCHANGED <<key, body, cfg, text, step, injectedKeys>>
         /\ prior' = prior \/ prior' = [prior EXCEPT ![s] = NoConclusion]
         /\ phase' = [phase EXCEPT ![s] = "next"]
         /\ phase[s] # "idle"
         /\ result' = [result EXCEPT ![s] = Skip]
  BY DEF LoseHook, GoTo, Produce, Claims!Crash, Claims!Return, Claims!files, claimVars

(***************************************************************************)
(* The updates of a reply keep it a reply, and keep its other fields.       *)
(***************************************************************************)
Keeps(q, r) == q.answered = r.answered /\ q.blocked = r.blocked /\ q.verdict = r.verdict

LEMMA FlightNoted ==
  ASSUME NEW r \in Reply
  PROVE  [r EXCEPT !.flights = @ + 1] \in Reply /\ Keeps([r EXCEPT !.flights = @ + 1], r)
<1>1. [r EXCEPT !.flights = @ + 1] \in Reply
  BY DEF Reply
<1>2. Keeps([r EXCEPT !.flights = @ + 1], r)
  BY DEF Reply, Keeps
<1> QED
  BY <1>1, <1>2

LEMMA DeathNoted ==
  ASSUME NEW r \in Reply
  PROVE  /\ [r EXCEPT !.died = TRUE] \in Reply
         /\ Keeps([r EXCEPT !.died = TRUE], r)
         /\ [r EXCEPT !.died = TRUE, !.killed = TRUE] \in Reply
         /\ Keeps([r EXCEPT !.died = TRUE, !.killed = TRUE], r)
<1>1. [r EXCEPT !.died = TRUE] \in Reply
  BY DEF Reply
<1>2. [r EXCEPT !.died = TRUE, !.killed = TRUE] \in Reply
  BY DEF Reply
<1>3. Keeps([r EXCEPT !.died = TRUE], r)
  BY DEF Reply, Keeps
<1>4. Keeps([r EXCEPT !.died = TRUE, !.killed = TRUE], r)
  BY DEF Reply, Keeps
<1> QED
  BY <1>1, <1>2, <1>3, <1>4

LEMMA VerdictNoted ==
  ASSUME NEW r \in Reply, NEW v \in {"blocked", "sent"}
  PROVE  LET q == [r EXCEPT !.verdict = v] IN
         /\ q \in Reply
         /\ q.answered = r.answered /\ q.blocked = r.blocked /\ q.verdict = v
<1>1. [r EXCEPT !.verdict = v] \in Reply
  BY DEF Reply
<1>2. /\ [r EXCEPT !.verdict = v].answered = r.answered
      /\ [r EXCEPT !.verdict = v].blocked = r.blocked
      /\ [r EXCEPT !.verdict = v].verdict = v
  BY DEF Reply
<1> QED
  BY <1>1, <1>2

Answered(r, b, sh, n) ==
  [r EXCEPT !.answered = TRUE, !.blocked = b, !.shown = sh, !.injections = n]

(***************************************************************************)
(* A step that leaves the claims alone, keeps text and injectedKeys, and    *)
(* touches only session s.                                                  *)
(***************************************************************************)
LocalTo(s) ==
  /\ UNCHANGED <<key, body, prior, cfg, text, injectedKeys>>
  /\ phase' \in [Sessions -> Phases] /\ result' \in [Sessions -> Results]
  /\ reply' \in [Sessions -> Reply] /\ step' \in [Sessions -> Nat]
  /\ \A q \in Sessions \ {s} :
       phase'[q] = phase[q] /\ result'[q] = result[q] /\ reply'[q] = reply[q]

LEMMA LocalStep ==
  ASSUME ClosedInv, NEW s \in Sessions, LocalTo(s),
         phase'[s] # "claim", prior[s] # NoConclusion => phase'[s] \in Running,
         cfg.dedup /\ phase'[s] \in Running => key[s] = CurrentKey(s),
         /\ phase'[s] \in {"deliver", "emit", "conclude", "exit"} /\ IsManual(s)
            /\ result'[s].decision = "skip" => CurrentKey(s) \in injectedKeys
         /\ phase'[s] \in {"conclude", "exit"} /\ result'[s].decision = "inject"
              => CurrentKey(s) \in injectedKeys,
         /\ reply'[s].answered /\ IsManual(s)
              => reply'[s].blocked \/ CurrentKey(s) \in injectedKeys
         /\ reply'[s].verdict = "sent" => ~reply'[s].blocked
         /\ phase'[s] # "idle" => reply'[s].verdict = "none"
  PROVE  ClosedInv'
<1> USE DEF ClosedInv, LocalTo, CurrentKey, IsManual
<1>1. HostTypeOK'
  BY DEF HostTypeOK
<1>2. PriorLocal'
  BY DEF PriorLocal
<1>7. ClaimPhase'
  BY DEF ClaimPhase
<1>3. InjectionsRecorded'
  BY DEF InjectionsRecorded
<1>4. OwnKey'
  BY DEF OwnKey
<1>5. SafeResult'
  BY DEF SafeResult
<1>6. SafeReply'
  BY DEF SafeReply
<1> QED
  BY <1>1, <1>2, <1>3, <1>4, <1>5, <1>6, <1>7

(***************************************************************************)
(* Every step keeps ClosedInv.                                              *)
(***************************************************************************)
LEMMA ClosedInvStep == ClosedInv /\ [Next]_vars => ClosedInv'
<1> SUFFICES ASSUME ClosedInv, [Next]_vars PROVE ClosedInv'
  OBVIOUS
<1>0. HostTypeOK
  BY DEF ClosedInv
<1> USE <1>0 DEF HostTypeOK
<1>2. ASSUME NEW s \in Sessions, StartHook(s) PROVE ClosedInv'
  <2>1. /\ phase[s] = "next"
        /\ step' = [step EXCEPT ![s] = @ + 1]
        /\ UNCHANGED <<cfg, text, injectedKeys, body, prior>>
    BY <1>2 DEF StartHook, Claims!BeginClaim, Claims!files, claimVars
  <2>2. prior[s] = NoConclusion
    BY <2>1 DEF ClosedInv, PriorLocal, Running
  <2>3. reply[s].verdict = "none"
    BY <2>1 DEF ClosedInv, SafeReply
  <2>4. ASSUME phase' = [phase EXCEPT ![s] = "next"], UNCHANGED <<key, result, reply>>
        PROVE  ClosedInv'
    <3>1. LocalTo(s)
      BY <2>1, <2>4 DEF LocalTo, Phases
    <3> QED
      BY <2>1, <2>2, <2>3, <2>4, <3>1, LocalStep DEF ClosedInv, SafeReply, Running
  <2>5. ASSUME result' = [result EXCEPT ![s] = Block(NoPrompt)],
               phase' = [phase EXCEPT ![s] = "exit"], UNCHANGED <<key, reply>>
        PROVE  ClosedInv'
    <3>1. Block(NoPrompt) \in Results /\ Block(NoPrompt).decision = "block"
      BY DEF Block, Results, Decisions
    <3>2. LocalTo(s)
      BY <2>1, <2>5, <3>1 DEF LocalTo, Phases
    <3> QED
      BY <2>1, <2>2, <2>3, <2>5, <3>1, <3>2, LocalStep DEF ClosedInv, SafeReply, Running
  <2>6. ASSUME key' = [key EXCEPT ![s] = CurrentKey(s)],
               phase' = [phase EXCEPT ![s] = "claim"], cfg.dedup,
               UNCHANGED <<result, reply>>
        PROVE  ClosedInv'
    <3>8. cfg.dedup
      BY <2>6
    <3>1. CurrentKey(s) \in DedupKeys
      BY KeyType DEF CurrentKey
    <3>2. HostTypeOK'
      BY <2>1, <2>6, <3>1 DEF Phases
    <3>3. PriorLocal' /\ ClaimPhase'
      BY <2>1, <2>2, <2>6, <3>8 DEF ClosedInv, PriorLocal, ClaimPhase
    <3>4. InjectionsRecorded'
      BY <2>1, <2>2, <2>6 DEF ClosedInv, InjectionsRecorded
    <3>5. OwnKey'
      BY <2>1, <2>6, <3>1 DEF ClosedInv, OwnKey, CurrentKey
    <3>6. SafeResult'
      BY <2>1, <2>6 DEF ClosedInv, SafeResult, CurrentKey, IsManual
    <3>7. SafeReply'
      BY <2>1, <2>3, <2>6 DEF ClosedInv, SafeReply, CurrentKey, IsManual
    <3> QED
      BY <3>2, <3>3, <3>4, <3>5, <3>6, <3>7 DEF ClosedInv
  <2>7. ASSUME phase' = [phase EXCEPT ![s] = "flight"], ~cfg.dedup,
               Note(s, [reply[s] EXCEPT !.flights = @ + 1]), UNCHANGED <<key, result>>
        PROVE  ClosedInv'
    <3> DEFINE r == [reply[s] EXCEPT !.flights = @ + 1]
    <3>0. reply[s] \in Reply
      OBVIOUS
    <3>1. r \in Reply /\ Keeps(r, reply[s])
      BY <3>0, FlightNoted
    <3>2. reply' = [reply EXCEPT ![s] = r]
      BY <2>7 DEF Note
    <3> HIDE DEF r
    <3>3. LocalTo(s)
      BY <2>1, <2>7, <3>1, <3>2 DEF LocalTo, Phases
    <3> QED
      BY <2>1, <2>2, <2>3, <2>7, <3>1, <3>2, <3>3, LocalStep
      DEF ClosedInv, SafeReply, Running, Keeps
  <2> QED
    BY <1>2, <2>4, <2>5, <2>6, <2>7
    DEF StartHook, Claims!BeginClaim, GoTo, Produce, CurrentKey, claimVars
<1>1. ASSUME NEW s \in Sessions, NEW t \in Texts, Submit(s, t) PROVE ClosedInv'
  <2>1. /\ phase[s] = "idle" /\ phase' = [phase EXCEPT ![s] = "next"]
        /\ text' = [text EXCEPT ![s] = t] /\ step' = [step EXCEPT ![s] = 0]
        /\ reply' = [reply EXCEPT ![s] = NoReply]
        /\ UNCHANGED <<key, body, prior, cfg, result, injectedKeys>>
    BY <1>1 DEF Submit, GoTo, Note, claimVars
  <2>2. NoReply \in Reply /\ ~NoReply.answered /\ NoReply.verdict = "none"
    BY DEF NoReply, Reply
  <2>3. HostTypeOK'
    BY <2>1, <2>2 DEF Phases
  <2>4. PriorLocal' /\ InjectionsRecorded'
    BY <2>1 DEF ClosedInv, PriorLocal, InjectionsRecorded, Running
  <2>5. OwnKey' /\ SafeResult' /\ ClaimPhase'
    BY <2>1 DEF ClosedInv, ClaimPhase, OwnKey, SafeResult, Running, CurrentKey, IsManual
  <2>6. SafeReply'
    BY <2>1, <2>2 DEF ClosedInv, SafeReply, CurrentKey, IsManual
  <2> QED
    BY <2>3, <2>4, <2>5, <2>6 DEF ClosedInv
<1>3. ASSUME NEW s \in Sessions, Collect(s) PROVE ClosedInv'
  <2> DEFINE b  == reply[s].blocked \/ result[s].decision = "block"
             sh == IF result[s].decision = "block"
                   THEN Append(reply[s].shown, result[s].prompt) ELSE reply[s].shown
             n  == IF result[s].decision = "inject" THEN reply[s].injections + 1
                   ELSE reply[s].injections
             r  == Answered(reply[s], b, sh, n)
  <2>1. /\ phase[s] = "exit" /\ phase' = [phase EXCEPT ![s] = "next"]
        /\ result' = [result EXCEPT ![s] = Skip] /\ reply' = [reply EXCEPT ![s] = r]
        /\ UNCHANGED <<key, body, prior, cfg, text, step, injectedKeys>>
    BY <1>3 DEF Collect, GoTo, Produce, Note, Answered, claimVars
  <2>2. reply[s] \in Reply /\ result[s] \in Results
    OBVIOUS
  <2>3. b \in BOOLEAN /\ n \in Nat
    BY <2>2 DEF Reply
  <2>4. sh \in Seq(Prompts \cup {NoPrompt})
    BY <2>2 DEF Reply, Results
  <2>5. r \in Reply /\ r.blocked = b /\ r.verdict = reply[s].verdict
    <3> HIDE DEF b, sh, n
    <3>1. r \in Reply
      BY <2>2, <2>3, <2>4 DEF Answered, Reply
    <3>2. r.blocked = b
      BY <2>2, <2>3 DEF Answered, Reply
    <3>3. r.verdict = reply[s].verdict
      BY <2>2 DEF Answered, Reply
    <3> QED
      BY <3>1, <3>2, <3>3
  <2>6. Skip \in Results
    BY DEF Skip, Results, Decisions
  <2>7. IsManual(s) => b \/ CurrentKey(s) \in injectedKeys
    BY <2>1, <2>2 DEF ClosedInv, SafeResult, Results, Decisions
  <2>8. reply[s].verdict = "none"
    BY <2>1 DEF ClosedInv, SafeReply
  <2> HIDE DEF b, sh, n, r
  <2>9. LocalTo(s)
    BY <2>1, <2>5, <2>6 DEF LocalTo, Phases
  <2>10. prior[s] = NoConclusion
    BY <2>1 DEF ClosedInv, PriorLocal, Running
  <2> QED
    BY <2>1, <2>5, <2>7, <2>8, <2>9, <2>10, LocalStep DEF Running
<1>4. ASSUME NEW s \in Sessions, Decide(s) PROVE ClosedInv'
  <2> DEFINE r == [reply[s] EXCEPT !.verdict = IF reply[s].blocked THEN "blocked"
                                               ELSE "sent"]
  <2>1. /\ phase[s] = "next" /\ phase' = [phase EXCEPT ![s] = "idle"]
        /\ reply' = [reply EXCEPT ![s] = r]
        /\ UNCHANGED <<key, body, prior, cfg, text, step, result, injectedKeys>>
    BY <1>4 DEF Decide, GoTo, Note, claimVars
  <2>2. /\ r \in Reply /\ r.answered = reply[s].answered
        /\ r.blocked = reply[s].blocked /\ (r.verdict = "sent" => ~r.blocked)
    <3> DEFINE v == IF reply[s].blocked THEN "blocked" ELSE "sent"
    <3>1. reply[s] \in Reply /\ v \in {"blocked", "sent"}
      OBVIOUS
    <3>2. v = "sent" => ~reply[s].blocked
      OBVIOUS
    <3> HIDE DEF v
    <3>3. /\ [reply[s] EXCEPT !.verdict = v] \in Reply
          /\ [reply[s] EXCEPT !.verdict = v].answered = reply[s].answered
          /\ [reply[s] EXCEPT !.verdict = v].blocked = reply[s].blocked
          /\ [reply[s] EXCEPT !.verdict = v].verdict = v
      BY <3>1, VerdictNoted
    <3> QED
      BY <3>2, <3>3 DEF v
  <2> HIDE DEF r
  <2>3. LocalTo(s)
    BY <2>1, <2>2 DEF LocalTo, Phases
  <2>4. prior[s] = NoConclusion
    BY <2>1 DEF ClosedInv, PriorLocal, Running
  <2> QED
    BY <2>1, <2>2, <2>3, <2>4, LocalStep DEF ClosedInv, SafeReply, Running
<1>5. ASSUME NEW s \in Sessions, HookCrash(s) \/ HostKill(s) PROVE ClosedInv'
  <2>0. LoseHook(s) /\ reply[s] \in Reply
    BY <1>5 DEF HookCrash, HostKill
  <2>1. /\ UNCHANGED <<key, body, cfg, text, step, injectedKeys>>
        /\ prior' = prior \/ prior' = [prior EXCEPT ![s] = NoConclusion]
        /\ phase' = [phase EXCEPT ![s] = "next"]
        /\ phase[s] # "idle"
        /\ result' = [result EXCEPT ![s] = Skip]
    BY <2>0, LoseHookEffect
  <2>9. cfg.dedup => prior' = [prior EXCEPT ![s] = NoConclusion]
    BY <2>0 DEF LoseHook, Claims!Crash, Claims!Return
  <2>2. PICK r \in Reply : reply' = [reply EXCEPT ![s] = r] /\ Keeps(r, reply[s])
    BY <1>5, <2>0, DeathNoted DEF HookCrash, HostKill, Note
  <2>3. Skip \in Results
    BY DEF Skip, Results, Decisions
  <2>4. HostTypeOK'
    BY <2>1, <2>2, <2>3 DEF Phases
  <2>5. PriorLocal' /\ InjectionsRecorded'
    BY <2>1, <2>9 DEF ClosedInv, PriorLocal, InjectionsRecorded
  <2>6. OwnKey' /\ SafeResult' /\ ClaimPhase'
    BY <2>1 DEF ClosedInv, ClaimPhase, OwnKey, SafeResult, Running, CurrentKey, IsManual
  <2>7. SafeReply'
    BY <2>1, <2>2 DEF ClosedInv, SafeReply, CurrentKey, IsManual, Keeps
  <2> QED
    BY <2>4, <2>5, <2>6, <2>7 DEF ClosedInv
<1>6. ASSUME NEW s \in Sessions, Claiming(s) PROVE ClosedInv'
  <2>1. /\ phase[s] = "claim"
        /\ UNCHANGED <<cfg, phase, text, step, result, reply, injectedKeys, key>>
    BY <1>6, ClaimStepEffect DEF Claiming, hostVars
  <2>2. /\ body' \in [DedupKeys -> Conclusions \cup {NoConclusion}]
        /\ \A k \in DedupKeys : body'[k] = body[k] \/ body'[k] = NoConclusion
        /\ prior' = prior \/ prior' = [prior EXCEPT ![s] = body[key[s]]]
    BY <1>6, ClaimStepEffect DEF Claiming
  <2>3. cfg.dedup
    BY <2>1 DEF ClosedInv, ClaimPhase
  <2>4. HostTypeOK'
    BY <2>1, <2>2
  <2>5. PriorLocal'
    BY <2>1, <2>2, <2>3 DEF ClosedInv, PriorLocal, Running
  <2>6. InjectionsRecorded'
    BY <2>1, <2>2 DEF ClosedInv, InjectionsRecorded
  <2>7. OwnKey' /\ SafeResult' /\ SafeReply' /\ ClaimPhase'
    BY <2>1 DEF ClosedInv, OwnKey, SafeResult, SafeReply, ClaimPhase, CurrentKey, IsManual
  <2> QED
    BY <2>4, <2>5, <2>6, <2>7 DEF ClosedInv
<1>7. ASSUME NEW s \in Sessions, StartFlight(s) PROVE ClosedInv'
  <2> DEFINE r == [reply[s] EXCEPT !.flights = @ + 1]
  <2>1. /\ phase[s] = "claim" /\ phase' = [phase EXCEPT ![s] = "flight"]
        /\ reply' = [reply EXCEPT ![s] = r]
        /\ UNCHANGED <<key, body, prior, cfg, text, step, result, injectedKeys>>
    BY <1>7 DEF StartFlight, GoTo, Note, claimVars
  <2>2. r \in Reply /\ Keeps(r, reply[s])
    <3>1. reply[s] \in Reply
      OBVIOUS
    <3> QED
      BY <3>1, FlightNoted
  <2> HIDE DEF r
  <2>3. LocalTo(s)
    BY <2>1, <2>2 DEF LocalTo, Phases
  <2>4. cfg.dedup => key[s] = CurrentKey(s)
    BY <2>1 DEF ClosedInv, OwnKey, Running
  <2> QED
    BY <2>1, <2>2, <2>3, <2>4, LocalStep DEF ClosedInv, SafeReply, Running, Keeps
<1>8. ASSUME NEW s \in Sessions, NEW r \in Results, Handoff(s, r),
             phase[s] \in {"claim", "flight"},
             IsManual(s) /\ r.decision = "skip" => CurrentKey(s) \in injectedKeys,
             UNCHANGED <<claimVars, cfg, text, step, reply, injectedKeys>>
      PROVE  ClosedInv'
  <2>1. /\ result' = [result EXCEPT ![s] = r]
        /\ \/ phase' = [phase EXCEPT ![s] = "deliver"]
           \/ phase' = [phase EXCEPT ![s] = "emit"]
        /\ UNCHANGED <<key, body, prior>>
    BY <1>8 DEF Handoff, Produce, GoTo, claimVars
  <2>2. LocalTo(s)
    BY <1>8, <2>1 DEF LocalTo, Phases
  <2>3. cfg.dedup => key[s] = CurrentKey(s)
    BY <1>8 DEF ClosedInv, OwnKey, Running
  <2>4. reply[s].verdict = "none"
    BY <1>8 DEF ClosedInv, SafeReply
  <2> QED
    BY <1>8, <2>1, <2>2, <2>3, <2>4, LocalStep DEF ClosedInv, SafeReply, Running
<1>9. ASSUME NEW s \in Sessions, FlightDone(s) PROVE ClosedInv'
  <2> PICK r \in FlightResults(s) : Handoff(s, r)
    BY <1>9 DEF FlightDone
  <2>1. r \in Results /\ ~(IsManual(s) /\ r.decision = "skip")
    BY DEF FlightResults, Failure, Block, Inject, Skip, Results, Decisions, Prompts
  <2> QED
    BY <1>8, <1>9, <2>1 DEF FlightDone
<1>10. ASSUME NEW s \in Sessions, FlightDeadline(s) PROVE ClosedInv'
  <2>1. Failure(s) \in Results /\ ~(IsManual(s) /\ Failure(s).decision = "skip")
        /\ Failure(s).decision # "inject"
    BY DEF Failure, Block, Skip, Results, Decisions
  <2>2. /\ phase[s] = "flight" /\ phase' = [phase EXCEPT ![s] = "emit"]
        /\ result' = [result EXCEPT ![s] = Failure(s)]
        /\ UNCHANGED <<key, body, prior, cfg, text, step, reply, injectedKeys>>
    BY <1>10 DEF FlightDeadline, Produce, GoTo, claimVars
  <2>3. LocalTo(s)
    BY <2>1, <2>2 DEF LocalTo, Phases
  <2>4. cfg.dedup => key[s] = CurrentKey(s)
    BY <2>2 DEF ClosedInv, OwnKey, Running
  <2>5. reply[s].verdict = "none"
    BY <2>2 DEF ClosedInv, SafeReply
  <2> QED
    BY <2>1, <2>2, <2>3, <2>4, <2>5, LocalStep DEF ClosedInv, SafeReply, Running
<1>11. ASSUME NEW s \in Sessions, LoseClaim(s) PROVE ClosedInv'
  <2>1. phase[s] = "claim" /\ Handoff(s, LossResult(s))
        /\ UNCHANGED <<claimVars, cfg, text, step, reply, injectedKeys>>
    BY <1>11 DEF LoseClaim
  <2>2. LossResult(s) \in Results
    BY DEF LossResult, Failure, Block, Skip, Results, Decisions, Conclusions
  <2>3. key[s] = CurrentKey(s)
    BY <2>1 DEF ClosedInv, ClaimPhase, OwnKey, Running
  <2>4. IsManual(s) /\ LossResult(s).decision = "skip" => CurrentKey(s) \in injectedKeys
    <3> SUFFICES ASSUME IsManual(s), LossResult(s).decision = "skip"
                 PROVE  CurrentKey(s) \in injectedKeys
      OBVIOUS
    <3>1. prior[s] # NoConclusion /\ prior[s].outcome # "block"
      BY DEF LossResult, Failure, Block
    <3>2. prior[s].outcome = "inject"
      BY <3>1 DEF Conclusions
    <3> QED
      BY <2>3, <3>1, <3>2 DEF ClosedInv, InjectionsRecorded
  <2> QED
    BY <1>8, <2>1, <2>2, <2>4
<1>12. ASSUME NEW s \in Sessions, Delivered(s) PROVE ClosedInv'
  <2>1. /\ phase[s] = "deliver" /\ phase' = [phase EXCEPT ![s] = "emit"]
        /\ UNCHANGED <<key, body, prior, cfg, text, step, result, reply, injectedKeys>>
    BY <1>12 DEF Delivered, GoTo, claimVars
  <2>2. LocalTo(s)
    BY <2>1 DEF LocalTo, Phases
  <2> QED
    BY <2>1, <2>2, LocalStep DEF ClosedInv, OwnKey, SafeResult, SafeReply, Running
<1>13. ASSUME NEW s \in Sessions, Emit(s) PROVE ClosedInv'
  <2>1. /\ phase[s] = "emit" /\ phase' = [phase EXCEPT ![s] = "conclude"]
        /\ injectedKeys \subseteq injectedKeys'
        /\ injectedKeys' \subseteq injectedKeys \cup {CurrentKey(s)}
        /\ result[s].decision = "inject" => CurrentKey(s) \in injectedKeys'
        /\ UNCHANGED <<key, body, prior, cfg, text, step, result, reply>>
    BY <1>13 DEF Emit, GoTo, CurrentKey, claimVars
  <2>2. HostTypeOK'
    BY <2>1, KeyType DEF Phases, CurrentKey
  <2>3. PriorLocal' /\ InjectionsRecorded' /\ ClaimPhase'
    BY <2>1 DEF ClosedInv, PriorLocal, InjectionsRecorded, ClaimPhase, Running
  <2>4. OwnKey'
    BY <2>1 DEF ClosedInv, OwnKey, Running, CurrentKey
  <2>5. SafeResult'
    BY <2>1 DEF ClosedInv, SafeResult, CurrentKey, IsManual
  <2>6. SafeReply'
    BY <2>1 DEF ClosedInv, SafeReply, CurrentKey, IsManual
  <2> QED
    BY <2>2, <2>3, <2>4, <2>5, <2>6 DEF ClosedInv
<1>14. ASSUME NEW s \in Sessions, Conclude(s) PROVE ClosedInv'
  <2>1. /\ phase[s] = "conclude" /\ phase' = [phase EXCEPT ![s] = "exit"]
        /\ UNCHANGED <<key, cfg, text, step, result, reply, injectedKeys>>
    BY <1>14 DEF Conclude, GoTo, Claims!Finish, Claims!FinishUnrecorded,
                 Claims!FinishNoop, Claims!files, claimVars
  <2>2. IF cfg.dedup THEN prior' = [prior EXCEPT ![s] = NoConclusion]
        ELSE prior' = prior
    BY <1>14 DEF Conclude, Claims!Finish, Claims!FinishUnrecorded, Claims!FinishNoop,
                 Claims!Return, claimVars
  <2>3. body' = body
        \/ (cfg.dedup /\ body' = [body EXCEPT ![key[s]] = ConclusionOf(result[s])])
    BY <1>14 DEF Conclude, Claims!Finish, Claims!FinishUnrecorded, Claims!FinishNoop,
                 Claims!SetBody, Claims!files, claimVars
  <2>4. result[s] \in Results
    OBVIOUS
  <2>5. ConclusionOf(result[s]) \in Conclusions \cup {NoConclusion}
    BY <2>4 DEF ConclusionOf, Conclusions, Results, Decisions
  <2>6. ConclusionOf(result[s]) # NoConclusion
        /\ ConclusionOf(result[s]).outcome = "inject" => CurrentKey(s) \in injectedKeys
    BY <2>1, <2>4 DEF ConclusionOf, Results, Decisions, ClosedInv, SafeResult
  <2>7. HostTypeOK'
    BY <2>1, <2>2, <2>3, <2>5 DEF Phases
  <2>8. PriorLocal' /\ ClaimPhase'
    BY <2>1, <2>2 DEF ClosedInv, PriorLocal, ClaimPhase, Running
  <2>9. InjectionsRecorded'
    <3>1. cfg.dedup => key[s] = CurrentKey(s)
      BY <2>1 DEF ClosedInv, OwnKey, Running
    <3> QED
      BY <2>1, <2>2, <2>3, <2>6, <3>1 DEF ClosedInv, InjectionsRecorded
  <2>10. OwnKey' /\ SafeResult' /\ SafeReply'
    BY <2>1 DEF ClosedInv, OwnKey, SafeResult, SafeReply, CurrentKey, IsManual, Running
  <2> QED
    BY <2>7, <2>8, <2>9, <2>10 DEF ClosedInv
<1>15. CASE Tick \/ UNCHANGED vars
  <2>1. UNCHANGED <<body, prior, key, hostVars>>
    BY <1>15 DEF Tick, Claims!Tick, Claims!files, vars, claimVars
  <2> QED
    BY <2>1 DEF ClosedInv, ClaimPhase, PriorLocal, InjectionsRecorded, OwnKey, SafeResult,
                SafeReply, CurrentKey, IsManual, hostVars
<1> QED
  BY <1>1, <1>2, <1>3, <1>4, <1>5, <1>6, <1>7, <1>9, <1>10, <1>11, <1>12,
     <1>13, <1>14, <1>15
  DEF Next, HostStep, HookStep

(***************************************************************************)
(* A manual prompt reaches the model unenhanced only if no hook lived to    *)
(* answer, or if its key has seen an injection.                             *)
(***************************************************************************)
THEOREM FailClosedHolds == Spec => []FailClosed
<1>1. ClosedInv => FailClosed
  BY DEF ClosedInv, SafeReply, FailClosed
<1> QED
  BY <1>1, ClosedInvInit, ClosedInvStep, PTL DEF Spec
-----------------------------------------------------------------------------
(***************************************************************************)
(* The hooks use the claim protocol as HookDedup describes it, so what is    *)
(* proved of HookDedup holds of their claims.                                *)
(***************************************************************************)
Facts == INSTANCE HookDedup_proofs WITH Procs <- Sessions, Keys <- DedupKeys

LEMMA ClaimsAssumptions ==
  /\ Facts!KeysAssumption /\ Facts!ConclusionsAssumption /\ Facts!WindowAssumption
  /\ Facts!TTLAssumption /\ Facts!MaxFilesAssumption /\ Facts!MaxTimeAssumption
  /\ Facts!FaultsAssumption
<1>1. Facts!KeysAssumption /\ Facts!ConclusionsAssumption
  BY KeysAssumption, NoConclusionAssumption
  DEF Facts!KeysAssumption, Facts!ConclusionsAssumption, IsFiniteSet, Facts!IsFiniteSet
<1>2. Facts!WindowAssumption /\ Facts!TTLAssumption /\ Facts!MaxFilesAssumption
      /\ Facts!MaxTimeAssumption
  BY WindowAssumption, TimesAssumption
  DEF Facts!WindowAssumption, Facts!TTLAssumption, Facts!MaxFilesAssumption,
      Facts!MaxTimeAssumption
<1>3. Facts!FaultsAssumption
  BY FaultsAssumption DEF Facts!FaultsAssumption, Facts!FaultKinds
<1> QED
  BY <1>1, <1>2, <1>3

(* The two instances of HookDedup, with its proofs and without, are one.     *)
LEMMA OneProtocol ==
  /\ Facts!Init <=> Claims!Init
  /\ Facts!Next <=> Claims!Next
  /\ Facts!vars = Claims!vars
  /\ Facts!FlightInv <=> Claims!FlightInv
<1> USE DEF Facts!files, Facts!history, Facts!Absent, Facts!Never, Facts!Exists,
            Facts!Goto, Facts!Won, Facts!SetBody, Facts!Return, Facts!Mark, Facts!Drop,
            Facts!Candidates, Facts!NoSweep,
            Claims!files, Claims!history, Claims!Absent, Claims!Never, Claims!Exists,
            Claims!Goto, Claims!Won, Claims!SetBody, Claims!Return, Claims!Mark,
            Claims!Drop, Claims!Candidates, Claims!NoSweep
<1>1. Facts!Init <=> Claims!Init
  BY DEF Facts!Init, Claims!Init
<1>2. Facts!Snapshot = Claims!Snapshot
  <2>1. Facts!Retention = Claims!Retention
    BY DEF Facts!Retention, Claims!Retention
  <2>2. \A K : Facts!EntriesOf(K) = Claims!EntriesOf(K)
    BY DEF Facts!EntriesOf, Claims!EntriesOf
  <2>3. \A S : Facts!Cardinality(S) = Claims!Cardinality(S)
    BY DEF Facts!Cardinality, Claims!Cardinality
  <2> QED
    BY <2>1, <2>2, <2>3 DEF Facts!Snapshot, Claims!Snapshot
<1>3. \A p, k : Facts!BeginClaim(p, k) <=> Claims!BeginClaim(p, k)
  BY <1>2 DEF Facts!BeginClaim, Claims!BeginClaim
<1>4. \A p : Facts!SweepConfirm(p) <=> Claims!SweepConfirm(p)
  BY DEF Facts!SweepConfirm, Claims!SweepConfirm
<1>5. \A p : Facts!SweepUnlink(p) <=> Claims!SweepUnlink(p)
  BY DEF Facts!SweepUnlink, Claims!SweepUnlink
<1>6. \A p : /\ Facts!SweepSpare(p) <=> Claims!SweepSpare(p)
             /\ Facts!SweepDone(p) <=> Claims!SweepDone(p)
  BY DEF Facts!SweepSpare, Claims!SweepSpare, Facts!SweepDone, Claims!SweepDone
<1>7. \A p : /\ Facts!CreateClaim(p) <=> Claims!CreateClaim(p)
             /\ Facts!ClaimExists(p) <=> Claims!ClaimExists(p)
             /\ Facts!ClaimUnavailable(p) <=> Claims!ClaimUnavailable(p)
  BY DEF Facts!CreateClaim, Claims!CreateClaim, Facts!ClaimExists, Claims!ClaimExists,
         Facts!ClaimUnavailable, Claims!ClaimUnavailable
<1>8. \A p : /\ Facts!StatFresh(p) <=> Claims!StatFresh(p)
             /\ Facts!StatStale(p) <=> Claims!StatStale(p)
             /\ Facts!ReadPrior(p) <=> Claims!ReadPrior(p)
             /\ Facts!TouchAndLose(p) <=> Claims!TouchAndLose(p)
  BY DEF Facts!StatFresh, Claims!StatFresh, Facts!StatStale, Claims!StatStale,
         Facts!Fresh, Claims!Fresh, Facts!ReadPrior, Claims!ReadPrior,
         Facts!TouchAndLose, Claims!TouchAndLose
<1>9. \A p : /\ Facts!TakeOver(p) <=> Claims!TakeOver(p)
             /\ Facts!TakeOverUnreset(p) <=> Claims!TakeOverUnreset(p)
  BY DEF Facts!TakeOver, Claims!TakeOver, Facts!TakeOverUnreset, Claims!TakeOverUnreset
<1>10. \A p, c : /\ Facts!Finish(p, c) <=> Claims!Finish(p, c)
                 /\ Facts!FinishUnrecorded(p) <=> Claims!FinishUnrecorded(p)
                 /\ Facts!FinishNoop(p) <=> Claims!FinishNoop(p)
                 /\ Facts!Crash(p) <=> Claims!Crash(p)
  BY DEF Facts!Finish, Claims!Finish, Facts!FinishUnrecorded, Claims!FinishUnrecorded,
         Facts!FinishNoop, Claims!FinishNoop, Facts!Crash, Claims!Crash
<1>11. Facts!Tick <=> Claims!Tick
  BY DEF Facts!Tick, Claims!Tick
<1>12. \A p : Facts!ClaimStep(p) <=> Claims!ClaimStep(p)
  BY <1>4, <1>5, <1>6, <1>7, <1>8, <1>9
  DEF Facts!ClaimStep, Claims!ClaimStep, Facts!ClaimProceeds, Claims!ClaimProceeds
<1>13. Facts!Next <=> Claims!Next
  BY <1>3, <1>10, <1>11, <1>12 DEF Facts!Next, Claims!Next, Facts!Bodies, Claims!Bodies
<1>14. Facts!vars = Claims!vars
  BY DEF Facts!vars, Claims!vars
<1>15. Facts!FlightInv <=> Claims!FlightInv
  BY DEF Facts!FlightInv, Facts!TypeOK, Facts!TimesPast, Facts!MarkPresent,
         Facts!VictimsAged, Facts!MarkSeen, Facts!TakeOverStale, Facts!SingleFlight,
         Facts!Flying, Facts!Time, Facts!Bodies, Facts!Entry, Facts!Victim, Facts!Sweep,
         Facts!Labels,
         Claims!FlightInv, Claims!TypeOK, Claims!TimesPast, Claims!MarkPresent,
         Claims!VictimsAged, Claims!MarkSeen, Claims!TakeOverStale, Claims!SingleFlight,
         Claims!Flying, Claims!Time, Claims!Bodies, Claims!Entry, Claims!Victim,
         Claims!Sweep, Claims!Labels
<1> QED
  BY <1>1, <1>13, <1>14, <1>15

(***************************************************************************)
(* A step of the hooks or the host is a step of the protocol, or none of it.*)
(***************************************************************************)
LEMMA ClaimsStep == ClosedInv /\ [Next]_vars => [Claims!Next]_(Claims!vars)
<1> SUFFICES ASSUME ClosedInv, [Next]_vars, ~UNCHANGED claimVars PROVE Claims!Next
  BY DEF claimVars, Claims!vars, Claims!files, Claims!history
<1>1. ASSUME NEW s \in Sessions, NEW t \in Texts, Submit(s, t) PROVE FALSE
  BY <1>1 DEF Submit
<1>2. ASSUME NEW s \in Sessions, HostStep(s) PROVE Claims!Next
  <2>1. StartHook(s)
    BY <1>2 DEF HostStep, Collect, Decide
  <2>2. Claims!BeginClaim(s, DedupKey(s, text[s])) /\ text[s] \in Texts
    BY <2>1 DEF StartHook, ClosedInv, HostTypeOK
  <2> QED
    BY <2>2, KeyType DEF Claims!Next
<1>3. ASSUME NEW s \in Sessions, HookStep(s) PROVE Claims!Next
  <2>1. Claiming(s) \/ Conclude(s)
    BY <1>3 DEF HookStep, StartFlight, FlightDone, FlightDeadline, LoseClaim, Delivered, Emit
  <2>2. result[s] \in Results
    BY DEF ClosedInv, HostTypeOK
  <2>3. ConclusionOf(result[s]) \in Claims!Bodies
    BY <2>2 DEF ConclusionOf, Conclusions, Results, Decisions, Claims!Bodies
  <2> QED
    BY <2>1, <2>3 DEF Claiming, Conclude, Claims!Next
<1>4. ASSUME NEW s \in Sessions, LoseHook(s) PROVE Claims!Next
  BY <1>4 DEF LoseHook, Claims!Next
<1>5. CASE Tick
  BY <1>5 DEF Tick, Claims!Next
<1>6. CASE UNCHANGED vars
  BY <1>6 DEF vars
<1> QED
  BY <1>1, <1>2, <1>3, <1>4, <1>5, <1>6 DEF Next, HookCrash, HostKill

(***************************************************************************)
(* Every behaviour of hooks and host is one of HookDedup's, seen from the    *)
(* claim directory: the hooks call Claim and its finish as it expects them   *)
(* to (devin_hook.go:317-325, 136), for any sessions, chains and faults.     *)
(***************************************************************************)
THEOREM HooksKeepTheProtocol == Spec => Claims!Spec
<1>1. Init => Claims!Init
  BY DEF Init
<1> QED
  BY <1>1, ClosedInvInit, ClosedInvStep, ClaimsStep, PTL DEF Spec, Claims!Spec

LEMMA ClaimsFlightInv == Spec => []Claims!FlightInv
<1>1. [Claims!Next]_(Claims!vars) <=> [Facts!Next]_(Facts!vars)
  <2>1. Facts!vars = Claims!vars /\ Facts!vars' = Claims!vars'
    BY DEF Facts!vars, Facts!files, Facts!history, Claims!vars, Claims!files, Claims!history
  <2> QED
    BY <2>1, OneProtocol
<1>2. Claims!Init <=> Facts!Init
  BY OneProtocol
<1>3. Facts!FlightInv <=> Claims!FlightInv
  BY OneProtocol
<1> QED
  BY <1>1, <1>2, <1>3, HooksKeepTheProtocol, Facts!FlightInvHolds, ClaimsAssumptions, PTL
  DEF Claims!Spec, Facts!Spec

-----------------------------------------------------------------------------
LEMMA ClaimedConclusion ==
  ASSUME NEW r \in Results
  PROVE  ConclusionOf(r) \in Conclusions \cup {NoConclusion}
BY DEF ConclusionOf, Conclusions, Results, Decisions

(***************************************************************************)
(* The state stays well typed, the claim directory, what every Claim in it   *)
(* remembers and the history included.                                       *)
(***************************************************************************)
THEOREM TypesHold == Spec => []TypeOK
<1> DEFINE Own == /\ cfg \in [dedup: BOOLEAN, inject: BOOLEAN, provider: BOOLEAN]
                  /\ since \in [Sessions -> [hook: Nat, wait: Nat]]
<1>1. Init => Own
  BY DEF Init
<1>2. Own /\ Claims!FlightInv /\ [Next]_vars => Own'
  <2> SUFFICES ASSUME Own, Claims!FlightInv, [Next]_vars PROVE Own'
    OBVIOUS
  <2>1. cfg' = cfg
    BY DEF Next, Submit, HostStep, StartHook, Collect, Decide, HookCrash, HostKill, LoseHook,
           HookStep, Claiming, StartFlight, FlightDone, FlightDeadline, LoseClaim, Delivered,
           Emit, Conclude, Tick, vars, hostVars
  <2>2. now \in Nat
    BY DEF Claims!FlightInv, Claims!TypeOK
  <2>3. ASSUME NEW s \in Sessions, StartWait(s) PROVE Own'
    BY <2>1, <2>2, <2>3 DEF StartWait
  <2>4. ASSUME NEW s \in Sessions, NEW r, Handoff(s, r) PROVE Own'
    BY <2>1, <2>3, <2>4 DEF Handoff
  <2>5. ASSUME NEW s \in Sessions, StartHook(s) PROVE Own'
    BY <2>1, <2>2, <2>5 DEF StartHook
  <2>6. ASSUME NEW s \in Sessions, HookStep(s) PROVE Own'
    BY <2>1, <2>3, <2>4, <2>6
    DEF HookStep, Claiming, StartFlight, FlightDone, FlightDeadline, LoseClaim, Delivered,
        Emit, Conclude, hostVars
  <2> QED
    BY <2>1, <2>5, <2>6
    DEF Next, Submit, HostStep, Collect, Decide, HookCrash, HostKill, LoseHook, Tick, vars,
        hostVars
<1>3. Own /\ ClosedInv /\ Claims!FlightInv => TypeOK
  BY DEF ClosedInv, HostTypeOK, Claims!FlightInv, TypeOK
<1> QED
  BY <1>1, <1>2, <1>3, ClosedInvInit, ClosedInvStep, ClaimsFlightInv, PTL DEF Spec

(***************************************************************************)
(* Where a hook process is in Claim, by its phase.                          *)
(***************************************************************************)
PhaseInv ==
  \A s \in Sessions :
    /\ phase[s] \in {"idle", "next", "exit"} \/ ~cfg.dedup <=> pc[s] = "idle"
    /\ cfg.dedup /\ phase[s] = "flight" => pc[s] = "won"
    /\ cfg.dedup /\ phase[s] \in {"deliver", "emit", "conclude"} => pc[s] \in {"won", "lost"}
    /\ phase[s] \in {"idle", "next", "claim", "flight"} => result[s] = Skip


LEMMA ClaimStepMoves ==
  ASSUME Claims!TypeOK, NEW s \in Sessions, Claims!ClaimStep(s)
  PROVE  /\ pc[s] \notin {"idle", "won", "lost"}
         /\ pc'[s] # "idle" /\ now' = now
         /\ \A q \in Sessions \ {s} : pc'[q] = pc[q]
<1> USE DEF Claims!TypeOK, Claims!Goto
<1>1. CASE \/ Claims!SweepConfirm(s) \/ Claims!SweepSpare(s) \/ Claims!SweepUnlink(s)
           \/ Claims!SweepDone(s)
  BY <1>1 DEF Claims!SweepConfirm, Claims!SweepSpare, Claims!SweepUnlink, Claims!SweepDone
<1>2. CASE \/ Claims!ClaimExists(s) \/ Claims!StatFresh(s) \/ Claims!StatStale(s)
           \/ Claims!ReadPrior(s) \/ Claims!TouchAndLose(s)
  BY <1>2 DEF Claims!ClaimExists, Claims!StatFresh, Claims!StatStale, Claims!ReadPrior,
    Claims!TouchAndLose
<1>3. CASE \/ Claims!CreateClaim(s) \/ Claims!TakeOver(s) \/ Claims!TakeOverUnreset(s)
           \/ Claims!ClaimUnavailable(s)
  BY <1>3 DEF Claims!CreateClaim, Claims!TakeOver, Claims!TakeOverUnreset,
    Claims!ClaimUnavailable, Claims!Won
<1> QED
  BY <1>1, <1>2, <1>3 DEF Claims!ClaimStep, Claims!ClaimProceeds

LEMMA PhaseInvStep == TypeOK /\ PhaseInv /\ [Next]_vars => PhaseInv'
<1> SUFFICES ASSUME TypeOK, PhaseInv, [Next]_vars PROVE PhaseInv'
  OBVIOUS
<1> USE DEF PhaseInv, TypeOK, Claims!TypeOK, GoTo, Produce
<1>1. ASSUME NEW s \in Sessions, NEW t \in Texts, Submit(s, t) PROVE PhaseInv'
  BY <1>1 DEF Submit, claimVars
<1>2. ASSUME NEW s \in Sessions, StartHook(s) PROVE PhaseInv'
  BY <1>2 DEF StartHook, Claims!BeginClaim, Claims!Goto, claimVars
<1>3. ASSUME NEW s \in Sessions, Collect(s) \/ Decide(s) PROVE PhaseInv'
  BY <1>3 DEF Collect, Decide, claimVars
<1>4. ASSUME NEW s \in Sessions, LoseHook(s) PROVE PhaseInv'
  BY <1>4 DEF LoseHook, Claims!Crash, Claims!Return, Claims!Goto, claimVars
<1>5. ASSUME NEW s \in Sessions, Claiming(s) PROVE PhaseInv'
  BY <1>5, ClaimStepMoves DEF Claiming, hostVars
<1>6. ASSUME NEW s \in Sessions, NEW r, Handoff(s, r),
             phase[s] = "flight" \/ (phase[s] = "claim" /\ pc[s] = "lost"),
             UNCHANGED <<claimVars, cfg>>
      PROVE  PhaseInv'
  BY <1>6 DEF Handoff, claimVars
<1>7. ASSUME NEW s \in Sessions, StartFlight(s) \/ FlightDeadline(s) \/ Delivered(s) \/ Emit(s)
      PROVE  PhaseInv'
  BY <1>7 DEF StartFlight, FlightDeadline, Delivered, Emit, claimVars
<1>8. ASSUME NEW s \in Sessions, Conclude(s) PROVE PhaseInv'
  BY <1>8 DEF Conclude, Claims!Finish, Claims!FinishUnrecorded, Claims!FinishNoop,
    Claims!Return, Claims!Goto, claimVars
<1>9. CASE Tick \/ UNCHANGED vars
  BY <1>9 DEF Tick, Claims!Tick, vars, hostVars, claimVars
<1> HIDE DEF PhaseInv, TypeOK, Claims!TypeOK, GoTo, Produce
<1>10. ASSUME NEW s \in Sessions, FlightDone(s) \/ LoseClaim(s) PROVE PhaseInv'
  <2>1. PICK r : Handoff(s, r)
    BY <1>10 DEF FlightDone, LoseClaim, claimVars
  <2>2. /\ phase[s] = "flight" \/ (phase[s] = "claim" /\ pc[s] = "lost")
        /\ UNCHANGED <<claimVars, cfg>>
    BY <1>10 DEF FlightDone, LoseClaim, claimVars
  <2> QED
    BY <1>6, <2>1, <2>2
<1> QED
  BY <1>1, <1>2, <1>3, <1>4, <1>5, <1>7, <1>8, <1>9, <1>10
  DEF Next, HostStep, HookStep, HookCrash, HostKill

LEMMA PhaseInvHolds == Spec => []PhaseInv
<1>1. Init => PhaseInv
  BY DEF Init, Claims!Init, PhaseInv
<1> QED
  BY <1>1, PhaseInvStep, TypesHold, PTL DEF Spec

-----------------------------------------------------------------------------
(***************************************************************************)
(* What a reply counts, and how the steps change it.                        *)
(***************************************************************************)
Tally(r) == <<r.flights, r.shown, r.injections, r.died, r.killed>>

LEMMA Tallies ==
  ASSUME NEW r \in Reply
  PROVE  /\ Tally([r EXCEPT !.flights = @ + 1])
              = <<r.flights + 1, r.shown, r.injections, r.died, r.killed>>
         /\ Tally([r EXCEPT !.died = TRUE])
              = <<r.flights, r.shown, r.injections, TRUE, r.killed>>
         /\ Tally([r EXCEPT !.died = TRUE, !.killed = TRUE])
              = <<r.flights, r.shown, r.injections, TRUE, TRUE>>
         /\ \A v : Tally([r EXCEPT !.verdict = v]) = Tally(r)
<1>1. Tally([r EXCEPT !.flights = @ + 1])
        = <<r.flights + 1, r.shown, r.injections, r.died, r.killed>>
  BY DEF Reply, Tally
<1>2. Tally([r EXCEPT !.died = TRUE])
        = <<r.flights, r.shown, r.injections, TRUE, r.killed>>
  BY DEF Reply, Tally
<1>3. Tally([r EXCEPT !.died = TRUE, !.killed = TRUE])
        = <<r.flights, r.shown, r.injections, TRUE, TRUE>>
  BY DEF Reply, Tally
<1>4. ASSUME NEW v PROVE Tally([r EXCEPT !.verdict = v]) = Tally(r)
  BY DEF Reply, Tally
<1> QED
  BY <1>1, <1>2, <1>3, <1>4

LEMMA AnswerTally ==
  ASSUME NEW r \in Reply, NEW b, NEW sh, NEW n
  PROVE  Tally(Answered(r, b, sh, n)) = <<r.flights, sh, n, r.died, r.killed>>
BY DEF Reply, Tally, Answered

(* The host's note of session s; the other sessions' stay.                  *)
Tallied(s, t) ==
  /\ Tally(reply'[s]) = t
  /\ \A q \in Sessions \ {s} : reply'[q] = reply[q]

Same(s) == Tally(reply[s])
OneMore(s) ==
  LET r == reply[s] IN <<r.flights + 1, r.shown, r.injections, r.died, r.killed>>
Died(s, isKilled) ==
  LET r == reply[s] IN <<r.flights, r.shown, r.injections, TRUE, isKilled>>
Collected(s) ==
  LET r == reply[s] IN
  <<r.flights,
    IF result[s].decision = "block" THEN Append(r.shown, result[s].prompt) ELSE r.shown,
    IF result[s].decision = "inject" THEN r.injections + 1 ELSE r.injections,
    r.died, r.killed>>

LEMMA ReplyEffects ==
  ASSUME TypeOK, NEW s \in Sessions
  PROVE  /\ \A t : Submit(s, t) => Tallied(s, <<0, <<>>, 0, FALSE, FALSE>>)
         /\ StartFlight(s) => Tallied(s, OneMore(s))
         /\ StartHook(s) => \/ reply' = reply
                            \/ Tallied(s, OneMore(s)) /\ phase'[s] = "flight"
         /\ Collect(s) => Tallied(s, Collected(s))
         /\ Decide(s) => Tallied(s, Same(s))
         /\ HookCrash(s) => Tallied(s, Died(s, reply[s].killed))
         /\ HostKill(s) => Tallied(s, Died(s, TRUE))
<1>1. reply[s] \in Reply /\ reply \in [Sessions -> Reply]
  BY DEF TypeOK
<1>2. ASSUME NEW r, Note(s, r) PROVE Tallied(s, Tally(r))
  BY <1>1, <1>2 DEF Note, Tallied
<1>3. ASSUME NEW t, Submit(s, t) PROVE Tallied(s, <<0, <<>>, 0, FALSE, FALSE>>)
  <2>1. Tally(NoReply) = <<0, <<>>, 0, FALSE, FALSE>>
    BY DEF Tally, NoReply
  <2> QED
    BY <1>2, <1>3, <2>1 DEF Submit
<1>4. ASSUME StartFlight(s) PROVE Tallied(s, OneMore(s))
  BY <1>1, <1>2, <1>4, Tallies DEF StartFlight, OneMore
<1>5. ASSUME StartHook(s), reply' # reply
      PROVE  Tallied(s, OneMore(s)) /\ phase'[s] = "flight"
  <2>1. phase'[s] = "flight" /\ Note(s, [reply[s] EXCEPT !.flights = @ + 1])
    BY <1>5 DEF StartHook, GoTo, TypeOK
  <2> QED
    BY <1>1, <1>2, <2>1, Tallies DEF OneMore
<1>6. ASSUME Collect(s) PROVE Tallied(s, Collected(s))
  <2>1. PICK b, sh, n :
          /\ Note(s, Answered(reply[s], b, sh, n))
          /\ sh = IF result[s].decision = "block"
                  THEN Append(reply[s].shown, result[s].prompt) ELSE reply[s].shown
          /\ n = IF result[s].decision = "inject" THEN reply[s].injections + 1
                 ELSE reply[s].injections
    BY <1>6, Zenon DEF Collect, Answered
  <2>2. Tally(Answered(reply[s], b, sh, n))
          = <<reply[s].flights, sh, n, reply[s].died, reply[s].killed>>
    BY <1>1, AnswerTally
  <2> QED
    BY <1>2, <2>1, <2>2 DEF Collected
<1>7. ASSUME Decide(s) PROVE Tallied(s, Same(s))
  <2>1. PICK v : Note(s, [reply[s] EXCEPT !.verdict = v])
    BY <1>7, Zenon DEF Decide
  <2>2. Tally([reply[s] EXCEPT !.verdict = v]) = Tally(reply[s])
    BY <1>1, Tallies, Zenon
  <2> QED
    BY <1>2, <2>1, <2>2 DEF Same
<1>8. ASSUME HookCrash(s) PROVE Tallied(s, Died(s, reply[s].killed))
  <2>1. Note(s, [reply[s] EXCEPT !.died = TRUE])
    BY <1>8 DEF HookCrash
  <2> QED
    BY <1>1, <1>2, <2>1, Tallies, Zenon DEF Died
<1>9. ASSUME HostKill(s) PROVE Tallied(s, Died(s, TRUE))
  <2>1. Note(s, [reply[s] EXCEPT !.died = TRUE, !.killed = TRUE])
    BY <1>9 DEF HostKill
  <2> QED
    BY <1>1, <1>2, <2>1, Tallies, Zenon DEF Died
<1> QED
  BY <1>3, <1>4, <1>5, <1>6, <1>7, <1>8, <1>9

(***************************************************************************)
(* Prompt p belongs to key k: a flight under that key produced it.          *)
(***************************************************************************)
OfKey(p, k) == p # NoPrompt => cfg.provider /\ DedupKey(p.session, p.text) = k

PromptsInv ==
  /\ \A k \in DedupKeys : body[k] # NoConclusion => OfKey(body[k].prompt, k)
  /\ \A s \in Sessions :
       /\ prior[s] # NoConclusion => OfKey(prior[s].prompt, key[s])
       /\ OfKey(result[s].prompt, CurrentKey(s))
       /\ \A i \in DOMAIN reply[s].shown : OfKey(reply[s].shown[i], CurrentKey(s))


LEMMA PromptsInvStep ==
  TypeOK /\ ClosedInv /\ PhaseInv /\ PromptsInv /\ [Next]_vars => PromptsInv'
<1> SUFFICES ASSUME TypeOK, ClosedInv, PhaseInv, PromptsInv, [Next]_vars PROVE PromptsInv'
  OBVIOUS
<1>0. /\ body \in [DedupKeys -> Conclusions \cup {NoConclusion}]
      /\ prior \in [Sessions -> Conclusions \cup {NoConclusion}]
      /\ key \in [Sessions -> DedupKeys] /\ result \in [Sessions -> Results]
      /\ reply \in [Sessions -> Reply] /\ text \in [Sessions -> Texts]
  BY DEF ClosedInv, HostTypeOK
<1> DEFINE ShownOf(s) == \A i \in DOMAIN reply[s].shown : OfKey(reply[s].shown[i], CurrentKey(s))
(* A step that shows nothing, of a session that keeps its text.             *)
<1>1. ASSUME NEW s \in Sessions, text' = text, cfg' = cfg, UNCHANGED <<body, key>>,
             \A q \in Sessions : reply'[q].shown = reply[q].shown,
             \/ prior' = prior
             \/ prior' = [prior EXCEPT ![s] = NoConclusion],
             \/ result' = result
             \/ \E r \in Results :
                  result' = [result EXCEPT ![s] = r] /\ OfKey(r.prompt, CurrentKey(s))
      PROVE  PromptsInv'
  BY <1>0, <1>1 DEF PromptsInv, OfKey, CurrentKey
<1>2. Skip \in Results /\ Skip.prompt = NoPrompt
  BY DEF Skip, Results, Decisions
<1>3. ASSUME NEW s \in Sessions PROVE Failure(s) \in Results /\ Failure(s).prompt = NoPrompt
  BY DEF Failure, Block, Skip, Results, Decisions
<1>4. ASSUME NEW s \in Sessions, NEW t \in Texts, Submit(s, t) PROVE PromptsInv'
  <2>1. Tallied(s, <<0, <<>>, 0, FALSE, FALSE>>)
    BY <1>4, ReplyEffects
  <2>2. reply'[s].shown = <<>> /\ \A q \in Sessions \ {s} : reply'[q] = reply[q]
    BY <2>1 DEF Tallied, Tally
  <2>3. phase[s] = "idle" /\ text' = [text EXCEPT ![s] = t]
        /\ UNCHANGED <<body, prior, key, result, cfg>>
    BY <1>4 DEF Submit, claimVars
  <2>4. result[s].prompt = NoPrompt
    BY <1>2, <2>3 DEF PhaseInv
  <2> QED
    BY <1>0, <2>2, <2>3, <2>4 DEF PromptsInv, OfKey, CurrentKey
<1>5. ASSUME NEW s \in Sessions, StartHook(s) PROVE PromptsInv'
  <2>1. phase[s] = "next" /\ UNCHANGED <<body, prior, text, cfg>>
    BY <1>5 DEF StartHook, Claims!BeginClaim, Claims!files, claimVars
  <2>2. \A q \in Sessions : reply'[q].shown = reply[q].shown
    BY <1>5, ReplyEffects DEF Tallied, Tally, OneMore
  <2>3. prior[s] = NoConclusion
    BY <2>1 DEF ClosedInv, PriorLocal, Running
  <2>4. key' = key \/ key' = [key EXCEPT ![s] = CurrentKey(s)]
    BY <1>5 DEF StartHook, Claims!BeginClaim, CurrentKey, claimVars
  <2>5. Block(NoPrompt) \in Results /\ Block(NoPrompt).prompt = NoPrompt
    BY DEF Block, Results, Decisions
  <2>6. result' = result \/ result' = [result EXCEPT ![s] = Block(NoPrompt)]
    BY <1>5 DEF StartHook, Produce
  <2> QED
    BY <1>0, <2>1, <2>2, <2>3, <2>4, <2>5, <2>6 DEF PromptsInv, OfKey, CurrentKey
<1>6. ASSUME NEW s \in Sessions, Collect(s) PROVE PromptsInv'
  <2>1. Tallied(s, Collected(s))
    BY <1>6, ReplyEffects
  <2>2. /\ reply'[s].shown = IF result[s].decision = "block"
                             THEN Append(reply[s].shown, result[s].prompt) ELSE reply[s].shown
        /\ \A q \in Sessions \ {s} : reply'[q] = reply[q]
    BY <2>1 DEF Tallied, Tally, Collected
  <2>3. result' = [result EXCEPT ![s] = Skip] /\ UNCHANGED <<body, prior, key, text, cfg>>
    BY <1>6 DEF Collect, Produce, claimVars
  <2>4. /\ reply[s].shown \in Seq(Prompts \cup {NoPrompt})
        /\ result[s].prompt \in Prompts \cup {NoPrompt}
    BY <1>0 DEF Reply, Results
  <2>5. \A i \in DOMAIN reply'[s].shown : OfKey(reply'[s].shown[i], CurrentKey(s))
    <3>1. CASE result[s].decision # "block"
      BY <2>2, <3>1 DEF PromptsInv
    <3>2. CASE result[s].decision = "block"
      <4>1. \A i \in DOMAIN reply'[s].shown :
              \/ i \in DOMAIN reply[s].shown /\ reply'[s].shown[i] = reply[s].shown[i]
              \/ reply'[s].shown[i] = result[s].prompt
        BY <2>2, <2>4, <3>2
      <4> QED
        BY <4>1 DEF PromptsInv
    <3> QED
      BY <3>1, <3>2
  <2>6. \A q \in Sessions : CurrentKey(q)' = CurrentKey(q)
    BY <2>3 DEF CurrentKey
  <2>7. ASSUME NEW q \in Sessions
        PROVE  /\ prior'[q] # NoConclusion => OfKey(prior'[q].prompt, key'[q])
               /\ OfKey(result'[q].prompt, CurrentKey(q))
               /\ \A i \in DOMAIN reply'[q].shown : OfKey(reply'[q].shown[i], CurrentKey(q))
    <3>1. prior'[q] # NoConclusion => OfKey(prior'[q].prompt, key'[q])
      BY <2>3 DEF PromptsInv
    <3>2. OfKey(result'[q].prompt, CurrentKey(q))
      BY <1>0, <1>2, <2>3 DEF PromptsInv, OfKey
    <3>3. \A i \in DOMAIN reply'[q].shown : OfKey(reply'[q].shown[i], CurrentKey(q))
      BY <2>2, <2>5 DEF PromptsInv
    <3> QED
      BY <3>1, <3>2, <3>3
  <2>8. \A k \in DedupKeys : body'[k] # NoConclusion => OfKey(body'[k].prompt, k)
    BY <2>3 DEF PromptsInv
  <2> QED
    BY <2>3, <2>6, <2>7, <2>8 DEF PromptsInv, OfKey
<1>7. ASSUME NEW s \in Sessions, Decide(s) PROVE PromptsInv'
  <2>1. \A q \in Sessions : reply'[q].shown = reply[q].shown
    BY <1>7, ReplyEffects DEF Tallied, Tally, Same
  <2> QED
    BY <1>1, <1>7, <2>1 DEF Decide, claimVars
<1>8. ASSUME NEW s \in Sessions, HookCrash(s) \/ HostKill(s) PROVE PromptsInv'
  <2>1. \A q \in Sessions : reply'[q].shown = reply[q].shown
    BY <1>8, ReplyEffects DEF Tallied, Tally, Died
  <2>2. LoseHook(s)
    BY <1>8 DEF HookCrash, HostKill
  <2>3. OfKey(Skip.prompt, CurrentKey(s))
    BY <1>2 DEF OfKey
  <2> QED
    BY <1>1, <1>2, <2>1, <2>2, <2>3, LoseHookEffect DEF ClosedInv
<1>9. ASSUME NEW s \in Sessions, Claiming(s) PROVE PromptsInv'
  <2>1. UNCHANGED <<cfg, text, result, reply, key>>
    BY <1>9, ClaimStepEffect DEF Claiming, hostVars, ClosedInv
  <2>2. /\ \A k \in DedupKeys : body'[k] = body[k] \/ body'[k] = NoConclusion
        /\ prior' = prior \/ prior' = [prior EXCEPT ![s] = body[key[s]]]
    BY <1>9, ClaimStepEffect DEF Claiming, ClosedInv
  <2> QED
    BY <1>0, <2>1, <2>2 DEF PromptsInv, OfKey, CurrentKey
<1>10. ASSUME NEW s \in Sessions, StartFlight(s) PROVE PromptsInv'
  <2>1. \A q \in Sessions : reply'[q].shown = reply[q].shown
    BY <1>10, ReplyEffects DEF Tallied, Tally, OneMore
  <2> QED
    BY <1>1, <1>10, <2>1 DEF StartFlight, claimVars
<1>11. ASSUME NEW s \in Sessions, NEW r \in Results, OfKey(r.prompt, CurrentKey(s)),
              Produce(s, r), UNCHANGED <<claimVars, cfg, text, reply>>
       PROVE  PromptsInv'
  BY <1>1, <1>11 DEF Produce, claimVars
<1>12. ASSUME NEW s \in Sessions, FlightDone(s) PROVE PromptsInv'
  <2>1. PICK r \in FlightResults(s) : Handoff(s, r)
    BY <1>12 DEF FlightDone
  <2> DEFINE enhanced == [session |-> s, text |-> text[s]]
  <2>2. enhanced \in Prompts /\ DedupKey(enhanced.session, enhanced.text) = CurrentKey(s)
    BY <1>0 DEF Prompts, CurrentKey
  <2>3. /\ Inject(enhanced) \in Results /\ Inject(enhanced).prompt = enhanced
        /\ Block(enhanced) \in Results /\ Block(enhanced).prompt = enhanced
    BY <2>2 DEF Inject, Block, Results, Decisions
  <2>4. \/ r = Failure(s)
        \/ cfg.provider /\ (r = Inject(enhanced) \/ r = Block(enhanced))
    BY <2>1 DEF FlightResults
  <2> HIDE DEF enhanced
  <2>5. r \in Results /\ OfKey(r.prompt, CurrentKey(s))
    BY <1>3, <2>2, <2>3, <2>4 DEF OfKey
  <2>6. Produce(s, r)
    BY <2>1 DEF Handoff
  <2> QED
    BY <1>11, <1>12, <2>5, <2>6 DEF FlightDone, claimVars
<1>13. ASSUME NEW s \in Sessions, FlightDeadline(s) PROVE PromptsInv'
  <2>1. OfKey(Failure(s).prompt, CurrentKey(s))
    BY <1>3 DEF OfKey
  <2> QED
    BY <1>3, <1>11, <1>13, <2>1 DEF FlightDeadline, claimVars
<1>14. ASSUME NEW s \in Sessions, LoseClaim(s) PROVE PromptsInv'
  <2>1. phase[s] = "claim" /\ Produce(s, LossResult(s))
        /\ UNCHANGED <<claimVars, cfg, text, reply>>
    BY <1>14 DEF LoseClaim, Handoff, claimVars
  <2>2. key[s] = CurrentKey(s)
    BY <2>1 DEF ClosedInv, ClaimPhase, OwnKey, Running
  <2>3. LossResult(s) \in Results
    BY <1>0, <1>2, <1>3 DEF LossResult, Block, Skip, Results, Decisions, Conclusions
  <2>4. OfKey(LossResult(s).prompt, CurrentKey(s))
    <3>1. CASE LossResult(s).prompt = NoPrompt
      BY <3>1 DEF OfKey
    <3>2. CASE LossResult(s).prompt # NoPrompt
      <4>1. prior[s] # NoConclusion /\ LossResult(s) = Block(prior[s].prompt)
        BY <1>2, <1>3, <3>2 DEF LossResult
      <4> QED
        BY <2>2, <4>1 DEF PromptsInv, Block
    <3> QED
      BY <3>1, <3>2
  <2> QED
    BY <1>11, <2>1, <2>3, <2>4
<1>15. ASSUME NEW s \in Sessions, Delivered(s) \/ Emit(s) PROVE PromptsInv'
  BY <1>1, <1>15 DEF Delivered, Emit, claimVars
<1>16. ASSUME NEW s \in Sessions, Conclude(s) PROVE PromptsInv'
  <2>1. phase[s] = "conclude" /\ UNCHANGED <<key, cfg, text, result, reply>>
    BY <1>16 DEF Conclude, Claims!Finish, Claims!FinishUnrecorded,
                 Claims!FinishNoop, Claims!files, claimVars
  <2>2. prior' = prior \/ prior' = [prior EXCEPT ![s] = NoConclusion]
    BY <1>16 DEF Conclude, Claims!Finish, Claims!FinishUnrecorded, Claims!FinishNoop,
                 Claims!Return, claimVars
  <2>3. \/ body' = body
        \/ cfg.dedup /\ body' = [body EXCEPT ![key[s]] = ConclusionOf(result[s])]
    BY <1>16 DEF Conclude, Claims!Finish, Claims!FinishUnrecorded, Claims!FinishNoop,
                 Claims!SetBody, Claims!files, claimVars
  <2>4. \/ ConclusionOf(result[s]) = NoConclusion
        \/ ConclusionOf(result[s]).prompt \in {result[s].prompt, NoPrompt}
    BY DEF ConclusionOf
  <2>5. cfg.dedup => key[s] = CurrentKey(s)
    BY <2>1 DEF ClosedInv, OwnKey, Running
  <2> QED
    BY <1>0, <2>1, <2>2, <2>3, <2>4, <2>5 DEF PromptsInv, OfKey, CurrentKey
<1>17. CASE Tick \/ UNCHANGED vars
  <2>1. UNCHANGED <<body, prior, key, hostVars>>
    BY <1>17 DEF Tick, Claims!Tick, Claims!files, vars, claimVars
  <2> QED
    BY <2>1 DEF PromptsInv, OfKey, CurrentKey, hostVars
<1> QED
  BY <1>4, <1>5, <1>6, <1>7, <1>8, <1>9, <1>10, <1>12, <1>13, <1>14, <1>15, <1>16, <1>17
  DEF Next, HostStep, HookStep

LEMMA PromptsInvHolds == Spec => []PromptsInv
<1>1. Init => PromptsInv
  BY DEF Init, Claims!Init, PromptsInv, OfKey, Skip, NoReply
<1> QED
  BY <1>1, PromptsInvStep, ClosedInvInit, ClosedInvStep, PhaseInvHolds, TypesHold, PTL
  DEF Spec

(* A key tells its prompt: the text, and the session or its directory.      *)
LEMMA KeyTellsPrompt ==
  ASSUME NEW p \in Prompts, NEW s \in Sessions,
         DedupKey(p.session, p.text) = CurrentKey(s)
  PROVE  /\ p.text = text[s]
         /\ \/ p.session = s
            \/ {s, p.session} \cap Identified = {} /\ Cwd[p.session] = Cwd[s]
BY DEF CurrentKey, DedupKey

(***************************************************************************)
(* Only a session's own flight makes its hook inject: what a loser replays  *)
(* is a block.                                                              *)
(***************************************************************************)
InjectsOwn(s) ==
  result[s].decision = "inject" => result[s].prompt = [session |-> s, text |-> text[s]]

InjectInv == \A s \in Sessions : InjectsOwn(s)

LEMMA InjectInvStep == TypeOK /\ PhaseInv /\ InjectInv /\ [Next]_vars => InjectInv'
<1> SUFFICES ASSUME TypeOK, PhaseInv, InjectInv, [Next]_vars PROVE InjectInv'
  OBVIOUS
<1>0. result \in [Sessions -> Results] /\ text \in [Sessions -> Texts]
  BY DEF TypeOK
<1>1. ASSUME NEW s \in Sessions, NEW r \in {q \in Results : q.decision # "inject"},
             text' = text, result' = [result EXCEPT ![s] = r]
      PROVE  InjectInv'
  BY <1>0, <1>1 DEF InjectInv, InjectsOwn
<1>2. ASSUME text' = text, result' = result PROVE InjectInv'
  BY <1>2 DEF InjectInv, InjectsOwn
<1>3. /\ Skip \in {q \in Results : q.decision # "inject"}
      /\ \A p \in Prompts \cup {NoPrompt} :
           Block(p) \in {q \in Results : q.decision # "inject"}
  BY DEF Skip, Block, Results, Decisions
<1>4. \A s \in Sessions : Failure(s) \in {q \in Results : q.decision # "inject"}
  BY <1>3 DEF Failure
<1>5. ASSUME NEW s \in Sessions, NEW t \in Texts, Submit(s, t) PROVE InjectInv'
  <2>1. result[s] = Skip /\ result' = result /\ text' = [text EXCEPT ![s] = t]
    BY <1>5 DEF Submit, PhaseInv
  <2> QED
    BY <1>0, <2>1 DEF InjectInv, InjectsOwn, Skip
<1>6. ASSUME NEW s \in Sessions, StartHook(s) PROVE InjectInv'
  <2>1. text' = text /\ (result' = result \/ result' = [result EXCEPT ![s] = Block(NoPrompt)])
    BY <1>6 DEF StartHook, Produce
  <2> QED
    BY <1>1, <1>2, <1>3, <2>1
<1>7. ASSUME NEW s \in Sessions, Collect(s) \/ LoseHook(s) PROVE InjectInv'
  BY <1>1, <1>3, <1>7 DEF Collect, LoseHook, Produce
<1>8. ASSUME NEW s \in Sessions, FlightDone(s) PROVE InjectInv'
  <2> DEFINE enhanced == [session |-> s, text |-> text[s]]
  <2>1. PICK r \in FlightResults(s) : Produce(s, r)
    BY <1>8 DEF FlightDone, Handoff
  <2>2. text' = text /\ result' = [result EXCEPT ![s] = r]
    BY <1>8, <2>1 DEF FlightDone, Produce
  <2>3. enhanced \in Prompts
    BY <1>0 DEF Prompts
  <2>4. r \in {q \in Results : q.decision # "inject"} \/ r = Inject(enhanced)
    BY <1>3, <1>4, <2>1, <2>3 DEF FlightResults
  <2>5. CASE r = Inject(enhanced)
    BY <1>0, <2>2, <2>5 DEF InjectInv, InjectsOwn, Inject
  <2> QED
    BY <1>1, <2>2, <2>4, <2>5
<1>9. ASSUME NEW s \in Sessions, FlightDeadline(s) PROVE InjectInv'
  BY <1>1, <1>4, <1>9 DEF FlightDeadline, Produce
<1>10. ASSUME NEW s \in Sessions, LoseClaim(s) PROVE InjectInv'
  <2>1. prior[s] \in Conclusions \cup {NoConclusion}
    BY DEF TypeOK, Claims!TypeOK, Claims!Bodies
  <2>2. prior[s] # NoConclusion => prior[s].prompt \in Prompts \cup {NoPrompt}
    BY <2>1 DEF Conclusions
  <2>3. LossResult(s) \in {Failure(s), Skip, Block(prior[s].prompt)}
        /\ (prior[s] = NoConclusion => LossResult(s) = Failure(s))
    BY DEF LossResult
  <2>4. LossResult(s) \in {q \in Results : q.decision # "inject"}
    BY <1>3, <1>4, <2>2, <2>3
  <2> QED
    BY <1>1, <1>10, <2>4 DEF LoseClaim, Handoff, Produce
<1>11. ASSUME NEW s \in Sessions,
              \/ Decide(s) \/ Claiming(s) \/ StartFlight(s)
              \/ Delivered(s) \/ Emit(s) \/ Conclude(s)
       PROVE  InjectInv'
  BY <1>2, <1>11
  DEF Decide, Claiming, StartFlight, Delivered, Emit, Conclude, hostVars
<1>12. CASE Tick \/ UNCHANGED vars
  BY <1>2, <1>12 DEF Tick, hostVars, vars
<1> QED
  BY <1>5, <1>6, <1>7, <1>8, <1>9, <1>10, <1>11, <1>12
  DEF Next, HostStep, HookStep, HookCrash, HostKill

LEMMA InjectInvHolds == Spec => []InjectInv
<1>1. Init => InjectInv
  BY DEF Init, InjectInv, InjectsOwn, Skip
<1> QED
  BY <1>1, InjectInvStep, PhaseInvHolds, TypesHold, PTL DEF Spec

(***************************************************************************)
(* No hook outputs, and no host has shown, the enhancement of another text  *)
(* or of another identified session; an injection is the session's own.     *)
(* Any number of sessions, any directories, whatever fails                  *)
(* (devin_hook.go:394-399, 445-448).                                        *)
(***************************************************************************)
THEOREM NoForeignPromptHolds == Spec => []NoForeignPrompt
<1>1. TypeOK /\ PromptsInv /\ InjectInv => NoForeignPrompt
  <2> SUFFICES ASSUME TypeOK, PromptsInv, InjectInv, NEW s \in Sessions
               PROVE  /\ FitsSession(result[s].prompt, s)
                      /\ \A i \in DOMAIN reply[s].shown : FitsSession(reply[s].shown[i], s)
                      /\ InjectsOwn(s)
    BY DEF NoForeignPrompt, InjectsOwn
  <2>1. ASSUME NEW p \in Prompts \cup {NoPrompt}, OfKey(p, CurrentKey(s))
        PROVE  FitsSession(p, s)
    BY <2>1, KeyTellsPrompt DEF FitsSession, OfKey
  <2>2. /\ result[s].prompt \in Prompts \cup {NoPrompt}
        /\ \A i \in DOMAIN reply[s].shown : reply[s].shown[i] \in Prompts \cup {NoPrompt}
    BY DEF TypeOK, Results, Reply
  <2> QED
    BY <2>1, <2>2 DEF PromptsInv, InjectInv
<1> QED
  BY <1>1, TypesHold, PromptsInvHolds, InjectInvHolds, PTL

-----------------------------------------------------------------------------
(***************************************************************************)
(* No phase lasts longer than its timer; only flights and deliveries last.  *)
(***************************************************************************)
TimersInv ==
  \A s \in Sessions :
    /\ since[s].wait <= now
    /\ phase[s] = "claim" => now = since[s].hook
    /\ phase[s] = "flight" => since[s].wait = since[s].hook /\ now <= since[s].wait + Deadline
    /\ phase[s] = "deliver" =>
         since[s].wait <= since[s].hook + Deadline /\ now <= since[s].wait + DeliverMax
    /\ phase[s] \in {"emit", "conclude"} => now <= since[s].hook + Deadline + DeliverMax

LEMMA DeadlineType == Deadline \in Nat
<1>1. HostTimeout \in Nat /\ Margin \in Nat
  BY TimesAssumption
<1> QED
  BY <1>1 DEF Deadline

(* A step that moves only session s, in no time.                            *)
LEMMA TimersLocal ==
  ASSUME TypeOK, TimersInv, NEW s \in Sessions, now' = now,
         since' \in [Sessions -> [hook: Nat, wait: Nat]],
         \A q \in Sessions \ {s} :
           phase'[q] = phase[q] /\ since'[q] = since[q],
         since'[s].wait <= now,
         phase'[s] = "claim" => now = since'[s].hook,
         phase'[s] = "flight" =>
           since'[s].wait = since'[s].hook /\ now <= since'[s].wait + Deadline,
         phase'[s] = "deliver" =>
           since'[s].wait <= since'[s].hook + Deadline /\ now <= since'[s].wait + DeliverMax,
         phase'[s] \in {"emit", "conclude"} => now <= since'[s].hook + Deadline + DeliverMax
  PROVE  TimersInv'
BY DEF TimersInv

LEMMA TimersInvStep == TypeOK /\ TimersInv /\ [Next]_vars => TimersInv'
<1> SUFFICES ASSUME TypeOK, TimersInv, [Next]_vars PROVE TimersInv'
  OBVIOUS
<1>0. /\ now \in Nat /\ Deadline \in Nat /\ DeliverMax \in Nat
      /\ since \in [Sessions -> [hook: Nat, wait: Nat]]
      /\ phase \in [Sessions -> Phases]
  BY DeadlineType, TimesAssumption DEF TypeOK, Claims!TypeOK
<1>1. ASSUME NEW s \in Sessions
      PROVE  since[s].wait \in Nat /\ since[s].hook \in Nat /\ since[s].wait <= now
  BY <1>0 DEF TimersInv
(* A step to a phase without a timer.                                       *)
<1>2. ASSUME NEW s \in Sessions, UNCHANGED <<now, since>>,
             \E ph \in {"next", "idle", "exit"} : phase' = [phase EXCEPT ![s] = ph]
      PROVE  TimersInv'
  <2>1. /\ \A q \in Sessions \ {s} : phase'[q] = phase[q]
        /\ phase'[s] \in {"next", "idle", "exit"}
    BY <1>0, <1>2
  <2> QED
    BY <1>0, <1>1, <1>2, <2>1, TimersLocal
<1>3. ASSUME NEW s \in Sessions, StartHook(s) PROVE TimersInv'
  <2>1. /\ now' = now
        /\ since' = [since EXCEPT ![s] = [hook |-> now, wait |-> now]]
        /\ \/ phase' = [phase EXCEPT ![s] = "next"]
           \/ phase' = [phase EXCEPT ![s] = "exit"]
           \/ phase' = [phase EXCEPT ![s] = "claim"]
           \/ phase' = [phase EXCEPT ![s] = "flight"]
    BY <1>3 DEF StartHook, GoTo, Claims!BeginClaim, claimVars
  <2>2. /\ since'[s].hook = now /\ since'[s].wait = now
        /\ since' \in [Sessions -> [hook: Nat, wait: Nat]]
        /\ \A q \in Sessions \ {s} : since'[q] = since[q] /\ phase'[q] = phase[q]
        /\ phase'[s] \in {"next", "exit", "claim", "flight"}
    BY <1>0, <2>1
  <2> QED
    BY <1>0, <2>1, <2>2, TimersLocal
<1>4. ASSUME NEW s \in Sessions,
             \/ \E t \in Texts : Submit(s, t)
             \/ Collect(s) \/ Decide(s) \/ LoseHook(s) \/ Conclude(s)
      PROVE  TimersInv'
  <2>1. /\ UNCHANGED <<now, since>>
        /\ \E ph \in {"next", "idle", "exit"} : phase' = [phase EXCEPT ![s] = ph]
    BY <1>4 DEF Submit, Collect, Decide, LoseHook, Conclude, GoTo, Claims!Crash, Claims!Finish,
                Claims!FinishUnrecorded, Claims!FinishNoop, claimVars
  <2> QED
    BY <1>2, <2>1
<1>5. ASSUME NEW s \in Sessions, Claiming(s) PROVE TimersInv'
  <2>1. UNCHANGED <<now, phase, since>>
    BY <1>5, ClaimStepMoves DEF Claiming, hostVars, TypeOK
  <2> QED
    BY <2>1 DEF TimersInv
<1>6. ASSUME NEW s \in Sessions, StartFlight(s) PROVE TimersInv'
  <2>1. /\ phase[s] = "claim" /\ now' = now /\ phase' = [phase EXCEPT ![s] = "flight"]
        /\ since' = [since EXCEPT ![s].wait = now]
    BY <1>6 DEF StartFlight, GoTo, StartWait, claimVars
  <2>2. now = since[s].hook
    BY <2>1 DEF TimersInv
  <2>3. /\ since'[s].hook = now /\ since'[s].wait = now /\ phase'[s] = "flight"
        /\ since' \in [Sessions -> [hook: Nat, wait: Nat]]
        /\ \A q \in Sessions \ {s} : since'[q] = since[q] /\ phase'[q] = phase[q]
    BY <1>0, <2>1, <2>2
  <2> QED
    BY <1>0, <2>1, <2>2, <2>3, TimersLocal
<1>7. ASSUME NEW s \in Sessions, NEW r, Handoff(s, r), now' = now,
             now <= since[s].hook + Deadline
      PROVE  TimersInv'
  <2>1. CASE phase' = [phase EXCEPT ![s] = "deliver"] /\ since' = [since EXCEPT ![s].wait = now]
    <3>1. /\ since'[s].hook = since[s].hook /\ since'[s].wait = now /\ phase'[s] = "deliver"
          /\ since' \in [Sessions -> [hook: Nat, wait: Nat]]
          /\ \A q \in Sessions \ {s} : since'[q] = since[q] /\ phase'[q] = phase[q]
      BY <1>0, <2>1
    <3> QED
      BY <1>0, <1>1, <1>7, <3>1, TimersLocal
  <2>2. CASE phase' = [phase EXCEPT ![s] = "emit"] /\ since' = since
    <3>1. phase'[s] = "emit" /\ \A q \in Sessions \ {s} : phase'[q] = phase[q]
      BY <1>0, <2>2
    <3>2. now <= since[s].hook + Deadline + DeliverMax
      BY <1>0, <1>1, <1>7
    <3> QED
      BY <1>0, <1>1, <1>7, <2>2, <3>1, <3>2, TimersLocal
  <2> QED
    BY <1>7, <2>1, <2>2 DEF Handoff, GoTo, StartWait
<1>8. ASSUME NEW s \in Sessions, FlightDone(s) \/ LoseClaim(s) PROVE TimersInv'
  <2>1. PICK r : Handoff(s, r)
    BY <1>8 DEF FlightDone, LoseClaim
  <2>2. now' = now /\ phase[s] \in {"flight", "claim"}
    BY <1>8 DEF FlightDone, LoseClaim, claimVars
  <2>3. now <= since[s].hook + Deadline
    BY <1>0, <1>1, <2>2 DEF TimersInv
  <2> QED
    BY <1>7, <2>1, <2>2, <2>3
(* A step to the end of a hook.                                             *)
<1>9. ASSUME NEW s \in Sessions, UNCHANGED <<now, since>>,
             phase[s] \in {"flight", "deliver", "emit"},
             \E ph \in {"emit", "conclude"} : phase' = [phase EXCEPT ![s] = ph]
      PROVE  TimersInv'
  <2>1. now <= since[s].hook + Deadline + DeliverMax
    BY <1>0, <1>1, <1>9 DEF TimersInv
  <2>2. phase'[s] \in {"emit", "conclude"} /\ \A q \in Sessions \ {s} : phase'[q] = phase[q]
    BY <1>0, <1>9
  <2> QED
    BY <1>0, <1>1, <1>9, <2>1, <2>2, TimersLocal
<1>10. ASSUME NEW s \in Sessions, FlightDeadline(s) \/ Delivered(s) \/ Emit(s)
       PROVE  TimersInv'
  BY <1>9, <1>10 DEF FlightDeadline, Delivered, Emit, GoTo, claimVars
(* Time passes inside the timers.                                           *)
<1>11. ASSUME Tick PROVE TimersInv'
  <2>1. now' = now + 1 /\ UNCHANGED <<phase, since>>
    BY <1>11 DEF Tick, Claims!Tick, hostVars
  <2>2. ASSUME NEW s \in Sessions
        PROVE  /\ phase[s] \in {"idle", "flight", "deliver"}
               /\ phase[s] = "flight" => now < since[s].wait + Deadline
               /\ phase[s] = "deliver" => now < since[s].wait + DeliverMax
    BY <1>11 DEF Tick, Waiting
  <2> QED
    BY <1>0, <1>1, <2>1, <2>2 DEF TimersInv
<1>12. CASE UNCHANGED vars
  BY <1>12 DEF TimersInv, vars, claimVars, hostVars
<1> QED
  BY <1>3, <1>4, <1>5, <1>6, <1>8, <1>10, <1>11, <1>12
  DEF Next, HostStep, HookStep, HookCrash, HostKill

LEMMA TimersInvHolds == Spec => []TimersInv
<1>1. Init => TimersInv
  BY DEF Init, Claims!Init, TimersInv
<1> QED
  BY <1>1, TimersInvStep, TypesHold, PTL DEF Spec

(***************************************************************************)
(* The deadline expires before the host does (devin_hook.go:76-80): no hook *)
(* is killed if what the deadline and the clipboard may take is less than   *)
(* the host's patience, whatever fails (MarginSuffices: it is, for a host   *)
(* that waits longer than the 5s of hook_install.go:21).                    *)
(***************************************************************************)
THEOREM NeverKilledHolds ==
  ASSUME Deadline + DeliverMax < HostTimeout
  PROVE  Spec => []NeverKilledByHost
<1>1. Init => NeverKilledByHost
  BY DEF Init, NeverKilledByHost, NoReply
(* No hook outlives its host's patience.                                    *)
<1>2. ASSUME TypeOK, TimersInv, NEW s \in Sessions PROVE ~HostKill(s)
  <2>1. SUFFICES ASSUME HostKill(s) PROVE FALSE
    OBVIOUS
  <2>2. /\ phase[s] \in {"claim", "flight", "deliver", "emit", "conclude"}
        /\ now >= since[s].hook + HostTimeout
    BY <2>1 DEF HostKill, LoseHook
  <2>3. /\ now \in Nat /\ since[s].wait \in Nat /\ since[s].hook \in Nat
        /\ Deadline \in Nat /\ DeliverMax \in Nat /\ HostTimeout \in Nat
    BY <1>2, DeadlineType, TimesAssumption DEF TypeOK, Claims!TypeOK
  <2>4. now <= since[s].hook + Deadline + DeliverMax
    BY <1>2, <2>2, <2>3 DEF TimersInv
  <2> QED
    BY <2>2, <2>3, <2>4
<1>3. TypeOK /\ TimersInv /\ NeverKilledByHost /\ [Next]_vars => NeverKilledByHost'
  <2> SUFFICES ASSUME TypeOK, TimersInv, NeverKilledByHost, [Next]_vars,
                      NEW q \in Sessions, reply'[q].killed
               PROVE  FALSE
    BY DEF NeverKilledByHost
  <2>1. ~reply[q].killed
    BY DEF NeverKilledByHost
  <2>2. ASSUME NEW s \in Sessions,
               \/ \E t \in Texts : Submit(s, t)
               \/ StartHook(s) \/ StartFlight(s) \/ Collect(s) \/ Decide(s) \/ HookCrash(s)
        PROVE  FALSE
    BY <2>1, <2>2, ReplyEffects DEF Tallied, Tally, OneMore, Collected, Same, Died
  <2>3. ASSUME NEW s \in Sessions,
               \/ Claiming(s) \/ FlightDone(s) \/ FlightDeadline(s) \/ LoseClaim(s)
               \/ Delivered(s) \/ Emit(s) \/ Conclude(s)
        PROVE  FALSE
    BY <2>1, <2>3 DEF Claiming, FlightDone, FlightDeadline, LoseClaim, Delivered, Emit,
                      Conclude, hostVars
  <2>4. CASE Tick \/ UNCHANGED vars
    BY <2>1, <2>4 DEF Tick, vars, hostVars
  <2> QED
    BY <1>2, <2>2, <2>3, <2>4 DEF Next, HostStep, HookStep
<1> QED
  BY <1>1, <1>3, TypesHold, TimersInvHolds, PTL DEF Spec

(* The hypothesis for the margin of the code.                               *)
LEMMA MarginSuffices ==
  ASSUME HostTimeout > Margin, DeliverMax < Margin
  PROVE  Deadline + DeliverMax < HostTimeout
BY TimesAssumption DEF Deadline

-----------------------------------------------------------------------------
(***************************************************************************)
(* A step of one session leaves the others' processes and notes alone; what *)
(* the sessions share are the claim files.                                  *)
(***************************************************************************)
SessionStep(s) ==
  (\E t \in Texts : Submit(s, t)) \/ HostStep(s) \/ HookStep(s) \/ HookCrash(s) \/ HostKill(s)

StaysAside(q) ==
  /\ phase'[q] = phase[q] /\ text'[q] = text[q] /\ since'[q] = since[q]
  /\ result'[q] = result[q] /\ reply'[q] = reply[q]
  /\ pc'[q] = pc[q] /\ tracked'[q] = tracked[q] /\ prior'[q] = prior[q]

ClaimAside(s) ==
  /\ now' = now /\ raced \subseteq raced'
  /\ \A q \in Sessions \ {s} :
       pc'[q] = pc[q] /\ tracked'[q] = tracked[q] /\ prior'[q] = prior[q]

LEMMA ClaimStepAside ==
  ASSUME Claims!TypeOK, NEW s \in Sessions, Claims!ClaimStep(s)
  PROVE  ClaimAside(s)
<1> USE DEF Claims!TypeOK, Claims!Goto, Claims!files, Claims!history, ClaimAside
<1>1. CASE \/ Claims!SweepConfirm(s) \/ Claims!SweepSpare(s) \/ Claims!SweepDone(s)
  BY <1>1 DEF Claims!SweepConfirm, Claims!SweepSpare, Claims!SweepDone
<1>2. CASE Claims!SweepUnlink(s)
  <2>1. /\ raced \subseteq raced' /\ UNCHANGED <<now, prior, tracked>>
        /\ Claims!Goto(s, "sweep")
    BY <1>2 DEF Claims!SweepUnlink
  <2> QED
    BY <2>1
<1>3. CASE \/ Claims!ClaimExists(s) \/ Claims!StatFresh(s) \/ Claims!StatStale(s)
           \/ Claims!ReadPrior(s) \/ Claims!TouchAndLose(s)
  BY <1>3 DEF Claims!ClaimExists, Claims!StatFresh, Claims!StatStale, Claims!ReadPrior,
    Claims!TouchAndLose
<1>4. CASE \/ Claims!CreateClaim(s) \/ Claims!TakeOver(s) \/ Claims!TakeOverUnreset(s)
           \/ Claims!ClaimUnavailable(s)
  BY <1>4 DEF Claims!CreateClaim, Claims!TakeOver, Claims!TakeOverUnreset,
    Claims!ClaimUnavailable, Claims!Won
<1> QED
  BY <1>1, <1>2, <1>3, <1>4 DEF Claims!ClaimStep, Claims!ClaimProceeds

LEMMA ClaimEndsAside ==
  ASSUME Claims!TypeOK, NEW s \in Sessions,
         \/ \E c : Claims!Finish(s, c)
         \/ Claims!FinishUnrecorded(s) \/ Claims!FinishNoop(s) \/ Claims!Crash(s)
         \/ \E k : Claims!BeginClaim(s, k)
  PROVE  ClaimAside(s)
BY DEF Claims!TypeOK, Claims!Finish, Claims!FinishUnrecorded, Claims!FinishNoop, Claims!Crash,
       Claims!BeginClaim, Claims!Return, Claims!Goto, ClaimAside

LEMMA OthersStay ==
  ASSUME TypeOK, NEW s \in Sessions, SessionStep(s)
  PROVE  /\ cfg' = cfg /\ now' = now /\ raced \subseteq raced'
         /\ \A q \in Sessions \ {s} : StaysAside(q)
<1>0. Claims!TypeOK
  BY DEF TypeOK
<1>1. CASE ClaimAside(s) /\ cfg' = cfg
  <2> SUFFICES ASSUME NEW q \in Sessions \ {s} PROVE StaysAside(q)
    BY <1>1 DEF ClaimAside
  <2>1. pc'[q] = pc[q] /\ tracked'[q] = tracked[q] /\ prior'[q] = prior[q]
    BY <1>1 DEF ClaimAside
  <2> USE DEF TypeOK, GoTo, Produce, Note, StartWait
  <2>2. CASE \E t \in Texts : Submit(s, t)
    BY <2>1, <2>2 DEF Submit, StaysAside
  <2>3. CASE StartHook(s)
    BY <2>1, <2>3 DEF StartHook, StaysAside
  <2>4. CASE Collect(s) \/ Decide(s)
    BY <2>1, <2>4 DEF Collect, Decide, StaysAside
  <2>5. CASE Claiming(s) \/ StartFlight(s) \/ FlightDeadline(s) \/ Delivered(s) \/ Emit(s)
    BY <2>1, <2>5 DEF Claiming, StartFlight, FlightDeadline, Delivered, Emit, hostVars,
      StaysAside
  <2>6. CASE FlightDone(s) \/ LoseClaim(s)
    <3>1. PICK r : Handoff(s, r)
      BY <2>6 DEF FlightDone, LoseClaim
    <3>2. UNCHANGED <<text, reply>>
      BY <2>6 DEF FlightDone, LoseClaim
    <3> QED
      BY <2>1, <3>1, <3>2 DEF Handoff, StaysAside
  <2>7. CASE Conclude(s)
    BY <2>1, <2>7 DEF Conclude, StaysAside
  <2>8. CASE HookCrash(s) \/ HostKill(s)
    BY <2>1, <2>8 DEF HookCrash, HostKill, LoseHook, StaysAside
  <2> QED
    BY <2>2, <2>3, <2>4, <2>5, <2>6, <2>7, <2>8 DEF SessionStep, HostStep, HookStep
<1>2. UNCHANGED claimVars => ClaimAside(s)
  BY DEF claimVars, ClaimAside
<1>3. CASE StartHook(s) \/ Conclude(s) \/ HookCrash(s) \/ HostKill(s)
  <2>1. cfg' = cfg /\ (\/ UNCHANGED claimVars
                       \/ \E c : Claims!Finish(s, c)
                       \/ Claims!FinishUnrecorded(s) \/ Claims!FinishNoop(s) \/ Claims!Crash(s)
                       \/ \E k : Claims!BeginClaim(s, k))
    BY <1>3, Zenon DEF StartHook, Conclude, HookCrash, HostKill, LoseHook
  <2> QED
    BY <1>0, <1>1, <1>2, <2>1, ClaimEndsAside
<1>4. CASE Claiming(s)
  BY <1>0, <1>1, <1>4, ClaimStepAside DEF Claiming, hostVars
<1>5. CASE \/ \E t \in Texts : Submit(s, t)
           \/ Collect(s) \/ Decide(s) \/ StartFlight(s) \/ FlightDone(s) \/ FlightDeadline(s)
           \/ LoseClaim(s) \/ Delivered(s) \/ Emit(s)
  <2>1. UNCHANGED <<claimVars, cfg>>
    BY <1>5 DEF Submit, Collect, Decide, StartFlight, FlightDone, FlightDeadline, LoseClaim,
                Delivered, Emit
  <2> QED
    BY <1>1, <1>2, <2>1
<1> QED
  BY <1>3, <1>4, <1>5 DEF SessionStep, HostStep, HookStep

LEMMA NextMoves ==
  [Next]_vars => \/ \E s \in Sessions : SessionStep(s)
                 \/ Tick \/ UNCHANGED vars
BY DEF Next, SessionStep

(***************************************************************************)
(* A claim file that is fresh stays, and grows no older: a sweep takes a    *)
(* file away only past its window, unless it changed since the sweep looked *)
(* at it (raced).                                                           *)
(***************************************************************************)
LEMMA MtimeMoves ==
  ASSUME Claims!TypeOK, NEW k \in DedupKeys, Claims!Next
  PROVE  \/ mtime'[k] \in {mtime[k], now}
         \/ \E p \in Sessions : \E v \in victim[p] :
              v.key = k /\ (k \in raced' \/ mtime[k] \in {Claims!Absent, v.mtime})
<1> USE DEF Claims!TypeOK, Claims!files
<1>1. ASSUME NEW p \in Sessions, Claims!ClaimStep(p), ~Claims!SweepUnlink(p)
      PROVE  mtime'[k] \in {mtime[k], now}
  BY <1>1 DEF Claims!ClaimStep, Claims!ClaimProceeds, Claims!SweepConfirm, Claims!SweepSpare,
    Claims!SweepDone, Claims!CreateClaim, Claims!ClaimExists, Claims!StatFresh,
    Claims!StatStale, Claims!ReadPrior, Claims!TouchAndLose, Claims!TakeOver,
    Claims!TakeOverUnreset, Claims!ClaimUnavailable
<1>2. ASSUME NEW p \in Sessions, Claims!SweepUnlink(p), mtime'[k] # mtime[k]
      PROVE  \E v \in victim[p] :
               v.key = k /\ (k \in raced' \/ mtime[k] \in {Claims!Absent, v.mtime})
  <2>1. PICK v \in victim[p] :
          /\ mtime' = [mtime EXCEPT ![v.key] = Claims!Absent]
          /\ raced' = IF mtime[v.key] \notin {Claims!Absent, v.mtime}
                      THEN raced \cup {v.key} ELSE raced
    BY <1>2 DEF Claims!SweepUnlink
  <2>2. v.key = k
    BY <1>2, <2>1
  <2> QED
    BY <2>1, <2>2
<1>3. ASSUME NEW p \in Sessions,
             \/ \E c : Claims!Finish(p, c)
             \/ Claims!FinishUnrecorded(p) \/ Claims!FinishNoop(p) \/ Claims!Crash(p)
             \/ \E q : Claims!BeginClaim(p, q)
      PROVE  mtime'[k] \in {mtime[k], now}
  BY <1>3 DEF Claims!Finish, Claims!FinishUnrecorded, Claims!FinishNoop, Claims!Crash,
    Claims!BeginClaim
<1>4. CASE Claims!Tick
  BY <1>4 DEF Claims!Tick
<1> QED
  BY <1>1, <1>2, <1>3, <1>4 DEF Claims!Next

LEMMA FreshStays ==
  ASSUME ClosedInv, Claims!FlightInv, [Next]_vars,
         NEW k \in DedupKeys, k \notin raced',
         NEW w \in Int, w <= now, now <= w + Window, Claims!Exists(k), mtime[k] >= w
  PROVE  Claims!Exists(k)' /\ mtime'[k] >= w
<1>0. /\ now \in Nat /\ mtime[k] \in Nat /\ Window \in Nat
      /\ victim \in [Sessions -> SUBSET Claims!Victim]
  BY TimesAssumption DEF Claims!FlightInv, Claims!TypeOK, Claims!Time, Claims!Exists
<1>1. CASE mtime'[k] \in {mtime[k], now}
  BY <1>0, <1>1 DEF Claims!Exists, Claims!Absent
<1>2. ASSUME NEW p \in Sessions, NEW v \in victim[p], v.key = k, mtime[k] = v.mtime
      PROVE  FALSE
  <2>1. now > v.mtime + Window
    BY DEF Claims!FlightInv, Claims!VictimsAged
  <2> QED
    BY <1>0, <1>2, <2>1
<1>3. Claims!Next \/ UNCHANGED Claims!vars
  BY ClaimsStep
<1>4. UNCHANGED Claims!vars => mtime'[k] = mtime[k]
  BY DEF Claims!vars, Claims!files
<1>5. mtime[k] # Claims!Absent
  BY DEF Claims!Exists
<1>6. Claims!Next => \/ mtime'[k] \in {mtime[k], now}
                     \/ \E p \in Sessions : \E v \in victim[p] :
                          v.key = k /\ (k \in raced' \/ mtime[k] \in {Claims!Absent, v.mtime})
  BY MtimeMoves DEF Claims!FlightInv
<1> QED
  BY <1>1, <1>2, <1>3, <1>4, <1>5, <1>6

-----------------------------------------------------------------------------
(***************************************************************************)
(* Injections are outcomes of flights.                                      *)
(***************************************************************************)
Injecting(s) == IF result[s].decision = "inject" THEN 1 ELSE 0

FlightsInv ==
  \A s \in Sessions :
    /\ reply[s].injections + Injecting(s) <= reply[s].flights
    /\ phase[s] = "flight" => reply[s].injections + 1 <= reply[s].flights

LEMMA FlightsInvStep == TypeOK /\ PhaseInv /\ FlightsInv /\ [Next]_vars => FlightsInv'
<1> SUFFICES ASSUME TypeOK, PhaseInv, FlightsInv, [Next]_vars PROVE FlightsInv'
  OBVIOUS
<1>0. /\ phase \in [Sessions -> Phases] /\ result \in [Sessions -> Results]
      /\ \A s \in Sessions : reply[s].injections \in Nat /\ reply[s].flights \in Nat
  BY DEF TypeOK, Reply
<1>1. ASSUME NEW s \in Sessions, SessionStep(s),
             reply'[s].injections + Injecting(s)' <= reply'[s].flights,
             phase'[s] = "flight" => reply'[s].injections + 1 <= reply'[s].flights
      PROVE  FlightsInv'
  <2>1. \A q \in Sessions \ {s} : StaysAside(q)
    BY <1>1, OthersStay
  <2> QED
    BY <1>1, <2>1 DEF FlightsInv, StaysAside, Injecting
<1>2. Skip.decision = "skip" /\ \A p : Block(p).decision = "block" /\ Inject(p).decision = "inject"
  BY DEF Skip, Block, Inject
<1>3. ASSUME NEW s \in Sessions PROVE Failure(s).decision # "inject"
  BY <1>2 DEF Failure
<1>4. ASSUME NEW s \in Sessions, NEW t \in Texts, Submit(s, t) PROVE FlightsInv'
  <2>1. reply'[s].injections = 0 /\ reply'[s].flights = 0
    BY <1>4, ReplyEffects DEF Tallied, Tally
  <2>2. phase[s] = "idle" /\ result' = result /\ phase'[s] = "next"
    BY <1>0, <1>4 DEF Submit, GoTo
  <2>3. result'[s].decision # "inject"
    BY <1>2, <2>2 DEF PhaseInv
  <2> QED
    BY <1>1, <1>4, <2>1, <2>2, <2>3 DEF SessionStep, Injecting
<1>5. ASSUME NEW s \in Sessions, StartHook(s) PROVE FlightsInv'
  <2>1. phase[s] = "next" /\ result'[s].decision \in {result[s].decision, "block"}
    BY <1>0, <1>2, <1>5 DEF StartHook, Produce
  <2>2. result'[s].decision # "inject"
    BY <1>2, <2>1 DEF PhaseInv
  <2>3. CASE reply' = reply
    <3>1. phase'[s] # "flight"
      <4>1. SUFFICES ASSUME phase'[s] = "flight" PROVE FALSE
        OBVIOUS
      <4>2. Note(s, [reply[s] EXCEPT !.flights = @ + 1])
        BY <1>0, <1>5, <4>1 DEF StartHook, GoTo
      <4>3. reply'[s].flights = reply[s].flights + 1
        BY <4>2 DEF Note, TypeOK, Reply
      <4> QED
        BY <1>0, <2>3, <4>3
    <3> QED
      BY <1>0, <1>1, <1>5, <2>2, <2>3, <3>1 DEF SessionStep, HostStep, Injecting, FlightsInv
  <2>4. CASE Tallied(s, OneMore(s))
    <3>1. reply'[s].injections = reply[s].injections /\ reply'[s].flights = reply[s].flights + 1
      BY <2>4 DEF Tallied, Tally, OneMore
    <3>2. reply[s].injections <= reply[s].flights
      BY <1>0 DEF FlightsInv, Injecting
    <3>3. /\ reply'[s].injections + 1 <= reply'[s].flights
          /\ reply'[s].injections + Injecting(s)' <= reply'[s].flights
      BY <1>0, <2>2, <3>1, <3>2 DEF Injecting
    <3> QED
      BY <1>1, <1>5, <3>3 DEF SessionStep, HostStep
  <2> QED
    BY <1>5, <2>3, <2>4, ReplyEffects
<1>6. ASSUME NEW s \in Sessions, Collect(s) PROVE FlightsInv'
  <2>1. /\ reply'[s].flights = reply[s].flights
        /\ reply'[s].injections = reply[s].injections + Injecting(s)
    <3>1. Tally(reply'[s]) = Collected(s)
      BY <1>6, ReplyEffects DEF Tallied
    <3>2. /\ reply'[s].flights = reply[s].flights
          /\ reply'[s].injections = IF result[s].decision = "inject"
                                    THEN reply[s].injections + 1 ELSE reply[s].injections
      BY <3>1 DEF Tally, Collected
    <3> QED
      BY <1>0, <3>2 DEF Injecting
  <2>2. phase'[s] = "next" /\ result'[s] = Skip
    BY <1>0, <1>6 DEF Collect, GoTo, Produce
  <2> QED
    BY <1>0, <1>1, <1>2, <1>6, <2>1, <2>2 DEF SessionStep, HostStep, Injecting, FlightsInv
<1>7. ASSUME NEW s \in Sessions, StartFlight(s) PROVE FlightsInv'
  <2>1. reply'[s].injections = reply[s].injections /\ reply'[s].flights = reply[s].flights + 1
    BY <1>7, ReplyEffects DEF Tallied, Tally, OneMore
  <2>2. result' = result /\ reply[s].injections + Injecting(s) <= reply[s].flights
    BY <1>7 DEF StartFlight, FlightsInv
  <2>3. Injecting(s) \in {0, 1} /\ Injecting(s)' = Injecting(s)
    BY <2>2 DEF Injecting
  <2>4. /\ reply'[s].injections + 1 <= reply'[s].flights
        /\ reply'[s].injections + Injecting(s)' <= reply'[s].flights
    BY <1>0, <2>1, <2>2, <2>3
  <2> QED
    BY <1>1, <1>7, <2>4 DEF SessionStep, HookStep
(* A step that counts nothing.                                              *)
<1>8. ASSUME NEW s \in Sessions, SessionStep(s), phase'[s] # "flight",
             reply'[s].injections = reply[s].injections,
             reply'[s].flights = reply[s].flights,
             \/ result'[s] = result[s] \/ result'[s].decision # "inject" \/ phase[s] = "flight"
      PROVE  FlightsInv'
  <2>1. CASE phase[s] = "flight"
    BY <1>0, <1>1, <1>8, <2>1 DEF FlightsInv, Injecting
  <2>2. CASE result'[s] = result[s]
    BY <1>0, <1>1, <1>8, <2>2 DEF FlightsInv, Injecting
  <2>3. CASE result'[s].decision # "inject"
    BY <1>0, <1>1, <1>8, <2>3 DEF FlightsInv, Injecting
  <2> QED
    BY <1>8, <2>1, <2>2, <2>3
<1>9. ASSUME NEW s \in Sessions, Decide(s) PROVE FlightsInv'
  <2>1. reply'[s].injections = reply[s].injections /\ reply'[s].flights = reply[s].flights
    BY <1>9, ReplyEffects DEF Tallied, Tally, Same
  <2>2. phase'[s] = "idle" /\ result'[s] = result[s]
    BY <1>0, <1>9 DEF Decide, GoTo
  <2> QED
    BY <1>8, <1>9, <2>1, <2>2 DEF SessionStep, HostStep
<1>10. ASSUME NEW s \in Sessions, HookCrash(s) \/ HostKill(s) PROVE FlightsInv'
  <2>1. reply'[s].injections = reply[s].injections /\ reply'[s].flights = reply[s].flights
    BY <1>10, ReplyEffects DEF Tallied, Tally, Died
  <2>2. phase'[s] = "next" /\ result'[s] = Skip
    BY <1>0, <1>10 DEF HookCrash, HostKill, LoseHook, GoTo, Produce
  <2> QED
    BY <1>2, <1>8, <1>10, <2>1, <2>2 DEF SessionStep
<1>11. ASSUME NEW s \in Sessions,
              \/ Claiming(s) \/ FlightDeadline(s) \/ Delivered(s) \/ Emit(s) \/ Conclude(s)
       PROVE  FlightsInv'
  <2>1. reply' = reply /\ (result' = result \/ phase[s] = "flight")
    BY <1>11 DEF Claiming, FlightDeadline, Delivered, Emit, Conclude, hostVars
  <2>2. phase'[s] # "flight"
    BY <1>0, <1>11, ClaimStepMoves
    DEF Claiming, FlightDeadline, Delivered, Emit, Conclude, hostVars, GoTo, TypeOK
  <2> QED
    BY <1>8, <1>11, <2>1, <2>2 DEF SessionStep, HookStep
<1>12. ASSUME NEW s \in Sessions, FlightDone(s) PROVE FlightsInv'
  <2>1. PICK r : Handoff(s, r)
    BY <1>12 DEF FlightDone
  <2>2. reply' = reply /\ phase[s] = "flight" /\ phase'[s] # "flight"
    BY <1>0, <1>12, <2>1 DEF FlightDone, Handoff, GoTo
  <2> QED
    BY <1>8, <1>12, <2>2 DEF SessionStep, HookStep
<1>13. ASSUME NEW s \in Sessions, LoseClaim(s) PROVE FlightsInv'
  <2>1. reply' = reply /\ Handoff(s, LossResult(s))
    BY <1>13 DEF LoseClaim
  <2>2. LossResult(s).decision # "inject"
    BY <1>2, <1>3 DEF LossResult
  <2>3. result'[s] = LossResult(s) /\ phase'[s] # "flight"
    BY <1>0, <2>1 DEF Handoff, GoTo, Produce
  <2> QED
    BY <1>8, <1>13, <2>1, <2>2, <2>3 DEF SessionStep, HookStep
<1>14. CASE Tick \/ UNCHANGED vars
  BY <1>14 DEF Tick, FlightsInv, Injecting, vars, hostVars
<1> QED
  BY <1>4, <1>5, <1>6, <1>7, <1>9, <1>10, <1>11, <1>12, <1>13, <1>14
  DEF Next, HostStep, HookStep

LEMMA FlightsInvHolds == Spec => []FlightsInv
<1>1. Init => FlightsInv
  BY DEF Init, FlightsInv, Injecting, Skip, NoReply
<1> QED
  BY <1>1, FlightsInvStep, TypesHold, PhaseInvHolds, PTL DEF Spec

-----------------------------------------------------------------------------
(***************************************************************************)
(* This submission has had its flight, or has shown a prompt.  From then on *)
(* its claim is fresh whenever a hook can claim again: the flight's winner, *)
(* and every loser, leave it marked with the time of their end, and no      *)
(* sweep takes away what is that young.                                     *)
(***************************************************************************)
Told(s)  == \E i \in DOMAIN reply[s].shown : reply[s].shown[i] # NoPrompt
Held(s)  == reply[s].flights > 0 \/ Told(s)
Shows(s) == result[s].decision = "block" /\ result[s].prompt # NoPrompt

Marked(s, w) == Claims!Exists(CurrentKey(s)) /\ mtime[CurrentKey(s)] >= w
OwnFresh(s)  == Marked(s, now - Window)

HeldOf(s) ==
  /\ reply[s].flights <= 1
  /\ phase[s] \in {"next", "claim", "exit"} /\ Held(s) => OwnFresh(s)
  /\ phase[s] = "exit" /\ Shows(s) => OwnFresh(s)
  /\ phase[s] = "claim" /\ pc[s] \in {"read", "touch"} => OwnFresh(s)
  /\ phase[s] = "claim" /\ Held(s) => pc[s] \notin {"takeover", "won"}
  /\ phase[s] = "claim" /\ pc[s] = "lost" => Marked(s, now)
  /\ phase[s] = "deliver" /\ pc[s] = "lost" => Marked(s, since[s].wait)
  /\ phase[s] \in {"emit", "conclude"} /\ pc[s] = "lost" => OwnFresh(s)
  /\ pc[s] = "won" => tracked[s] /\ ~Told(s)

HeldInv == \A s \in Sessions : Undisturbed(s) => HeldOf(s)

LEMMA OwnKeyType == TypeOK => \A s \in Sessions : CurrentKey(s) \in DedupKeys
BY DEF CurrentKey, DedupKeys, TypeOK

LEMMA MarkStays ==
  ASSUME TypeOK, ClosedInv, Claims!FlightInv, [Next]_vars, NEW s \in Sessions,
         text'[s] = text[s], CurrentKey(s) \notin raced',
         NEW w \in Int, w <= now, now <= w + Window, Marked(s, w)
  PROVE  Marked(s, w)'
<1>1. CurrentKey(s)' = CurrentKey(s) /\ CurrentKey(s) \in DedupKeys
  BY OwnKeyType DEF CurrentKey
<1>2. Claims!Exists(CurrentKey(s))' /\ mtime'[CurrentKey(s)] >= w
  BY <1>1, FreshStays DEF Marked
<1>3. Claims!Exists(CurrentKey(s))' <=> mtime'[CurrentKey(s)] # Claims!Absent
  BY <1>1 DEF Claims!Exists
<1> QED
  BY <1>1, <1>2, <1>3 DEF Marked, Claims!Exists

(* Appending to what was shown.                                             *)
LEMMA ShownGrows ==
  ASSUME NEW s \in Sessions, TypeOK,
         reply'[s].shown = IF result[s].decision = "block"
                           THEN Append(reply[s].shown, result[s].prompt)
                           ELSE reply[s].shown,
         NEW i \in DOMAIN reply'[s].shown
  PROVE  \/ i \in DOMAIN reply[s].shown /\ reply'[s].shown[i] = reply[s].shown[i]
         \/ result[s].decision = "block" /\ reply'[s].shown[i] = result[s].prompt
<1>1. /\ reply[s].shown \in Seq(Prompts \cup {NoPrompt})
      /\ result[s].prompt \in Prompts \cup {NoPrompt}
  BY DEF TypeOK, Reply, Results
<1> QED
  BY <1>1

LEMMA FreshMarkStays ==
  ASSUME TypeOK, ClosedInv, Claims!FlightInv, [Next]_vars, now' = now, NEW s \in Sessions,
         text'[s] = text[s], CurrentKey(s) \notin raced', OwnFresh(s)
  PROVE  OwnFresh(s)'
<1>1. now \in Nat /\ Window \in Nat
  BY TimesAssumption DEF TypeOK, Claims!TypeOK
<1>2. now - Window \in Int /\ now - Window <= now /\ now <= (now - Window) + Window
  BY <1>1
<1>3. Marked(s, now - Window)'
  BY <1>2, MarkStays DEF OwnFresh
<1> QED
  BY <1>3 DEF OwnFresh

LEMMA HeldKept ==
  ASSUME TypeOK, ClosedInv, Claims!FlightInv, TimersInv, [Next]_vars, now' = now,
         NEW s \in Sessions, CurrentKey(s) \notin raced', StaysAside(s), HeldOf(s)
  PROVE  HeldOf(s)'
<1>0. /\ now \in Nat /\ Window \in Nat /\ DeliverMax \in Nat /\ DeliverMax <= Window
      /\ since[s].wait \in Nat /\ since[s].wait <= now
      /\ phase[s] = "deliver" => now <= since[s].wait + DeliverMax
  BY TimesAssumption, WindowAssumption DEF TypeOK, Claims!TypeOK, TimersInv
<1>1. /\ text'[s] = text[s]
      /\ Told(s)' <=> Told(s)
      /\ Held(s)' <=> Held(s)
      /\ Shows(s)' <=> Shows(s)
  BY DEF StaysAside, Told, Held, Shows
<1>2. OwnFresh(s) => OwnFresh(s)'
  BY <1>1, FreshMarkStays
<1>3. Marked(s, now) => Marked(s, now)'
  BY <1>0, <1>1, MarkStays
<1>4. phase[s] = "deliver" /\ Marked(s, since[s].wait) => Marked(s, since[s].wait)'
  <2>1. SUFFICES ASSUME phase[s] = "deliver", Marked(s, since[s].wait)
                 PROVE  Marked(s, since[s].wait)'
    OBVIOUS
  <2>2. PICK w \in Int : w = since[s].wait
    BY <1>0
  <2>3. w <= now /\ now <= w + Window /\ Marked(s, w)
    BY <1>0, <2>1, <2>2
  <2>4. Marked(s, w)'
    BY <1>1, <2>3, MarkStays
  <2> QED
    BY <2>2, <2>4 DEF Marked, StaysAside
<1> QED
  BY <1>1, <1>2, <1>3, <1>4 DEF HeldOf, StaysAside

(* How one call of Claim moves on when the directory opens and files can be  *)
(* touched.                                                                 *)
LEMMA ClaimStepOwn ==
  ASSUME Faults \subseteq {"record", "reset"}, Claims!TypeOK, NEW s \in Sessions,
         Claims!ClaimStep(s)
  PROVE  \/ pc'[s] \in {"sweep", "unlink", "create", "stat"}
         \/ pc'[s] = "read" /\ Claims!Fresh(key[s])
         \/ /\ pc'[s] = "touch" /\ pc[s] = "read"
            /\ prior'[s] = body[key[s]] /\ body' = body
         \/ /\ pc'[s] = "lost" /\ pc[s] = "touch"
            /\ mtime'[key[s]] = now /\ prior' = prior /\ body' = body
         \/ pc'[s] = "takeover" /\ ~Claims!Fresh(key[s])
         \/ /\ pc'[s] = "won" /\ tracked'[s]
            /\ pc[s] = "takeover" \/ ~Claims!Exists(key[s])
<1> USE DEF Claims!TypeOK, Claims!Goto, Claims!files, Claims!history
<1>1. CASE \/ Claims!SweepConfirm(s) \/ Claims!SweepSpare(s) \/ Claims!SweepUnlink(s)
           \/ Claims!SweepDone(s) \/ Claims!ClaimExists(s)
  BY <1>1 DEF Claims!SweepConfirm, Claims!SweepSpare, Claims!SweepUnlink, Claims!SweepDone,
    Claims!ClaimExists
<1>2. CASE Claims!StatFresh(s) \/ Claims!StatStale(s)
  BY <1>2 DEF Claims!StatFresh, Claims!StatStale
<1>3. CASE Claims!ReadPrior(s) \/ Claims!TouchAndLose(s)
  BY <1>3 DEF Claims!ReadPrior, Claims!TouchAndLose
<1>4. CASE Claims!CreateClaim(s) \/ Claims!TakeOver(s)
  BY <1>4 DEF Claims!CreateClaim, Claims!TakeOver, Claims!Won
<1>5. CASE Claims!TakeOverUnreset(s)
  BY <1>5 DEF Claims!TakeOverUnreset, Claims!Won
<1>6. ~Claims!ClaimUnavailable(s)
  BY DEF Claims!ClaimUnavailable
<1> QED
  BY <1>1, <1>2, <1>3, <1>4, <1>5, <1>6 DEF Claims!ClaimStep, Claims!ClaimProceeds

(* How it ends.                                                             *)
LEMMA ConcludeOwn ==
  ASSUME Faults \subseteq {"record", "reset"}, TypeOK, NEW s \in Sessions, Conclude(s),
         cfg.dedup
  PROVE  \/ /\ pc[s] = "won" /\ mtime'[key[s]] = now
            /\ \/ "record" \in Faults
               \/ body' = [body EXCEPT ![key[s]] = ConclusionOf(result[s])]
         \/ pc[s] = "lost" /\ UNCHANGED <<mtime, body>>
         \/ pc[s] = "won" /\ ~tracked[s]
<1> USE DEF TypeOK, Claims!TypeOK
<1>1. CASE Claims!Finish(s, ConclusionOf(result[s]))
  BY <1>1 DEF Claims!Finish, Claims!SetBody
<1>2. CASE Claims!FinishNoop(s)
  BY <1>2 DEF Claims!FinishNoop, Claims!files
<1>3. CASE Claims!FinishUnrecorded(s)
  BY <1>3 DEF Claims!FinishUnrecorded
<1> QED
  BY <1>1, <1>2, <1>3 DEF Conclude

(* Within a submission, the text stays and a death is not forgotten.        *)
LEMMA OnlySubmitClears ==
  ASSUME TypeOK, NEW s \in Sessions, SessionStep(s), ~(\E t \in Texts : Submit(s, t)),
         ~reply'[s].died
  PROVE  text' = text /\ ~reply[s].died
<1>1. text' = text
  BY DEF SessionStep, HostStep, HookStep, StartHook, Collect, Decide, HookCrash, HostKill,
    LoseHook, Claiming, StartFlight, FlightDone, FlightDeadline, LoseClaim, Delivered, Emit,
    Conclude, hostVars
<1>2. \/ StartHook(s) \/ Collect(s) \/ Decide(s) \/ StartFlight(s) \/ HookCrash(s) \/ HostKill(s)
      \/ reply' = reply
  BY DEF SessionStep, HostStep, HookStep, Claiming, FlightDone, FlightDeadline, LoseClaim,
    Delivered, Emit, Conclude, hostVars
<1>3. reply'[s].died = reply[s].died \/ reply'[s].died = TRUE
  BY <1>2, ReplyEffects DEF Tallied, Tally, OneMore, Collected, Same, Died
<1> QED
  BY <1>1, <1>3

(***************************************************************************)
(* A step of the session itself.                                            *)
(***************************************************************************)
LEMMA HeldOwnStep ==
  ASSUME Faults \subseteq {"record", "reset"}, TypeOK, ClosedInv, PhaseInv,
         Claims!FlightInv, TimersInv, [Next]_vars,
         NEW s \in Sessions, SessionStep(s), Undisturbed(s) => HeldOf(s), Undisturbed(s)'
  PROVE  HeldOf(s)'
<1>0. /\ now \in Nat /\ Window \in Nat /\ Window > 0 /\ DeliverMax \in Nat
      /\ DeliverMax <= Window /\ phase \in [Sessions -> Phases]
      /\ pc \in [Sessions -> Claims!Labels]
      /\ since \in [Sessions -> [hook: Nat, wait: Nat]] /\ result \in [Sessions -> Results]
      /\ text \in [Sessions -> Texts] /\ reply[s].flights \in Nat /\ since[s].wait <= now
      /\ mtime \in [DedupKeys -> Claims!Time] /\ CurrentKey(s) \in DedupKeys
  BY TimesAssumption, WindowAssumption, OwnKeyType DEF TypeOK, Claims!TypeOK, TimersInv, Reply
<1>1. cfg' = cfg /\ now' = now /\ raced \subseteq raced' /\ cfg.dedup
  BY OthersStay DEF Undisturbed
<1>2. CASE \E t \in Texts : Submit(s, t)
  <2>1. PICK t \in Texts : Submit(s, t)
    BY <1>2
  <2>2. phase'[s] = "next" /\ phase[s] = "idle" /\ pc' = pc
    BY <1>0, <2>1 DEF Submit, GoTo, claimVars
  <2>3. reply'[s].flights = 0 /\ reply'[s].shown = <<>>
    BY <2>1, ReplyEffects DEF Tallied, Tally
  <2>4. pc'[s] = "idle"
    BY <1>1, <2>2 DEF PhaseInv
  <2>5. ~Held(s)'
    BY <2>3 DEF Held, Told
  <2> QED
    BY <2>2, <2>3, <2>4, <2>5 DEF HeldOf
<1>3. CASE text'[s] = text[s] /\ ~reply[s].died
  <2>1. /\ CurrentKey(s)' = CurrentKey(s) /\ CurrentKey(s) \notin raced'
        /\ HeldOf(s)
    BY <1>1, <1>3 DEF Undisturbed, CurrentKey
  <2>2. OwnFresh(s) => OwnFresh(s)'
    BY <1>1, <1>3, <2>1, FreshMarkStays
  (* A note that adds nothing to what was shown or enhanced.                *)
  <2>3. reply'[s].shown = reply[s].shown /\ reply'[s].flights = reply[s].flights
          => (Told(s)' <=> Told(s)) /\ (Held(s)' <=> Held(s))
    BY DEF Told, Held
  <2>4. CASE StartHook(s)
    <3>1. phase[s] = "next" /\ pc[s] = "idle"
      BY <2>4 DEF StartHook, PhaseInv
    <3>2. reply' = reply
      BY <1>1, <2>4 DEF StartHook
    <3>3. \/ phase'[s] = "next" /\ pc'[s] = "idle"
          \/ phase'[s] = "exit" /\ pc'[s] = "idle" /\ result'[s] = Block(NoPrompt)
          \/ phase'[s] = "claim" /\ pc'[s] = "sweep"
      BY <1>0, <1>1, <2>4, <3>1
      DEF StartHook, GoTo, Produce, Claims!BeginClaim, Claims!Goto, claimVars
    <3>4. result'[s] = Block(NoPrompt) => ~Shows(s)'
      BY DEF Shows, Block
    <3> QED
      BY <2>1, <2>2, <2>3, <3>1, <3>2, <3>3, <3>4 DEF HeldOf
  <2>5. CASE Claiming(s)
    <3>1. phase[s] = "claim" /\ UNCHANGED <<phase, since, result, reply>> /\ Claims!ClaimStep(s)
      BY <2>5 DEF Claiming, hostVars
    <3>2. key[s] = CurrentKey(s)
      BY <1>1, <3>1 DEF ClosedInv, OwnKey, Running
    <3>3. Claims!Fresh(key[s]) <=> OwnFresh(s)
      <4>1. mtime[CurrentKey(s)] # Claims!Absent => mtime[CurrentKey(s)] \in Nat
        BY <1>0 DEF Claims!Time
      <4> QED
        BY <1>0, <3>2, <4>1 DEF Claims!Fresh, OwnFresh, Marked, Claims!Exists
    <3>4. OwnFresh(s) => Claims!Exists(key[s])
      BY <3>2 DEF OwnFresh, Marked
    <3>5. mtime'[key[s]] = now => Marked(s, now)'
      BY <1>0, <1>1, <2>1, <3>2 DEF Marked, Claims!Exists, Claims!Absent
    <3>6. Told(s) => Held(s)
      BY DEF Held
    <3> HIDE DEF Claims!Fresh, OwnFresh, Marked
    <3>7. \/ pc'[s] \in {"sweep", "unlink", "create", "stat"}
          \/ pc'[s] = "read" /\ OwnFresh(s)
          \/ pc'[s] = "touch" /\ pc[s] = "read"
          \/ pc'[s] = "lost" /\ Marked(s, now)'
          \/ pc'[s] = "takeover" /\ ~OwnFresh(s)
          \/ /\ pc'[s] = "won" /\ tracked'[s]
             /\ pc[s] = "takeover" \/ ~OwnFresh(s)
      BY <3>1, <3>3, <3>4, <3>5, ClaimStepOwn DEF TypeOK
    <3> QED
      BY <1>1, <2>1, <2>2, <2>3, <3>1, <3>6, <3>7 DEF HeldOf
  <2>6. CASE StartFlight(s)
    <3>1. phase[s] = "claim" /\ pc[s] = "won" /\ phase'[s] = "flight" /\ UNCHANGED <<pc, tracked>>
      BY <1>0, <2>6 DEF StartFlight, GoTo, claimVars
    <3>2. reply'[s].shown = reply[s].shown /\ reply'[s].flights = reply[s].flights + 1
      BY <2>6, ReplyEffects DEF Tallied, Tally, OneMore
    <3>3. reply[s].flights = 0 /\ (Told(s)' <=> Told(s))
      BY <1>0, <2>1, <3>1, <3>2 DEF HeldOf, Held, Told
    <3> QED
      BY <1>0, <2>1, <3>1, <3>2, <3>3 DEF HeldOf
  (* The end of a flight.                                                   *)
  <2>7. CASE FlightDone(s) \/ FlightDeadline(s)
    <3>1. phase[s] = "flight" /\ UNCHANGED <<pc, tracked, reply>>
      BY <2>7 DEF FlightDone, FlightDeadline, claimVars
    <3>2. phase'[s] \in {"deliver", "emit"}
      BY <1>0, <2>7 DEF FlightDone, FlightDeadline, Handoff, GoTo
    <3>3. pc[s] = "won"
      BY <1>1, <3>1 DEF PhaseInv
    <3> QED
      BY <2>1, <2>3, <3>1, <3>2, <3>3 DEF HeldOf
  <2>8. CASE LoseClaim(s)
    <3>1. phase[s] = "claim" /\ pc[s] = "lost" /\ UNCHANGED <<pc, mtime, reply>>
          /\ Handoff(s, LossResult(s))
      BY <2>8 DEF LoseClaim, claimVars
    <3>2. \/ phase'[s] = "deliver" /\ since'[s].wait = now
          \/ phase'[s] = "emit"
      BY <1>0, <3>1 DEF Handoff, GoTo, StartWait
    <3>3. Marked(s, now) /\ Claims!Exists(CurrentKey(s)) /\ mtime[CurrentKey(s)] \in Nat
      BY <1>0, <2>1, <3>1 DEF HeldOf, Marked, Claims!Exists, Claims!Time
    <3>4. OwnFresh(s)
      BY <1>0, <3>3 DEF OwnFresh, Marked
    <3>5. since'[s].wait = now => Marked(s, since[s].wait)'
      BY <2>1, <3>1, <3>3 DEF Marked, Claims!Exists
    <3> QED
      BY <2>1, <2>2, <2>3, <3>1, <3>2, <3>4, <3>5 DEF HeldOf
  <2>9. CASE Delivered(s)
    <3>1. phase[s] = "deliver" /\ phase'[s] = "emit" /\ UNCHANGED <<claimVars, reply>>
      BY <1>0, <2>9 DEF Delivered, GoTo
    <3>2. pc[s] = "lost" => OwnFresh(s)
      <4>1. SUFFICES ASSUME pc[s] = "lost" PROVE OwnFresh(s)
        OBVIOUS
      <4>2. Marked(s, since[s].wait) /\ now <= since[s].wait + DeliverMax
        BY <2>1, <3>1, <4>1 DEF HeldOf, TimersInv
      <4>3. mtime[CurrentKey(s)] \in Nat /\ since[s].wait \in Nat
        BY <1>0, <4>2 DEF Marked, Claims!Exists, Claims!Time
      <4> QED
        BY <1>0, <4>2, <4>3 DEF OwnFresh, Marked
    <3> QED
      BY <2>1, <2>2, <2>3, <3>1, <3>2 DEF HeldOf, claimVars
  <2>10. CASE Emit(s)
    <3>1. phase[s] = "emit" /\ phase'[s] = "conclude" /\ UNCHANGED <<claimVars, reply>>
      BY <1>0, <2>10 DEF Emit, GoTo
    <3> QED
      BY <2>1, <2>2, <2>3, <3>1 DEF HeldOf, claimVars
  <2>11. CASE Conclude(s)
    <3>1. phase[s] = "conclude" /\ phase'[s] = "exit" /\ reply' = reply
      BY <1>0, <2>11 DEF Conclude, GoTo
    <3>2. pc'[s] = "idle"
      BY <1>0, <1>1, <2>11
      DEF Conclude, Claims!Finish, Claims!FinishUnrecorded, Claims!FinishNoop, Claims!Return,
          Claims!Goto
    <3>3. key[s] = CurrentKey(s)
      BY <1>1, <3>1 DEF ClosedInv, OwnKey, Running
    <3>4. mtime'[key[s]] = now => OwnFresh(s)'
      BY <1>0, <1>1, <2>1, <3>3 DEF OwnFresh, Marked, Claims!Exists, Claims!Absent
    <3>5. pc[s] = "lost" \/ mtime'[key[s]] = now
      BY <1>1, <2>1, <2>11, ConcludeOwn DEF HeldOf
    <3>6. OwnFresh(s)'
      BY <2>1, <2>2, <3>1, <3>4, <3>5 DEF HeldOf
    <3> QED
      BY <2>1, <2>3, <3>1, <3>2, <3>6 DEF HeldOf
  <2>12. CASE Collect(s)
    <3>1. phase[s] = "exit" /\ phase'[s] = "next" /\ pc' = pc
      BY <1>0, <2>12 DEF Collect, GoTo, claimVars
    <3>2. pc'[s] = "idle"
      BY <1>1, <3>1 DEF PhaseInv
    <3>3. Tally(reply'[s]) = Collected(s)
      BY <2>12, ReplyEffects DEF Tallied
    <3>4. /\ reply'[s].flights = reply[s].flights
          /\ reply'[s].shown = IF result[s].decision = "block"
                               THEN Append(reply[s].shown, result[s].prompt)
                               ELSE reply[s].shown
      BY <3>3 DEF Tally, Collected
    <3>5. Told(s)' => Told(s) \/ Shows(s)
      BY <3>4, ShownGrows DEF Told, Shows
    <3>6. Held(s)' => OwnFresh(s)
      BY <2>1, <3>1, <3>4, <3>5 DEF HeldOf, Held
    <3> QED
      BY <2>1, <2>2, <3>1, <3>2, <3>4, <3>6 DEF HeldOf
  <2>13. CASE Decide(s)
    <3>1. phase[s] = "next" /\ phase'[s] = "idle" /\ pc' = pc
      BY <1>0, <2>13 DEF Decide, GoTo, claimVars
    <3>2. pc'[s] = "idle"
      BY <1>1, <3>1 DEF PhaseInv
    <3>3. reply'[s].flights = reply[s].flights
      BY <2>13, ReplyEffects DEF Tallied, Tally, Same
    <3> QED
      BY <2>1, <3>1, <3>2, <3>3 DEF HeldOf
  <2>14. CASE HookCrash(s) \/ HostKill(s)
    <3>1. reply'[s].died
      BY <2>14, ReplyEffects DEF Tallied, Tally, Died
    <3> QED
      BY <3>1 DEF Undisturbed
  <2> QED
    BY <2>4, <2>5, <2>6, <2>7, <2>8, <2>9, <2>10, <2>11, <2>12, <2>13, <2>14, <1>2
    DEF SessionStep, HostStep, HookStep
<1>4. ASSUME ~(\E t \in Texts : Submit(s, t)) PROVE text'[s] = text[s] /\ ~reply[s].died
  <2>1. ~reply'[s].died
    BY DEF Undisturbed
  <2> QED
    BY <1>4, <2>1, OnlySubmitClears
<1> QED
  BY <1>2, <1>3, <1>4

LEMMA HeldInvStep ==
  ASSUME Faults \subseteq {"record", "reset"}
  PROVE  TypeOK /\ ClosedInv /\ PhaseInv /\ Claims!FlightInv /\ TimersInv /\ HeldInv /\ [Next]_vars
           => HeldInv'
<1> SUFFICES ASSUME TypeOK, ClosedInv, PhaseInv, Claims!FlightInv, TimersInv, HeldInv,
                    [Next]_vars, NEW s \in Sessions, Undisturbed(s)'
             PROVE  HeldOf(s)'
  BY DEF HeldInv
<1>1. Undisturbed(s) => HeldOf(s)
  BY DEF HeldInv
<1>2. CASE SessionStep(s)
  BY <1>1, <1>2, HeldOwnStep
<1>3. ASSUME NEW q \in Sessions \ {s}, SessionStep(q) PROVE HeldOf(s)'
  <2>1. cfg' = cfg /\ now' = now /\ raced \subseteq raced' /\ StaysAside(s)
    BY <1>3, OthersStay
  <2>2. Undisturbed(s) /\ CurrentKey(s) \notin raced'
    BY <2>1 DEF Undisturbed, StaysAside, CurrentKey
  <2> QED
    BY <1>1, <2>1, <2>2, HeldKept
<1>4. CASE Tick \/ UNCHANGED vars
  <2>1. UNCHANGED <<hostVars, mtime, pc, tracked, raced>>
    BY <1>4 DEF Tick, Claims!Tick, Claims!files, Claims!history, vars, claimVars
  <2>2. HeldOf(s)
    BY <1>1, <2>1 DEF Undisturbed, CurrentKey, hostVars
  <2>3. Tick => phase[s] \in {"idle", "flight", "deliver"}
    BY DEF Tick, Waiting
  <2>4. CASE UNCHANGED vars
    BY <2>2, <2>4 DEF HeldOf, Held, Told, Shows, OwnFresh, Marked, Claims!Exists, CurrentKey, vars,
      claimVars, hostVars
  <2>5. CASE Tick
    BY <2>1, <2>2, <2>3, <2>5 DEF HeldOf, Held, Told, Shows, Marked, Claims!Exists,
      CurrentKey, hostVars
  <2> QED
    BY <1>4, <2>4, <2>5
<1> QED
  BY <1>2, <1>3, <1>4, NextMoves

LEMMA HeldInvHolds ==
  ASSUME Faults \subseteq {"record", "reset"}
  PROVE  Spec => []HeldInv
<1>1. Init => HeldInv
  BY DEF Init, Claims!Init, HeldInv, HeldOf, Held, Told, NoReply
<1>2. TypeOK /\ ClosedInv /\ PhaseInv /\ Claims!FlightInv /\ TimersInv /\ HeldInv /\ [Next]_vars
        => HeldInv'
  BY HeldInvStep
<1> QED
  BY <1>1, <1>2, TypesHold, ClosedInvInit, ClosedInvStep, PhaseInvHolds, ClaimsFlightInv,
     TimersInvHolds, PTL DEF Spec

(***************************************************************************)
(* One submission costs one flight at most, and carries one injection at    *)
(* most (hookdedup.go:7-18, devin_hook.go:135), as long as no hook of it    *)
(* dies, no sweep races with its claim, the claim directory opens and its   *)
(* files can be touched; conclusions may fail to be written or cleared.     *)
(***************************************************************************)
THEOREM SubmissionHolds ==
  ASSUME Faults \subseteq {"record", "reset"}
  PROVE  Spec => []SubmissionInv
<1>1. TypeOK /\ HeldInv /\ FlightsInv => SubmissionInv
  <2> SUFFICES ASSUME TypeOK, HeldInv, FlightsInv, NEW s \in Sessions, Undisturbed(s)
               PROVE  reply[s].flights <= 1 /\ reply[s].injections <= 1
    BY DEF SubmissionInv, OneFlightPerSubmission, OneInjection
  <2>1. reply[s].flights \in Nat /\ reply[s].injections \in Nat
    BY DEF TypeOK, Reply
  <2>2. reply[s].flights <= 1
    BY DEF HeldInv, HeldOf
  <2>3. reply[s].injections + Injecting(s) <= reply[s].flights /\ Injecting(s) \in {0, 1}
    BY DEF FlightsInv, Injecting
  <2> QED
    BY <2>1, <2>2, <2>3
<1> QED
  BY <1>1, TypesHold, HeldInvHolds, FlightsInvHolds, PTL

-----------------------------------------------------------------------------
(***************************************************************************)
(* The claim shows the prompt that the host has shown.                      *)
(***************************************************************************)
BodyShows(s) ==
  LET c == body[CurrentKey(s)] IN
  c # NoConclusion /\ c.outcome = "block" /\ c.prompt # NoPrompt

ShownOf(s) ==
  /\ Told(s) /\ phase[s] # "idle" => BodyShows(s)
  /\ phase[s] = "claim" /\ pc[s] \in {"touch", "lost"} => prior[s] = body[CurrentKey(s)]
  /\ Told(s) /\ phase[s] \in {"deliver", "emit", "conclude", "exit"} => Shows(s)
  /\ phase[s] \in {"deliver", "emit", "conclude"} /\ pc[s] = "lost" /\ Shows(s) => BodyShows(s)
  /\ phase[s] = "exit" /\ Shows(s) => BodyShows(s)
  /\ Told(s) => reply[s].shown[Len(reply[s].shown)] # NoPrompt

ShownInv == \A s \in Identified : Undisturbed(s) => ShownOf(s)

(* The claim's body matters to session s: then the claim is fresh.          *)
Relies(s) ==
  \/ Told(s) /\ phase[s] # "idle"
  \/ phase[s] = "claim" /\ pc[s] \in {"touch", "lost"}
  \/ phase[s] \in {"deliver", "emit", "conclude"} /\ pc[s] = "lost"
  \/ phase[s] = "exit" /\ Shows(s)

LEMMA ReliesOnFresh ==
  ASSUME TypeOK, PhaseInv, TimersInv, NEW s \in Sessions, cfg.dedup, HeldOf(s), Relies(s)
  PROVE  \E w \in Int : w <= now /\ now <= w + Window /\ Marked(s, w)
<1>0. /\ now \in Nat /\ Window \in Nat /\ DeliverMax \in Nat /\ DeliverMax <= Window
      /\ since[s].wait \in Nat /\ since[s].wait <= now /\ phase[s] \in Phases
      /\ phase[s] = "deliver" => now <= since[s].wait + DeliverMax
  BY TimesAssumption, WindowAssumption DEF TypeOK, Claims!TypeOK, TimersInv
<1>1. CASE OwnFresh(s)
  <2>1. now - Window \in Int /\ now - Window <= now /\ now <= (now - Window) + Window
    BY <1>0
  <2> QED
    BY <1>1, <2>1 DEF OwnFresh
<1>2. CASE Marked(s, now)
  <2>1. now \in Int /\ now <= now /\ now <= now + Window
    BY <1>0
  <2> QED
    BY <1>2, <2>1
<1>3. CASE phase[s] = "deliver" /\ Marked(s, since[s].wait)
  <2>1. since[s].wait \in Int /\ now <= since[s].wait + Window
    BY <1>0, <1>3
  <2> QED
    BY <1>0, <1>3, <2>1
<1>4. Told(s) /\ phase[s] # "idle" =>
        \/ phase[s] \in {"next", "claim", "exit"} /\ Held(s)
        \/ phase[s] \in {"deliver", "emit", "conclude"} /\ pc[s] = "lost"
  BY <1>0 DEF Held, HeldOf, PhaseInv, Phases
<1> QED
  BY <1>1, <1>2, <1>3, <1>4 DEF Relies, HeldOf

(* What a step does to the body of a claim that stays.                      *)
LEMMA BodyMoves ==
  ASSUME Claims!TypeOK, NEW p \in Sessions, Claims!ClaimStep(p), NEW k \in DedupKeys
  PROVE  \/ body'[k] = body[k]
         \/ key[p] = k /\ pc[p] = "takeover"
         \/ mtime'[k] = Claims!Absent
<1> USE DEF Claims!TypeOK, Claims!files, Claims!SetBody
<1>1. CASE Claims!SweepUnlink(p)
  <2>1. PICK v \in victim[p] :
          /\ mtime' = [mtime EXCEPT ![v.key] = Claims!Absent]
          /\ body' = [body EXCEPT ![v.key] = NoConclusion]
    BY <1>1 DEF Claims!SweepUnlink
  <2> QED
    BY <2>1
<1>2. CASE Claims!TakeOver(p)
  BY <1>2 DEF Claims!TakeOver
<1>3. CASE ~Claims!SweepUnlink(p) /\ ~Claims!TakeOver(p)
  BY <1>3 DEF Claims!ClaimStep, Claims!ClaimProceeds, Claims!SweepConfirm, Claims!SweepSpare,
    Claims!SweepDone, Claims!CreateClaim, Claims!ClaimExists, Claims!StatFresh,
    Claims!StatStale, Claims!ReadPrior, Claims!TouchAndLose, Claims!TakeOverUnreset,
    Claims!ClaimUnavailable
<1> QED
  BY <1>1, <1>2, <1>3

(* An identified session's key is its own.                                  *)
LEMMA KeyIsOwn ==
  ASSUME NEW s \in Identified, NEW q \in Sessions, DedupKey(q, text[q]) = CurrentKey(s)
  PROVE  q = s
BY DEF CurrentKey, DedupKey

LEMMA BodyStays ==
  ASSUME TypeOK, ClosedInv, Claims!FlightInv, [Next]_vars, NEW s \in Identified,
         text'[s] = text[s], CurrentKey(s) \notin raced',
         \E w \in Int : w <= now /\ now <= w + Window /\ Marked(s, w),
         NEW q \in Sessions \ {s}, SessionStep(q)
  PROVE  body'[CurrentKey(s)] = body[CurrentKey(s)]
<1>1. s \in Sessions /\ CurrentKey(s) \in DedupKeys /\ CurrentKey(s)' = CurrentKey(s)
  BY SessionsAssumption, OwnKeyType DEF CurrentKey
<1>2. mtime'[CurrentKey(s)] # Claims!Absent
  BY <1>1, FreshStays DEF Marked, Claims!Exists
<1>3. CASE body' = body
  BY <1>3
<1>4. ASSUME phase[q] \in Running, cfg.dedup PROVE key[q] # CurrentKey(s)
  BY <1>4, KeyIsOwn DEF ClosedInv, OwnKey, CurrentKey
<1>5. CASE Claiming(q)
  <2>1. phase[q] = "claim" /\ Claims!ClaimStep(q) /\ cfg.dedup
    BY <1>5 DEF Claiming, ClosedInv, ClaimPhase
  <2> QED
    BY <1>1, <1>2, <1>4, <2>1, BodyMoves DEF TypeOK, Running
<1>6. CASE Conclude(q)
  <2>1. /\ phase[q] = "conclude"
        /\ \/ body' = body
           \/ cfg.dedup /\ body' = [body EXCEPT ![key[q]] = ConclusionOf(result[q])]
    BY <1>6 DEF Conclude, Claims!Finish, Claims!FinishUnrecorded, Claims!FinishNoop,
      Claims!SetBody, Claims!files, claimVars
  <2> QED
    BY <1>1, <1>4, <2>1 DEF Running, TypeOK, Claims!TypeOK
<1>7. CASE \/ \E t \in Texts : Submit(q, t)
           \/ HostStep(q) \/ StartFlight(q) \/ FlightDone(q) \/ FlightDeadline(q) \/ LoseClaim(q)
           \/ Delivered(q) \/ Emit(q) \/ HookCrash(q) \/ HostKill(q)
  BY <1>7 DEF Submit, HostStep, StartHook, Collect, Decide, StartFlight, FlightDone,
    FlightDeadline, LoseClaim, Delivered, Emit, HookCrash, HostKill, LoseHook, Claims!BeginClaim,
    Claims!Crash, Claims!files, claimVars
<1> QED
  BY <1>5, <1>6, <1>7 DEF SessionStep, HookStep

LEMMA ShownKept ==
  ASSUME NEW s \in Sessions, StaysAside(s), ShownOf(s),
         Relies(s) => body'[CurrentKey(s)] = body[CurrentKey(s)]
  PROVE  ShownOf(s)'
<1>1. CurrentKey(s)' = CurrentKey(s)
  BY DEF StaysAside, CurrentKey
<1>2. (Told(s)' <=> Told(s)) /\ (Shows(s)' <=> Shows(s))
  BY DEF StaysAside, Told, Shows
<1>3. Relies(s) => (BodyShows(s)' <=> BodyShows(s))
  BY <1>1 DEF BodyShows
<1> QED
  BY <1>1, <1>2, <1>3 DEF ShownOf, Relies, StaysAside

LEMMA ShownOwnStep ==
  ASSUME Faults \subseteq {"reset"}, TypeOK, ClosedInv, PhaseInv, PromptsInv,
         Claims!FlightInv, TimersInv, [Next]_vars, NEW s \in Identified, SessionStep(s),
         Undisturbed(s) => HeldOf(s) /\ ShownOf(s), Undisturbed(s)'
  PROVE  ShownOf(s)'
<1>0. /\ s \in Sessions /\ phase \in [Sessions -> Phases] /\ result \in [Sessions -> Results]
      /\ pc \in [Sessions -> Claims!Labels] /\ CurrentKey(s) \in DedupKeys
      /\ body \in [DedupKeys -> Conclusions \cup {NoConclusion}]
  BY SessionsAssumption, OwnKeyType DEF TypeOK, ClosedInv, HostTypeOK, Claims!TypeOK
<1>1. cfg' = cfg /\ now' = now /\ raced \subseteq raced' /\ cfg.dedup /\ ~reply'[s].died
  BY <1>0, OthersStay DEF Undisturbed
<1>2. CASE \E t \in Texts : Submit(s, t)
  <2>1. PICK t \in Texts : Submit(s, t)
    BY <1>2
  <2>2. phase'[s] = "next" /\ reply'[s].shown = <<>>
    BY <1>0, <2>1, ReplyEffects DEF Submit, GoTo, Tallied, Tally
  <2>3. ~Told(s)'
    BY <2>2 DEF Told
  <2> QED
    BY <2>2, <2>3 DEF ShownOf
<1>3. CASE text' = text /\ ~reply[s].died
  <2>1. /\ CurrentKey(s)' = CurrentKey(s) /\ CurrentKey(s) \notin raced'
        /\ HeldOf(s) /\ ShownOf(s)
    BY <1>0, <1>1, <1>3 DEF Undisturbed, CurrentKey
  <2>2. body'[CurrentKey(s)] = body[CurrentKey(s)] => (BodyShows(s)' <=> BodyShows(s))
    BY <2>1 DEF BodyShows
  <2>3. reply'[s].shown = reply[s].shown => (Told(s)' <=> Told(s))
    BY DEF Told
  <2>4. CASE StartHook(s)
    <3>1. phase[s] = "next" /\ body' = body /\ reply' = reply
      BY <1>1, <2>4 DEF StartHook, Claims!BeginClaim, Claims!files, claimVars
    <3>2. \/ phase'[s] = "next"
          \/ phase'[s] = "exit" /\ result'[s] = Block(NoPrompt) /\ ~cfg.provider
          \/ phase'[s] = "claim" /\ pc'[s] = "sweep"
      BY <1>0, <1>1, <2>4 DEF StartHook, GoTo, Produce, Claims!BeginClaim, Claims!Goto
    <3>3. result'[s] = Block(NoPrompt) => ~Shows(s)'
      BY DEF Shows, Block
    <3>4. Told(s) => cfg.provider
      BY <1>0 DEF Told, PromptsInv, OfKey
    <3> QED
      BY <2>1, <2>2, <2>3, <3>1, <3>2, <3>3, <3>4 DEF ShownOf
  <2>5. CASE Claiming(s)
    <3>1. /\ phase[s] = "claim" /\ UNCHANGED <<phase, since, result, reply>>
          /\ Claims!ClaimStep(s)
      BY <2>5 DEF Claiming, hostVars
    <3>2. key[s] = CurrentKey(s)
      BY <1>0, <1>1, <3>1 DEF ClosedInv, OwnKey, Running
    <3>3. Told(s) => body'[CurrentKey(s)] = body[CurrentKey(s)]
      <4>1. SUFFICES ASSUME Told(s) PROVE body'[CurrentKey(s)] = body[CurrentKey(s)]
        OBVIOUS
      <4>2. Relies(s)
        BY <3>1, <4>1 DEF Relies
      <4>3. \E w \in Int : w <= now /\ now <= w + Window /\ Marked(s, w)
        BY <1>0, <1>1, <2>1, <4>2, ReliesOnFresh
      <4>4. mtime'[CurrentKey(s)] # Claims!Absent
        BY <1>0, <2>1, <4>3, FreshStays DEF Marked, Claims!Exists
      <4>5. pc[s] # "takeover"
        BY <2>1, <3>1, <4>1 DEF HeldOf, Held
      <4> QED
        BY <1>0, <3>1, <4>4, <4>5, BodyMoves DEF TypeOK
    <3>4. pc'[s] \in {"touch", "lost"} => prior'[s] = body'[CurrentKey(s)]
      <4>1. CASE pc'[s] = "touch"
        BY <1>0, <3>1, <3>2, <4>1, ClaimStepOwn DEF TypeOK
      <4>2. CASE pc'[s] = "lost"
        <5>1. pc[s] = "touch" /\ prior' = prior /\ body' = body
          BY <1>0, <3>1, <4>2, ClaimStepOwn DEF TypeOK
        <5> QED
          BY <2>1, <3>1, <5>1 DEF ShownOf
      <4> QED
        BY <4>1, <4>2
    <3> QED
      BY <2>1, <2>2, <2>3, <3>1, <3>3, <3>4 DEF ShownOf
  <2>6. CASE StartFlight(s)
    <3>1. phase[s] = "claim" /\ pc[s] = "won" /\ phase'[s] = "flight"
      BY <1>0, <2>6 DEF StartFlight, GoTo
    <3>2. reply'[s].shown = reply[s].shown
      BY <1>0, <2>6, ReplyEffects DEF Tallied, Tally, OneMore
    <3>3. ~Told(s)'
      BY <2>1, <2>3, <3>1, <3>2 DEF HeldOf
    <3> QED
      BY <3>1, <3>3 DEF ShownOf
  <2>7. CASE FlightDone(s) \/ FlightDeadline(s)
    <3>1. phase[s] = "flight" /\ UNCHANGED <<claimVars, reply>>
      BY <2>7 DEF FlightDone, FlightDeadline
    <3>2. phase'[s] \in {"deliver", "emit"}
      BY <1>0, <2>7 DEF FlightDone, FlightDeadline, Handoff, GoTo
    <3>3. pc'[s] = "won"
      BY <1>0, <1>1, <3>1 DEF PhaseInv, claimVars
    <3>4. ~Told(s)'
      BY <2>1, <2>3, <3>1, <3>3 DEF HeldOf, claimVars
    <3> QED
      BY <3>2, <3>3, <3>4 DEF ShownOf
  <2>8. CASE LoseClaim(s)
    <3>1. /\ phase[s] = "claim" /\ pc[s] = "lost" /\ Handoff(s, LossResult(s))
          /\ UNCHANGED <<claimVars, reply>>
      BY <2>8 DEF LoseClaim
    <3>2. phase'[s] \in {"deliver", "emit"} /\ result'[s] = LossResult(s)
      BY <1>0, <3>1 DEF Handoff, GoTo, Produce
    <3>3. prior[s] = body[CurrentKey(s)]
      BY <2>1, <3>1 DEF ShownOf
    <3>4. Shows(s)' <=> BodyShows(s)
      <4>1. Shows(s)' <=> LossResult(s).decision = "block" /\ LossResult(s).prompt # NoPrompt
        BY <3>2 DEF Shows
      <4>2. CASE prior[s] = NoConclusion
        BY <3>3, <4>1, <4>2 DEF LossResult, Failure, Block, Skip, BodyShows
      <4>3. CASE prior[s] # NoConclusion
        BY <3>3, <4>1, <4>3 DEF LossResult, Block, Skip, BodyShows
      <4> QED
        BY <4>2, <4>3
    <3>5. (Told(s)' <=> Told(s)) /\ (BodyShows(s)' <=> BodyShows(s))
      BY <2>2, <2>3, <3>1 DEF claimVars
    <3> QED
      BY <2>1, <3>1, <3>2, <3>4, <3>5 DEF ShownOf
  <2>9. CASE Delivered(s) \/ Emit(s)
    <3>1. /\ phase[s] \in {"deliver", "emit"} /\ phase'[s] \in {"emit", "conclude"}
          /\ UNCHANGED <<claimVars, reply, result>>
      BY <1>0, <2>9 DEF Delivered, Emit, GoTo
    <3>2. /\ Told(s)' <=> Told(s)
          /\ BodyShows(s)' <=> BodyShows(s)
          /\ Shows(s)' <=> Shows(s)
      BY <2>2, <2>3, <3>1 DEF claimVars, Shows
    <3> QED
      BY <2>1, <3>1, <3>2 DEF ShownOf, claimVars
  <2>10. CASE Conclude(s)
    <3>1. phase[s] = "conclude" /\ phase'[s] = "exit" /\ UNCHANGED <<reply, result>>
      BY <1>0, <2>10 DEF Conclude, GoTo
    <3>2. key[s] = CurrentKey(s)
      BY <1>0, <1>1, <3>1 DEF ClosedInv, OwnKey, Running
    <3>3. (Told(s)' <=> Told(s)) /\ (Shows(s)' <=> Shows(s))
      BY <2>3, <3>1 DEF Shows
    <3>4. CASE pc[s] = "lost" /\ UNCHANGED body
      BY <2>1, <2>2, <3>1, <3>3, <3>4 DEF ShownOf
    <3>5. CASE pc[s] = "won" /\ body' = [body EXCEPT ![key[s]] = ConclusionOf(result[s])]
      <4>1. ~Told(s)
        BY <2>1, <3>5 DEF HeldOf
      <4>2. Shows(s) => BodyShows(s)'
        <5>1. SUFFICES ASSUME Shows(s) PROVE BodyShows(s)'
          OBVIOUS
        <5>2. body'[CurrentKey(s)] = ConclusionOf(result[s])
          BY <1>0, <3>2, <3>5
        <5>3. ConclusionOf(result[s]) = [outcome |-> "block", prompt |-> result[s].prompt]
          BY <5>1 DEF ConclusionOf, Shows
        <5>4. [outcome |-> "block", prompt |-> result[s].prompt] # NoConclusion
          BY <1>0, NoConclusionAssumption DEF Conclusions, Results
        <5> QED
          BY <2>1, <5>1, <5>2, <5>3, <5>4 DEF BodyShows, Shows
      <4> QED
        BY <3>1, <3>3, <4>1, <4>2 DEF ShownOf
    <3> QED
      BY <1>0, <1>1, <2>1, <2>10, <3>4, <3>5, ConcludeOwn DEF HeldOf
  <2>11. CASE Collect(s)
    <3>1. phase[s] = "exit" /\ phase'[s] = "next" /\ body' = body
      BY <1>0, <2>11 DEF Collect, GoTo, claimVars, Claims!files
    <3>2. Tally(reply'[s]) = Collected(s)
      BY <1>0, <2>11, ReplyEffects DEF Tallied
    <3>3. reply'[s].shown = IF result[s].decision = "block"
                            THEN Append(reply[s].shown, result[s].prompt)
                            ELSE reply[s].shown
      BY <3>2 DEF Tally, Collected
    <3>4. Told(s)' => Told(s) \/ Shows(s)
      BY <1>0, <3>3, ShownGrows DEF Told, Shows
    <3>5. Told(s)' => BodyShows(s)'
      BY <2>1, <2>2, <3>1, <3>4 DEF ShownOf
    <3>6. Told(s)' => reply'[s].shown[Len(reply'[s].shown)] # NoPrompt
      <4>1. reply[s].shown \in Seq(Prompts \cup {NoPrompt})
            /\ result[s].prompt \in Prompts \cup {NoPrompt}
        BY <1>0 DEF TypeOK, Reply, Results
      <4>2. CASE result[s].decision = "block"
        <5>1. reply'[s].shown[Len(reply'[s].shown)] = result[s].prompt
          BY <3>3, <4>1, <4>2
        <5>2. Told(s) => Shows(s)
          BY <2>1, <3>1 DEF ShownOf
        <5> QED
          BY <3>4, <5>1, <5>2 DEF Shows
      <4>3. CASE result[s].decision # "block"
        BY <2>1, <2>3, <3>3, <4>3 DEF ShownOf
      <4> QED
        BY <4>2, <4>3
    <3> QED
      BY <3>1, <3>5, <3>6 DEF ShownOf
  <2>12. CASE Decide(s)
    <3>1. phase'[s] = "idle"
      BY <1>0, <2>12 DEF Decide, GoTo
    <3>2. reply'[s].shown = reply[s].shown
      BY <1>0, <2>12, ReplyEffects DEF Tallied, Tally, Same
    <3> QED
      BY <2>1, <2>3, <3>1, <3>2 DEF ShownOf
  <2>13. ~HookCrash(s) /\ ~HostKill(s)
    BY <1>0, <1>1, ReplyEffects DEF Tallied, Tally, Died
  <2> QED
    BY <1>2, <2>4, <2>5, <2>6, <2>7, <2>8, <2>9, <2>10, <2>11, <2>12, <2>13
    DEF SessionStep, HostStep, HookStep
<1>4. ASSUME ~(\E t \in Texts : Submit(s, t)) PROVE text' = text /\ ~reply[s].died
  BY <1>0, <1>1, <1>4, OnlySubmitClears
<1> QED
  BY <1>2, <1>3, <1>4

LEMMA ShownInvStep ==
  ASSUME Faults \subseteq {"reset"}
  PROVE  TypeOK /\ ClosedInv /\ PhaseInv /\ PromptsInv /\ Claims!FlightInv /\ TimersInv
           /\ HeldInv /\ ShownInv /\ [Next]_vars
           => ShownInv'
<1> SUFFICES ASSUME TypeOK, ClosedInv, PhaseInv, PromptsInv, Claims!FlightInv, TimersInv,
                    HeldInv, ShownInv, [Next]_vars, NEW s \in Identified, Undisturbed(s)'
             PROVE  ShownOf(s)'
  BY DEF ShownInv
<1>0. s \in Sessions
  BY SessionsAssumption
<1>1. Undisturbed(s) => HeldOf(s) /\ ShownOf(s)
  BY <1>0 DEF HeldInv, ShownInv
<1>2. CASE SessionStep(s)
  BY <1>1, <1>2, ShownOwnStep
<1>3. ASSUME NEW q \in Sessions \ {s}, SessionStep(q) PROVE ShownOf(s)'
  <2>1. cfg' = cfg /\ now' = now /\ raced \subseteq raced' /\ StaysAside(s)
    BY <1>0, <1>3, OthersStay
  <2>2. Undisturbed(s) /\ CurrentKey(s) \notin raced' /\ cfg.dedup /\ text'[s] = text[s]
    BY <2>1 DEF Undisturbed, StaysAside, CurrentKey
  <2>3. Relies(s) => body'[CurrentKey(s)] = body[CurrentKey(s)]
    <3>1. Relies(s) => \E w \in Int : w <= now /\ now <= w + Window /\ Marked(s, w)
      BY <1>0, <1>1, <2>2, ReliesOnFresh
    <3> QED
      BY <1>3, <2>2, <3>1, BodyStays
  <2> QED
    BY <1>0, <1>1, <2>1, <2>2, <2>3, ShownKept
<1>4. CASE Tick \/ UNCHANGED vars
  <2>1. UNCHANGED <<hostVars, body, pc, prior, raced>>
    BY <1>4 DEF Tick, Claims!Tick, Claims!files, Claims!history, vars, claimVars
  <2>2. ShownOf(s)
    BY <1>1, <2>1 DEF Undisturbed, CurrentKey, hostVars
  <2> QED
    BY <2>1, <2>2 DEF ShownOf, Told, Shows, BodyShows, CurrentKey, hostVars
<1> QED
  BY <1>2, <1>3, <1>4, NextMoves

(***************************************************************************)
(* The last block reason, the one the host shows, carries the enhancement   *)
(* if any did (devin_hook.go:450-455): a hook that loses its claim replays  *)
(* the winner's prompt, as long as no hook of the submission dies, no sweep *)
(* races with its claim, and of the file operations at most the clearing of *)
(* an old conclusion fails.                                                 *)
(***************************************************************************)
THEOREM LastReasonHolds ==
  ASSUME Faults \subseteq {"reset"}
  PROVE  Spec => []LastReasonShowsPrompt
<1>1. Init => ShownInv
  BY SessionsAssumption DEF Init, Claims!Init, ShownInv, ShownOf, Told, NoReply
<1>2. TypeOK /\ ClosedInv /\ PhaseInv /\ PromptsInv /\ Claims!FlightInv /\ TimersInv
        /\ HeldInv /\ ShownInv /\ [Next]_vars
        => ShownInv'
  BY ShownInvStep
<1>3. TypeOK /\ PromptsInv /\ ShownInv => LastReasonShowsPrompt
  <2> SUFFICES ASSUME TypeOK, PromptsInv, ShownInv, NEW s \in Identified, Undisturbed(s),
                      NEW i \in DOMAIN reply[s].shown, reply[s].shown[i] # NoPrompt
               PROVE  reply[s].shown[Len(reply[s].shown)] = reply[s].shown[i]
    BY DEF LastReasonShowsPrompt
  <2>1. s \in Sessions /\ reply[s].shown \in Seq(Prompts \cup {NoPrompt})
    BY SessionsAssumption DEF TypeOK, Reply
  <2>2. Len(reply[s].shown) \in DOMAIN reply[s].shown
        /\ reply[s].shown[Len(reply[s].shown)] # NoPrompt
    BY <2>1 DEF ShownInv, ShownOf, Told
  <2>3. ASSUME NEW j \in DOMAIN reply[s].shown, reply[s].shown[j] # NoPrompt
        PROVE  reply[s].shown[j] = [session |-> s, text |-> text[s]]
    <3>1. reply[s].shown[j] \in Prompts
      BY <2>1, <2>3
    <3>2. DedupKey(reply[s].shown[j].session, reply[s].shown[j].text) = CurrentKey(s)
      BY <2>1, <2>3 DEF PromptsInv, OfKey
    <3>3. reply[s].shown[j].session = s /\ reply[s].shown[j].text = text[s]
      BY <2>1, <3>1, <3>2, KeyTellsPrompt
    <3> QED
      BY <3>1, <3>3 DEF Prompts
  <2> QED
    BY <2>2, <2>3
<1>4. Spec => []HeldInv
  BY HeldInvHolds
<1> QED
  BY <1>1, <1>2, <1>3, <1>4, TypesHold, ClosedInvInit, ClosedInvStep, PhaseInvHolds,
     PromptsInvHolds, ClaimsFlightInv, TimersInvHolds, PTL DEF Spec
=============================================================================
