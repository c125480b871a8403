------------------------------ MODULE DevinHook ------------------------------
(***************************************************************************)
(* One user prompt under the Devin CLI: the host runs every installed       *)
(* openPE hook in turn (its own, and the Claude and Windsurf ones it        *)
(* imports), each hook is a process that claims the prompt (HookDedup),     *)
(* enhances it or mirrors the winner, and exits with a block, an injection  *)
(* or nothing; the host then sends the prompt to the model unless a hook    *)
(* blocked it.  Sessions run in parallel and share the claim directory.     *)
(*                                                                         *)
(* A manual prompt starts with `pe`: its raw text must not reach the model. *)
(***************************************************************************)
EXTENDS Integers, FiniteSets, Sequences

CONSTANTS
  Sessions,     \* Devin sessions; each runs at most one hook process at a time
  Identified,   \* those whose session id discoverDevinSessionID finds
  Cwd,          \* Cwd[s]: project directory of session s
  Texts,        \* prompt texts
  Manual,       \* those with a `pe` trigger (manual.Parse)
  Chain,        \* the installed hooks in the host's order
  NoPrompt,     \* no enhanced prompt
  HostTimeout,  \* the host kills a hook that has run this long
  Margin,       \* hookDeadlineForTimeout's 5s
  DeliverMax,   \* what the clipboard may take: 2s of attempts, 0.5s WaitDelay
  Window, TTL, MaxFiles, Faults, MaxTime, NoConclusion  \* as in HookDedup

HookKind == [native: BOOLEAN, auto: BOOLEAN, scope: {"user", "project"}]

ASSUME ChainAssumption == Chain \in Seq(HookKind)
ASSUME SessionsAssumption == Identified \subseteq Sessions /\ Manual \subseteq Texts
ASSUME TimesAssumption ==
  {HostTimeout, Margin, DeliverMax, Window, TTL, MaxFiles, MaxTime} \subseteq Nat

(* defaultTimeout and pipeWaitDelay of the clipboard against DefaultWindow.  *)
ASSUME WindowAssumption == Window > 0 /\ DeliverMax <= Window

VARIABLES
  now, mtime, body, pc, key, prior, tracked, sweep, victim,  \* HookDedup
  lastMark, seenMark, wonAt, recordedAt, raced,
  cfg,      \* the user's configuration, fixed
  phase,    \* phase[s]: what the host, or its current hook process, does
  text,     \* text[s]: the submitted prompt
  step,     \* step[s]: index in Chain of the current hook
  since,    \* since[s]: when the hook started, its flight, its delivery
  result,   \* result[s]: what the hook is going to output
  reply     \* reply[s]: what the host has collected for this submission

(* Keys on which some hook has emitted an injection (history).              *)
VARIABLE injectedKeys

claimVars == <<now, mtime, body, pc, key, prior, tracked, sweep, victim, lastMark,
               seenMark, wonAt, recordedAt, raced>>
hostVars  == <<cfg, phase, text, step, since, result, reply, injectedKeys>>
vars      == <<claimVars, hostVars>>

(* Broken: the text of the prompt, or its session, is not in the key.       *)
DedupKeyOfSession(s, t)   == IF s \in Identified THEN <<"session", s>> ELSE <<"cwd", Cwd[s]>>
DedupKeyOfDirectory(s, t) == <<"cwd", Cwd[s], t>>

(* devinDedupKey: the session when it is known, else the directory.         *)
DedupKey(s, t) ==
  IF s \in Identified THEN <<"session", s, t>> ELSE <<"cwd", Cwd[s], t>>

DedupKeys == {DedupKey(s, t) : s \in Sessions, t \in Texts}

(* A claim file is named by a digest of its key.                             *)
ASSUME KeysAssumption == IsFiniteSet(DedupKeys)

(* An enhanced prompt is known by the flight that produced it.              *)
Prompts     == [session: Sessions, text: Texts]
Conclusions == [outcome: {"block", "inject"}, prompt: Prompts \cup {NoPrompt}]

ASSUME NoConclusionAssumption == NoConclusion \notin Conclusions

ASSUME FaultsAssumption == Faults \subseteq {"open", "record", "reset", "touch"}

Claims == INSTANCE HookDedup WITH Procs <- Sessions, Keys <- DedupKeys

Decisions == {"block", "inject", "skip"}
Results   == [decision: Decisions, prompt: Prompts \cup {NoPrompt}]

Block(p) == [decision |-> "block", prompt |-> p]
Inject(p) == [decision |-> "inject", prompt |-> p]
Skip     == [decision |-> "skip", prompt |-> NoPrompt]

Phases == {"idle", "next", "claim", "flight", "deliver", "emit", "conclude", "exit"}

Reply == [blocked: BOOLEAN, shown: Seq(Prompts \cup {NoPrompt}), injections: Nat,
          answered: BOOLEAN, flights: Nat, died: BOOLEAN, killed: BOOLEAN,
          verdict: {"none", "blocked", "sent"}]

NoReply == [blocked |-> FALSE, shown |-> <<>>, injections |-> 0, answered |-> FALSE,
            flights |-> 0, died |-> FALSE, killed |-> FALSE, verdict |-> "none"]

TypeOK ==
  /\ Claims!TypeOK
  /\ cfg \in [dedup: BOOLEAN, inject: BOOLEAN, provider: BOOLEAN]
  /\ phase \in [Sessions -> Phases]
  /\ text \in [Sessions -> Texts]
  /\ step \in [Sessions -> Nat]
  /\ since \in [Sessions -> [hook: Nat, wait: Nat]]
  /\ result \in [Sessions -> Results]
  /\ reply \in [Sessions -> Reply]
  /\ injectedKeys \in SUBSET DedupKeys

Init ==
  /\ Claims!Init
  /\ cfg \in [dedup: BOOLEAN, inject: BOOLEAN, provider: BOOLEAN]
  /\ phase = [s \in Sessions |-> "idle"]
  /\ text \in [Sessions -> Texts]
  /\ step = [s \in Sessions |-> 0]
  /\ since = [s \in Sessions |-> [hook |-> 0, wait |-> 0]]
  /\ result = [s \in Sessions |-> Skip]
  /\ reply = [s \in Sessions |-> NoReply]
  /\ injectedKeys = {}
-----------------------------------------------------------------------------
(* Broken: the flight may last as long as the host waits, or longer.        *)
DeadlineOfHost == HostTimeout
DeadlinePast   == HostTimeout + Margin

(* hookDeadlineForTimeout.                                                  *)
Deadline ==
  IF HostTimeout <= Margin THEN (HostTimeout * 4) \div 5 ELSE HostTimeout - Margin

Hook(s)        == Chain[step[s]]
IsManual(s)    == text[s] \in Manual
InjectMode(s)  == cfg.inject \/ (Hook(s).native /\ Hook(s).auto)

(* HasUserOpenPEHookConfig makes a project-scope hook redundant.            *)
Suppressed(h) ==
  /\ h.native /\ h.scope = "project"
  /\ \E i \in 1..Len(Chain) : Chain[i].native /\ Chain[i].scope = "user"

(* ShouldHandleHook: only the Devin hook has an auto mode.                  *)
Handles(h, s) ==
  /\ IsManual(s) \/ (h.native /\ h.auto)
  /\ ~Suppressed(h)

(* HookError.                                                               *)
Failure(s) == IF IsManual(s) THEN Block(NoPrompt) ELSE Skip

GoTo(s, ph) == phase' = [phase EXCEPT ![s] = ph]
Produce(s, r) == result' = [result EXCEPT ![s] = r]
Note(s, r) == reply' = [reply EXCEPT ![s] = r]
StartWait(s) == since' = [since EXCEPT ![s].wait = now]

ConclusionOfOutcome(r) ==
  IF r.decision = "skip" THEN NoConclusion
  ELSE [outcome |-> r.decision, prompt |-> NoPrompt]

ConclusionOf(r) ==
  IF r.decision = "skip" THEN NoConclusion
  ELSE [outcome |-> r.decision,
        prompt  |-> IF r.decision = "block" THEN r.prompt ELSE NoPrompt]

-----------------------------------------------------------------------------
(* The host.                                                                *)

Submit(s, t) ==
  /\ phase[s] = "idle"
  /\ now + HostTimeout * Len(Chain) <= MaxTime
  /\ text' = [text EXCEPT ![s] = t]
  /\ step' = [step EXCEPT ![s] = 0]
  /\ Note(s, NoReply)
  /\ GoTo(s, "next")
  /\ UNCHANGED <<claimVars, cfg, since, result, injectedKeys>>

(* The hook process starts; it may have nothing to do with this prompt, or  *)
(* fail before it claims: an imported hook builds its provider first.       *)
StartHook(s) ==
  LET h == Chain[step[s] + 1] IN
  /\ phase[s] = "next"
  /\ step[s] < Len(Chain)
  /\ step' = [step EXCEPT ![s] = @ + 1]
  /\ since' = [since EXCEPT ![s] = [hook |-> now, wait |-> now]]
  /\ \/ /\ ~Handles(h, s)
        /\ GoTo(s, "next")
        /\ UNCHANGED <<claimVars, result, reply>>
     \/ /\ Handles(h, s) /\ ~h.native /\ ~cfg.provider
        /\ Produce(s, Block(NoPrompt))
        /\ GoTo(s, "exit")
        /\ UNCHANGED <<claimVars, reply>>
     \/ /\ Handles(h, s) /\ (h.native \/ cfg.provider)
        /\ IF cfg.dedup
           THEN /\ Claims!BeginClaim(s, DedupKey(s, text[s]))
                /\ GoTo(s, "claim")
                /\ UNCHANGED reply
           ELSE /\ GoTo(s, "flight")
                /\ Note(s, [reply[s] EXCEPT !.flights = @ + 1])
                /\ UNCHANGED claimVars
        /\ UNCHANGED result
  /\ UNCHANGED <<cfg, text, injectedKeys>>

(* The host reads the output of a hook that exited.                         *)
Collect(s) ==
  LET r == result[s] IN
  /\ phase[s] = "exit"
  /\ Note(s, [reply[s] EXCEPT
       !.answered = TRUE,
       !.blocked = @ \/ r.decision = "block",
       !.shown = IF r.decision = "block" THEN Append(@, r.prompt) ELSE @,
       !.injections = IF r.decision = "inject" THEN @ + 1 ELSE @])
  /\ GoTo(s, "next")
  /\ Produce(s, Skip)
  /\ UNCHANGED <<claimVars, cfg, text, step, since, injectedKeys>>

(* A block from any hook holds the prompt back; otherwise it is sent.       *)
Decide(s) ==
  /\ phase[s] = "next"
  /\ step[s] = Len(Chain)
  /\ Note(s, [reply[s] EXCEPT !.verdict = IF reply[s].blocked THEN "blocked"
                                          ELSE "sent"])
  /\ GoTo(s, "idle")
  /\ UNCHANGED <<claimVars, cfg, text, step, since, result, injectedKeys>>

(* The process goes away before it exits: nothing of its output is used.    *)
LoseHook(s) ==
  /\ phase[s] \in {"claim", "flight", "deliver", "emit", "conclude"}
  /\ GoTo(s, "next")
  /\ Produce(s, Skip)
  /\ IF cfg.dedup THEN Claims!Crash(s) ELSE UNCHANGED claimVars
  /\ UNCHANGED <<cfg, text, step, since, injectedKeys>>

HookCrash(s) ==
  /\ LoseHook(s)
  /\ Note(s, [reply[s] EXCEPT !.died = TRUE])

HostKill(s) ==
  /\ now >= since[s].hook + HostTimeout
  /\ LoseHook(s)
  /\ Note(s, [reply[s] EXCEPT !.died = TRUE, !.killed = TRUE])
-----------------------------------------------------------------------------
(* The hook process: runDevinHookRun and renderDevinHook.                   *)

Claiming(s) ==
  /\ phase[s] = "claim"
  /\ Claims!ClaimStep(s)
  /\ UNCHANGED hostVars

StartFlight(s) ==
  /\ phase[s] = "claim"
  /\ pc[s] = "won"
  /\ GoTo(s, "flight")
  /\ StartWait(s)
  /\ Note(s, [reply[s] EXCEPT !.flights = @ + 1])
  /\ UNCHANGED <<claimVars, cfg, text, step, result, injectedKeys>>

(* What a flight can come back with before its deadline.                    *)
FlightResults(s) ==
  LET enhanced == [session |-> s, text |-> text[s]] IN
  IF ~cfg.provider THEN {Failure(s)}
  ELSE {Failure(s), IF InjectMode(s) THEN Inject(enhanced) ELSE Block(enhanced)}

(* deliverDevinBlock only has something to do for a block with a prompt.    *)
Handoff(s, r) ==
  /\ Produce(s, r)
  /\ IF r.decision = "block" /\ r.prompt # NoPrompt
     THEN GoTo(s, "deliver") /\ StartWait(s)
     ELSE GoTo(s, "emit") /\ UNCHANGED since

FlightDone(s) ==
  /\ phase[s] = "flight"
  /\ \E r \in FlightResults(s) : Handoff(s, r)
  /\ UNCHANGED <<claimVars, cfg, text, step, reply, injectedKeys>>

(* runDevinFlightWithDeadline abandons the flight.                          *)
FlightDeadline(s) ==
  /\ phase[s] = "flight"
  /\ now >= since[s].wait + Deadline
  /\ Produce(s, Failure(s))
  /\ GoTo(s, "emit")
  /\ UNCHANGED <<claimVars, cfg, text, step, since, reply, injectedKeys>>

(* Broken: a loser keeps silent when its winner left no conclusion.         *)
LossResultSilent(s) ==
  IF prior[s] = NoConclusion THEN Skip
  ELSE IF prior[s].outcome = "block" THEN Block(prior[s].prompt) ELSE Skip

(* handleDevinDedupLoss: replay a block, skip after an injection, and block *)
(* a manual prompt whose winner left no conclusion.                         *)
LossResult(s) ==
  IF prior[s] = NoConclusion THEN Failure(s)
  ELSE IF prior[s].outcome = "block" THEN Block(prior[s].prompt) ELSE Skip

LoseClaim(s) ==
  /\ phase[s] = "claim"
  /\ pc[s] = "lost"
  /\ Handoff(s, LossResult(s))
  /\ UNCHANGED <<claimVars, cfg, text, step, reply, injectedKeys>>

Delivered(s) ==
  /\ phase[s] = "deliver"
  /\ GoTo(s, "emit")
  /\ UNCHANGED <<claimVars, cfg, text, step, since, result, reply, injectedKeys>>

(* The output is written; the conclusion is recorded after it (defer).      *)
Emit(s) ==
  /\ phase[s] = "emit"
  /\ injectedKeys' = IF result[s].decision = "inject"
                     THEN injectedKeys \cup {DedupKey(s, text[s])}
                     ELSE injectedKeys
  /\ GoTo(s, "conclude")
  /\ UNCHANGED <<claimVars, cfg, text, step, since, result, reply>>

Conclude(s) ==
  /\ phase[s] = "conclude"
  /\ IF cfg.dedup
     THEN \/ Claims!Finish(s, ConclusionOf(result[s]))
          \/ Claims!FinishUnrecorded(s)
          \/ Claims!FinishNoop(s)
     ELSE UNCHANGED claimVars
  /\ GoTo(s, "exit")
  /\ UNCHANGED <<cfg, text, step, since, result, reply, injectedKeys>>

(* Time passes only while every process waits: for the model, for the       *)
(* clipboard, or for the user.  No wait outlives the timer that bounds it.  *)
Waiting(s) ==
  \/ phase[s] = "idle"
  \/ /\ phase[s] = "flight"
     /\ now < since[s].wait + Deadline
     /\ now < since[s].hook + HostTimeout
  \/ /\ phase[s] = "deliver"
     /\ now < since[s].wait + DeliverMax
     /\ now < since[s].hook + HostTimeout

Tick ==
  /\ \A s \in Sessions : Waiting(s)
  /\ Claims!Tick
  /\ UNCHANGED hostVars

HookStep(s) ==
  \/ Claiming(s) \/ StartFlight(s) \/ FlightDone(s) \/ FlightDeadline(s)
  \/ LoseClaim(s) \/ Delivered(s) \/ Emit(s) \/ Conclude(s)

HostStep(s) == StartHook(s) \/ Collect(s) \/ Decide(s)

Next ==
  \/ \E s \in Sessions :
       \/ \E t \in Texts : Submit(s, t)
       \/ HostStep(s) \/ HookStep(s) \/ HookCrash(s) \/ HostKill(s)
  \/ Tick

Spec == Init /\ [][Next]_vars

Proceeding(s) == Claiming(s) /\ Claims!ClaimProceeds(s)

(***************************************************************************)
(* The host keeps running its hooks, a hook process keeps running, and time *)
(* passes even if a user resubmits without end in no time (hence SF).       *)
(* Nothing is assumed of the model: a flight need not come back.            *)
(***************************************************************************)
Progress(s) ==
  \/ Proceeding(s) \/ StartFlight(s) \/ FlightDeadline(s) \/ LoseClaim(s)
  \/ Delivered(s) \/ Emit(s) \/ Conclude(s)

FairSpec ==
  /\ Spec
  /\ SF_vars(Tick)
  /\ \A s \in Sessions : WF_vars(HostStep(s)) /\ WF_vars(Progress(s))
-----------------------------------------------------------------------------
CurrentKey(s) == DedupKey(s, text[s])

(* Nothing disturbed the submission's hooks or its claim file.              *)
Undisturbed(s) ==
  /\ cfg.dedup
  /\ ~reply[s].died
  /\ CurrentKey(s) \notin raced

(***************************************************************************)
(* Fail closed (devin_hook.go:220-226, 438-448): a manual prompt goes to    *)
(* the model without an injection only if no hook lived to answer, or an    *)
(* injection was emitted for the very same text and session.                *)
(***************************************************************************)
FailClosed ==
  \A s \in Sessions :
    reply[s].verdict = "sent" /\ IsManual(s) /\ reply[s].injections = 0
      => ~reply[s].answered \/ CurrentKey(s) \in injectedKeys

(***************************************************************************)
(* One submission is enhanced at most once (hookdedup.go:7-18) and carries  *)
(* at most one injection (devin_hook.go:135).                               *)
(***************************************************************************)
OneFlightPerSubmission ==
  \A s \in Sessions : Undisturbed(s) => reply[s].flights <= 1

OneInjection ==
  \A s \in Sessions : Undisturbed(s) => reply[s].injections <= 1

(* What a submission may cost, in well-typed states.                        *)
SubmissionInv == TypeOK /\ OneFlightPerSubmission /\ OneInjection

(***************************************************************************)
(* The host shows the last block reason, so the last one must carry the     *)
(* enhancement if any did (devin_hook.go:450-455).                          *)
(***************************************************************************)
LastReasonShowsPrompt ==
  \A s \in Identified :
    Undisturbed(s) =>
      \A i \in DOMAIN reply[s].shown :
        reply[s].shown[i] # NoPrompt =>
          reply[s].shown[Len(reply[s].shown)] = reply[s].shown[i]

(***************************************************************************)
(* What a hook outputs, and what the host has shown of it, never carries    *)
(* the enhancement of another text, nor of another session                  *)
(* (devin_hook.go:394-399, 445-448); an injection is always of the session's *)
(* own flight.  Only sessions without an identity, told apart by their      *)
(* directory alone, may be shown each other's.                              *)
(***************************************************************************)
FitsSession(p, s) ==
  p # NoPrompt =>
    /\ p.text = text[s]
    /\ \/ p.session = s
       \/ {s, p.session} \cap Identified = {} /\ Cwd[p.session] = Cwd[s]

NoForeignPrompt ==
  \A s \in Sessions :
    /\ FitsSession(result[s].prompt, s)
    /\ \A i \in DOMAIN reply[s].shown : FitsSession(reply[s].shown[i], s)
    /\ result[s].decision = "inject" =>
         result[s].prompt = [session |-> s, text |-> text[s]]

(* Every submission gets its verdict, whatever the model does.              *)
EverySubmissionDecided ==
  \A s \in Sessions : phase[s] = "next" ~> phase[s] = "idle"

(***************************************************************************)
(* devin_hook.go:76-80: the deadline expires before the host does.          *)
(***************************************************************************)
NeverKilledByHost == \A s \in Sessions : ~reply[s].killed
=============================================================================
