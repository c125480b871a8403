----------------------------- MODULE Enhancer -----------------------------
(***************************************************************************)
(* One enhancement: the configured service checks a request, asks the      *)
(* retrieval daemon with retries, lays the request out within its budget   *)
(* (the module Prompt), asks the provider, asks once more when the answer  *)
(* is in another language, and returns the text with its warnings.  Every  *)
(* call may fail, and the context of the request may end at any time.      *)
(***************************************************************************)
EXTENDS Prompt

CONSTANTS
  Cases,            \* a request together with the configuration of the service
  Texts,            \* what a provider may answer
  DirectiveLength,  \* of languageDirective
  RetryAfters,      \* delays the daemon may ask for, zero if it asks for none
  BaseDelay, MaxDelay, Jitter,
  None

Answer == [han : Nat, kana : Nat, hangul : Nat, latin : Nat, other : Nat,
           numbers : SUBSET Nat, actions : SUBSET STRING]

Request ==
  [prompt : Nat, target : Nat, rules : Nat, guidelines : Nat, files : Nat, retrieval : Nat,
   history : Seq([role : STRING, length : Nat, repeats : BOOLEAN]), budget : Int,
   style : Styles, provider : {"openai", "anthropic"}, configured : BOOLEAN,
   openace : BOOLEAN, cwd : BOOLEAN, found : Nat, retries : Nat, guard : BOOLEAN,
   reanchor : BOOLEAN, warnings : BOOLEAN, text : Answer, numbers : SUBSET Nat]

Response ==
  [kind : {"ok", "configuration", "validation", "retrieval", "budget", "provider"},
   text : Texts \cup {None},
   warnings : SUBSET {"context", "history", "language", "numbers", "actions"},
   used : SUBSET {"rules", "guidelines", "history", "context.files", "context.retrieval"}]

ASSUME EnhancerAssumption ==
  /\ DirectiveLength \in Nat /\ BaseDelay \in Nat /\ MaxDelay \in Nat /\ Jitter \in Nat
  /\ RetryAfters \subseteq Nat
  /\ Cases \subseteq Request /\ Texts \subseteq Answer
  /\ None \notin Texts /\ None \notin Response

VARIABLES
  case,     \* the request in work, with what was retrieved for it
  pc,
  alive,    \* the context of the request has not ended
  attempt,  \* calls of the daemon
  waited,   \* time slept between them
  sent,     \* requests given to the provider
  reply,    \* its first answer
  result

vars == <<case, pc, alive, attempt, waited, sent, reply, result>>

-----------------------------------------------------------------------------
\* classifyScript: a script must have twice the weight of all the others; a
\* character of CJK weighs two letters.
ClassifyScript(t) ==
  LET cjk == 2 * (t.hangul + t.kana + t.han)
  IN  IF cjk >= 2 * (t.latin + t.other)
      THEN IF t.hangul >= 2 THEN "korean" ELSE IF t.kana >= 2 THEN "japanese"
           ELSE IF t.han >= 2 THEN "chinese" ELSE "unknown"
      ELSE IF t.latin >= 6 /\ t.latin >= 2 * (cjk + t.other) THEN "latin"
      ELSE IF t.other >= 4 /\ t.other >= 2 * (cjk + t.latin) THEN "other"
      ELSE "unknown"

\* applyLanguageGuard speaks up when both texts have a script and they differ.
Mismatch(c, text) ==
  LET input == ClassifyScript(c.text)
      output == ClassifyScript(text)
  IN  c.guard /\ "unknown" \notin {input, output} /\ input # output

\* outOfContextNumbers: 0 and 1 are always allowed.
FabricatedNumbers(c, text) == text.numbers \ (c.numbers \cup {0, 1})

\* undecidedActions: only the prompt itself decides one.
UndecidedActions(c, text) == text.actions \ c.text.actions

\* detectContentWarnings.
ContentWarnings(c, text) ==
  IF ~c.warnings THEN {}
  ELSE (IF FabricatedNumbers(c, text) # {} THEN {"numbers"} ELSE {})
       \cup (IF UndecidedActions(c, text) # {} THEN {"actions"} ELSE {})

\* retryDelay before the jitter: what the daemon asks for, or the base, doubled
\* for every attempt before this one.
DelayBase(asked, n) ==
  LET doubled[k \in 0..n] == IF k = 0 THEN BaseDelay ELSE 2 * doubled[k - 1]
  IN  IF asked > 0 THEN asked
      ELSE IF MaxDelay > 0 THEN AtMost(MaxDelay, doubled[n]) ELSE doubled[n]

\* Jitter is added and the sum is capped; without a base there is no delay.
RetryDelays(asked, n) ==
  LET jitter == IF Jitter > 0 THEN 0..(Jitter - 1) ELSE {0}
      Cap(d) == IF MaxDelay > 0 THEN AtMost(MaxDelay, d) ELSE d
  IN  IF asked = 0 /\ BaseDelay = 0 THEN {0} ELSE {Cap(DelayBase(asked, n) + j) : j \in jitter}

-----------------------------------------------------------------------------
FullSize(c) == Size(LayoutOf(c, c.style, NoLimit))

\* No text is longer than an int counts.
ASSUME LengthAssumption ==
  \A c \in Cases : \A length \in {c.retrieval, 0, c.found} :
    FullSize([c EXCEPT !.retrieval = length]) <= MaxInt

Limit(c) == CharLimit(c.budget)
Fail(kind) == pc' = "done" /\ result' = [kind |-> kind, text |-> None, warnings |-> {}, used |-> {}]

\* The response: the checks look at the text that is returned.
Return(text, warnings) ==
  /\ pc' = "done"
  /\ result' = [kind |-> "ok", text |-> text, used |-> sent[1].used,
       warnings |-> sent[1].warnings \cup warnings \cup ContentWarnings(case, text)]

Init ==
  /\ case \in Cases
  /\ pc = "ready" /\ alive = TRUE /\ attempt = 0 /\ waited = 0
  /\ sent = <<>> /\ reply = None /\ result = None

\* NewEnhancerService and providers.New refuse a bad configuration; Enhance
\* refuses a blank prompt and a negative budget.
Start ==
  /\ pc = "ready"
  /\ IF ~case.configured THEN Fail("configuration")
     ELSE IF case.prompt = 0 \/ case.budget < 0 THEN Fail("validation")
     ELSE /\ pc' = IF case.openace /\ case.retrieval = 0 /\ case.cwd THEN "post" ELSE "build"
          /\ UNCHANGED result
  /\ UNCHANGED <<case, alive, attempt, waited, sent, reply>>

-----------------------------------------------------------------------------
\* openace.retrieve: the daemon answers with text or with none.
Retrieved ==
  /\ pc = "post" /\ alive
  /\ \E length \in {0, case.found} : case' = [case EXCEPT !.retrieval = length]
  /\ attempt' = attempt + 1 /\ pc' = "build"
  /\ UNCHANGED <<alive, waited, sent, reply, result>>

\* An error that will not go away, or the end of the context, ends it all.
RetrieveFails ==
  /\ pc = "post"
  /\ attempt' = attempt + 1 /\ Fail("retrieval")
  /\ UNCHANGED <<case, alive, waited, sent, reply>>

\* A transient one is tried again after a delay, up to the last attempt.
RetrieveTransient ==
  /\ pc = "post" /\ alive
  /\ attempt' = attempt + 1
  /\ IF attempt = case.retries
     THEN Fail("retrieval") /\ UNCHANGED waited
     ELSE /\ \E asked \in RetryAfters : \E d \in RetryDelays(asked, attempt) : waited' = waited + d
          /\ pc' = "sleep" /\ UNCHANGED result
  /\ UNCHANGED <<case, alive, sent, reply>>

\* The timer fires, or the context ends first.
Sleep ==
  /\ pc = "sleep"
  /\ IF alive THEN pc' = "post" /\ UNCHANGED result ELSE Fail("retrieval")
  /\ UNCHANGED <<case, alive, attempt, waited, sent, reply>>

-----------------------------------------------------------------------------
\* The request is laid out; one whose required parts are over the budget fails.
Build ==
  /\ pc = "build"
  /\ \E layout \in {LayoutOf(case, case.style, Limit(case))} :
       IF Limit(case) >= 0 /\ Size(layout) > Limit(case)
       THEN Fail("budget") /\ UNCHANGED sent
       ELSE sent' = << layout >> /\ pc' = "complete" /\ UNCHANGED result
  /\ UNCHANGED <<case, alive, attempt, waited, reply>>

\* applyLanguageGuard up to its second request, which differs from the first in
\* the directive at the end of its system prompt.
Guard(text) ==
  IF Mismatch(case, text) /\ case.reanchor
  THEN /\ sent' = Append(sent, [sent[1] EXCEPT !.system = @ + DirectiveLength])
       /\ pc' = "reanchor" /\ UNCHANGED result
  ELSE Return(text, IF Mismatch(case, text) THEN {"language"} ELSE {}) /\ UNCHANGED sent

Complete ==
  /\ pc = "complete" /\ alive
  /\ \E text \in Texts : reply' = text /\ Guard(text)
  /\ UNCHANGED <<case, alive, attempt, waited>>

\* No answer, an error status, an answer without text or the end of the context.
CompleteFails ==
  /\ pc = "complete"
  /\ Fail("provider")
  /\ UNCHANGED <<case, alive, attempt, waited, sent, reply>>

\* Broken: the second answer is taken whatever its script.
TakeSecond ==
  /\ pc = "reanchor" /\ alive
  /\ \E text \in Texts : Return(text, {})
  /\ UNCHANGED <<case, alive, attempt, waited, sent, reply>>

\* The second answer replaces the first only if it is in the user's script.
Reanchor ==
  /\ pc = "reanchor" /\ alive
  /\ \E text \in Texts :
       IF ClassifyScript(text) = ClassifyScript(case.text)
       THEN Return(text, {}) ELSE Return(reply, {"language"})
  /\ UNCHANGED <<case, alive, attempt, waited, sent, reply>>

ReanchorFails ==
  /\ pc = "reanchor"
  /\ Return(reply, {"language"})
  /\ UNCHANGED <<case, alive, attempt, waited, sent, reply>>

\* The host's deadline, the handler's timeout or a client that hangs up.
ContextEnds ==
  /\ alive /\ pc # "done"
  /\ alive' = FALSE
  /\ UNCHANGED <<case, pc, attempt, waited, sent, reply, result>>

Step ==
  \/ Start \/ Retrieved \/ RetrieveFails \/ RetrieveTransient \/ Sleep \/ Build
  \/ Complete \/ CompleteFails \/ Reanchor \/ ReanchorFails
Finished == pc = "done" /\ UNCHANGED vars

Next == Step \/ ContextEnds \/ Finished

Spec == Init /\ [][Next]_vars
-----------------------------------------------------------------------------
Exact(c) == c.budget * CharsPerToken

\* Type correctness.
TypeOK ==
  /\ pc \in {"ready", "post", "sleep", "build", "complete", "reanchor", "done"}
  /\ alive \in BOOLEAN /\ attempt \in Nat /\ waited \in Nat
  /\ Len(sent) \in 0..2
  /\ reply \in Texts \cup {None}
  /\ pc = "done" <=> result # None

\* The first request is within the budget, in every style and for budgets no
\* multiplication can represent: system prompt, task, references and history
\* share it (service.go:323, prompt.go:16).
FirstRequestInBudget ==
  case.budget > 0 /\ sent # <<>> => Size(sent[1]) <= Exact(case)

\* Nothing is cut or refused that the budget has room for: a request that would
\* fit as a whole is sent as a whole (prompt.go:31, prompt.go:190).
NothingCutNeedlessly ==
  case.budget > 0 /\ FullSize(case) <= Exact(case) =>
    /\ sent # <<>> => Size(sent[1]) = FullSize(case)
    /\ result # None => result.kind # "budget"

\* What the budget does cut is reported to the user (service.go:339,
\* prompt.go:283).
CutsAreReported ==
  result # None /\ result.kind = "ok" /\ Size(sent[1]) < FullSize(case) =>
    result.warnings \cap {"context", "history"} # {}

\* used_context names exactly the optional context in the request, after every
\* cut (service.go:342, prompt.go:290).
UsedContextIsTrue ==
  result # None /\ result.kind = "ok" =>
    result.used = UsedContexts(UNION {m.parts : m \in ToSet(sent[1].messages)})

\* What goes over the wire is what the provider accepts and ends with the whole
\* task, in the retry too: Anthropic wants a user first and roles in turn
\* (anthropic/client.go:153).
TaskReachesProvider ==
  \A n \in DOMAIN sent :
    LET wire == Wire(case.provider, sent[n].messages)
    IN  /\ Last(wire).role = "user"
        /\ {"original_prompt", "final_instruction"} \subseteq Last(wire).parts
        /\ case.provider = "anthropic" =>
             /\ wire[1].role = "user"
             /\ \A k \in 1..(Len(wire) - 1) : wire[k].role # wire[k + 1].role

\* The text that is returned is in the user's script, or says that it is not, or
\* one of the two has no clear script; a guard never fails a request and never
\* swaps one wrong text for another (language_guard.go:147).
LanguageKeptOrReported ==
  result # None /\ reply # None =>
    /\ result.kind = "ok"
    /\ "language" \in result.warnings <=> Mismatch(case, result.text)
    /\ result.text # reply => ClassifyScript(result.text) = ClassifyScript(case.text)

\* The warnings are about the text the user gets, also after a second request,
\* and about what the user said, not what the history says
\* (content_warnings.go:44).
WarningsMatchReturnedText ==
  result # None /\ result.kind = "ok" /\ case.warnings =>
    /\ "actions" \in result.warnings <=> ~(result.text.actions \subseteq case.text.actions)
    /\ "numbers" \in result.warnings <=> ~(result.text.numbers \subseteq case.numbers \cup {0, 1})

\* A daemon that keeps failing, and asks for any delay, holds a request up for
\* the configured attempts and delays and no longer (openace/client.go:201).
RetriesBounded ==
  /\ attempt <= case.retries + 1
  /\ MaxDelay > 0 => waited <= case.retries * MaxDelay

\* The request that is sent first, and the retries before it, keep their limits
\* and use what room there is.
RequestInv == TypeOK /\ FirstRequestInBudget /\ NothingCutNeedlessly /\ RetriesBounded

\* Everything the response says about the request and the text is so.
ReportsAreTrue == CutsAreReported /\ UsedContextIsTrue /\ WarningsMatchReturnedText
=============================================================================
