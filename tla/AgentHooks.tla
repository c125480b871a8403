---------------------------- MODULE AgentHooks ----------------------------
(***************************************************************************)
(* The hook processes of Codex, Claude and Windsurf: one run reads the     *)
(* submitted prompt, loads the specs the user named, asks the enhancer,    *)
(* saves the result in the client's cache, copies it to the clipboard and  *)
(* tells the host to hold the original back or to add context to it.       *)
(* Runs of several sessions share the caches and the clipboard and take no *)
(* lock.  Under Devin the Claude and Windsurf runs go the way of the       *)
(* module DevinHook instead.                                               *)
(***************************************************************************)
EXTENDS Integers, Sequences, FiniteSets

CONSTANTS
  Runs,       \* hook processes
  Cases,      \* what a process finds: prompt, command line and configuration
  Specs,      \* names of specs the user may ask for
  Machines,   \* what the clipboard of the machine does
  MaxFaults,  \* bound on files that cannot be written and outputs that are lost
  None

Clients == {"codex", "claude", "windsurf"}
Prompts == {"unreadable", "otherEvent", "blank", "plain", "trigger", "task"}

ASSUME HooksAssumption ==
  /\ MaxFaults \in Nat
  /\ \A c \in Cases : /\ c.agent \in Clients /\ c.prompt \in Prompts
                      /\ c.names \in Seq(Specs) /\ c.fallback \in BOOLEAN

ASSUME MachinesAssumption ==
  \A m \in Machines : m.candidates \in Seq(STRING) /\ m.osc52 \in BOOLEAN

\* None stands for a value that is missing, and is not one.
ASSUME NoneAssumption ==
  /\ None \notin Cases /\ None \notin Seq(Specs) /\ None \notin Clients \cup {"block"}
  /\ None \notin [of : Runs, specs : Seq(Specs)] /\ None \notin [ok : BOOLEAN, t : Nat]
  /\ None \notin [exit : Int, decision : {None, "block"},
                context : [of : Runs, specs : Seq(Specs)] \cup {None},
                says : [copied : BOOLEAN, cached : BOOLEAN, fallback : BOOLEAN]]

VARIABLES
  specs,     \* the spec directory: what reading each name gives
  userHook,  \* the user's Codex configuration holds an openPE hook
  knownHook,    \* ... and held one when the host read it, at the start of its session
  run,       \* the state of every process
  cache,     \* last prompt and last preview of every client
  clipboard,
  mixed,     \* clients whose last two saves overlapped or failed halfway
  faults

vars == <<specs, userHook, knownHook, run, cache, clipboard, mixed, faults>>

-----------------------------------------------------------------------------
\* manual.Parse: `pe`, `pe <task>` and `pe+a+b <task>` are triggers.
Manual(c) == c.prompt \in {"trigger", "task"}

\* Only Codex has --auto, which takes every prompt that is not blank.
ShouldHandleHook(c) ==
  \/ Manual(c)
  \/ c.agent = "codex" /\ c.auto /\ c.prompt = "plain"

\* Broken: only the dotenv file tells a project's hook.
SkipByDotenvOnly(c) ==
  c.agent = "codex" /\ userHook /\ c.scope = "" /\ c.projectEnv

\* A project hook of Codex leaves the prompt to the user's hook if there is one;
\* a hook without a scope is a project's when its dotenv file is.
ShouldSkipDuplicateHook(c) ==
  /\ c.agent = "codex" /\ userHook
  /\ c.scope = "project" \/ (c.scope = "" /\ c.projectEnv)

\* specs.Load: all of the named specs in order, or nothing when one fails.
LoadSpecs(names) ==
  IF \A n \in DOMAIN names : specs[names[n]] = "text" THEN names ELSE None

\* specs.Append: the text of a run is its enhancement and the specs after it.
AppendSpecs(r, texts) == [of |-> r, specs |-> texts]

-----------------------------------------------------------------------------
\* What a process leaves: its exit code, the decision in its JSON, the context
\* it adds, and what its message says of the clipboard and the cache.
Nothing == [copied |-> FALSE, cached |-> FALSE, fallback |-> FALSE]
Exit(code) == [exit |-> code, decision |-> None, context |-> None, says |-> Nothing]
PassOn == Exit(0)
Lost == Exit(-1)   \* the host never gets what the process wrote
Block(says) == [Exit(0) EXCEPT !.decision = "block", !.says = says]
AdditionalContext(text) == [Exit(0) EXCEPT !.context = text]

\* Codex reports an error in its JSON: it blocks a prompt the user marked and
\* lets one go that only --auto took.
HookError(c) == IF Manual(c) THEN Block(Nothing) ELSE PassOn

\* --block-output=stderr turns a decision to block into exit code 2; an unknown
\* value is an error, which blocks as well.
EmitCodex(c, out) ==
  IF out.decision # "block" THEN out
  ELSE CASE c.blockOutput = "json"   -> out
         [] c.blockOutput = "stderr" -> [Exit(2) EXCEPT !.says = out.says]
         [] OTHER                    -> Block(Nothing)

\* Broken: the error is printed and the exit code is that of success.
FailOpenEarly(c) == IF c.agent = "codex" THEN HookError(c) ELSE Exit(0)

\* A run that fails before the adapter is asked: Claude and Windsurf exit with 2.
FailEarly(c) == IF c.agent = "codex" THEN HookError(c) ELSE Exit(2)

\* A run the adapter refuses: no task, a spec that cannot be used.
Refuse(c) == IF c.agent = "codex" THEN EmitCodex(c, Block(Nothing)) ELSE Exit(2)

\* A run whose enhancement fails.
FailEnhance(c) == IF c.agent = "codex" THEN EmitCodex(c, HookError(c)) ELSE Exit(2)

-----------------------------------------------------------------------------
Idle == [pc |-> "idle", case |-> None, text |-> None, todo |-> <<>>,
         wrote |-> {}, cached |-> FALSE, copy |-> None, out |-> None]

Of(r, agent) == run[r].case # None /\ run[r].case.agent = agent
Finish(r, out) ==
  run' = [run EXCEPT ![r].pc = "done", ![r].out = out, ![r].todo = <<>>]

\* The host starts each of its Codex hooks once, the user's only if it knew one.
Starts(r, c) ==
  /\ run[r].pc = "idle"
  /\ c.agent = "codex" =>
       /\ c.scope = "user" => knownHook
       /\ \A q \in Runs : run[q].case # None /\ run[q].case.agent = "codex" =>
            run[q].case.scope # c.scope
  /\ UNCHANGED <<specs, userHook, knownHook, cache, clipboard, mixed, faults>>

Begin(r, c) == run' = [run EXCEPT ![r].case = c, ![r].pc = "configure"]
EndAtOnce(r, c, out) ==
  run' = [run EXCEPT ![r].case = c, ![r].pc = "done", ![r].out = out]

\* Decode, recognise, find the working directory, leave it to the user's hook.
PrepareCodex(r, c) ==
  /\ c.agent = "codex" /\ Starts(r, c)
  /\ \/ ~ShouldHandleHook(c) /\ EndAtOnce(r, c, PassOn)
     \/ ShouldHandleHook(c) /\ ~c.cwd /\ EndAtOnce(r, c, HookError(c))
     \/ ShouldHandleHook(c) /\ c.cwd /\ ShouldSkipDuplicateHook(c) /\ EndAtOnce(r, c, PassOn)
     \/ ShouldHandleHook(c) /\ c.cwd /\ ~ShouldSkipDuplicateHook(c) /\ Begin(r, c)

PrepareClaude(r, c) ==
  /\ c.agent = "claude" /\ Starts(r, c)
  /\ \/ ~ShouldHandleHook(c) /\ EndAtOnce(r, c, PassOn)
     \/ ShouldHandleHook(c) /\ ~c.cwd /\ EndAtOnce(r, c, FailEarly(c))
     \/ ShouldHandleHook(c) /\ c.cwd /\ Begin(r, c)

PrepareWindsurf(r, c) ==
  /\ c.agent = "windsurf" /\ Starts(r, c)
  /\ \/ ~ShouldHandleHook(c) /\ EndAtOnce(r, c, PassOn)
     \/ ShouldHandleHook(c) /\ ~c.cwd /\ EndAtOnce(r, c, FailEarly(c))
     \/ ShouldHandleHook(c) /\ c.cwd /\ Begin(r, c)

\* Provider and service are built; a wrong configuration ends the run.
Configure(r) ==
  /\ run[r].pc = "configure"
  /\ \/ Finish(r, FailEarly(run[r].case))
     \/ run' = [run EXCEPT ![r].pc = "specs"]
  /\ UNCHANGED <<specs, userHook, knownHook, cache, clipboard, mixed, faults>>

\* An empty task or a spec that cannot be used ends the run before the model is
\* asked.
ResolveSpecs(r) ==
  LET c == run[r].case
      texts == LoadSpecs(c.names)
  IN  /\ run[r].pc = "specs"
      /\ IF c.prompt = "trigger" \/ texts = None
         THEN Finish(r, Refuse(c))
         ELSE run' = [run EXCEPT ![r].pc = "enhance", ![r].text = AppendSpecs(r, texts)]
      /\ UNCHANGED <<specs, userHook, knownHook, cache, clipboard, mixed, faults>>

EnhanceFails(r) ==
  /\ run[r].pc = "enhance"
  /\ run' = [run EXCEPT ![r].pc = "done", ![r].text = None,
                        ![r].out = FailEnhance(run[r].case)]
  /\ UNCHANGED <<specs, userHook, knownHook, cache, clipboard, mixed, faults>>

\* The adapters save a result and say whether it goes with the prompt or to the
\* user; in the second case the command saves it once more and copies it.
Save == <<"prompt", "preview">>
Enhanced(r, todo) ==
  /\ run[r].pc = "enhance"
  /\ run' = [run EXCEPT ![r].pc = "deliver", ![r].todo = todo]
  /\ UNCHANGED <<specs, userHook, knownHook, cache, clipboard, mixed, faults>>

Injects(c) == (c.agent # "windsurf" /\ c.inject) \/ ~Manual(c)

HandleCodex(r) ==
  /\ Of(r, "codex")
  /\ Enhanced(r, IF run[r].case.copy /\ ~Injects(run[r].case)
                 THEN Save \o Save \o <<"copy">> ELSE Save)

HandleClaude(r) ==
  /\ Of(r, "claude")
  /\ Enhanced(r, IF Injects(run[r].case) THEN Save ELSE Append(Save, "copy"))

HandleWindsurf(r) ==
  Of(r, "windsurf") /\ Enhanced(r, Save \o Save \o <<"copy">>)

-----------------------------------------------------------------------------
\* Broken: OPENPE_CACHE_DIR is the directory itself.
CacheDirShared(client) == "codex"

\* The cache directory belongs to the client, also under OPENPE_CACHE_DIR.
cacheDir(client) == client
Dir(r) == cacheDir(run[r].case.agent)

Must(r, step) == run[r].pc = "deliver" /\ run[r].todo # <<>> /\ Head(run[r].todo) = step

\* Another run of the client is between its two files.
Overlaps(r) == \E q \in Runs \ {r} : Must(q, "preview") /\ Dir(q) = Dir(r)

\* SaveWithOptions: two files, each replaced atomically, the prompt first.
SavePrompt(r) ==
  /\ Must(r, "prompt")
  /\ cache' = [cache EXCEPT ![Dir(r)].prompt = run[r].text]
  /\ mixed' = IF Overlaps(r) THEN mixed \cup {run[r].case.agent} ELSE mixed
  /\ run' = [run EXCEPT ![r].todo = Tail(@), ![r].wrote = @ \cup {"prompt"}]
  /\ UNCHANGED <<specs, userHook, knownHook, clipboard, faults>>

SavePreview(r) ==
  /\ Must(r, "preview")
  /\ cache' = [cache EXCEPT ![Dir(r)].preview = run[r].text]
  /\ run' = [run EXCEPT ![r].todo = Tail(@), ![r].cached = TRUE,
                        ![r].wrote = @ \cup {"preview"}]
  /\ UNCHANGED <<specs, userHook, knownHook, clipboard, mixed, faults>>

\* The first file that cannot be written ends the save; the run goes on.
SaveFails(r) ==
  /\ Must(r, "prompt") \/ Must(r, "preview")
  /\ faults < MaxFaults
  /\ faults' = faults + 1
  /\ mixed' = IF Must(r, "preview") THEN mixed \cup {run[r].case.agent} ELSE mixed
  /\ run' = [run EXCEPT ![r].cached = FALSE,
               ![r].todo = IF Must(r, "prompt") THEN Tail(Tail(@)) ELSE Tail(@)]
  /\ UNCHANGED <<specs, userHook, knownHook, cache, clipboard>>

\* "hook last": what the user reads in the cache.
runDeliveryLast(client, promptOnly) ==
  IF promptOnly THEN cache[cacheDir(client)].prompt ELSE cache[cacheDir(client)].preview

-----------------------------------------------------------------------------
\* The clipboard.  A helper is missing, copies at once, fails after a second,
\* never ends, or ends and leaves a child that holds its pipes (xclip).  Time is
\* in half seconds: all helpers share two seconds, and one that was killed or
\* whose pipes stay open is waited for half a second more.
Budget == 4
WaitDelay == 1

\* Broken: without a WaitDelay the child is waited for as well.
RunUnbounded(helper, t) ==
  IF t >= Budget \/ helper = "missing" THEN [ok |-> FALSE, t |-> t]
  ELSE CASE helper = "copies"                  -> [ok |-> TRUE, t |-> t]
         [] helper = "forks"                   -> [ok |-> TRUE, t |-> t + 200]
         [] helper = "fails" /\ t + 2 < Budget -> [ok |-> FALSE, t |-> t + 2]
         [] OTHER                    -> [ok |-> FALSE, t |-> Budget + WaitDelay]

RunBounded(helper, t) ==
  IF t >= Budget \/ helper = "missing" THEN [ok |-> FALSE, t |-> t]
  ELSE CASE helper = "copies"                  -> [ok |-> TRUE, t |-> t]
         [] helper = "forks"                   -> [ok |-> TRUE, t |-> t + WaitDelay]
         [] helper = "fails" /\ t + 2 < Budget -> [ok |-> FALSE, t |-> t + 2]
         [] OTHER                    -> [ok |-> FALSE, t |-> Budget + WaitDelay]

\* The command the user configured and nothing else, or the helpers of the
\* platform in order and after them the terminal (OSC 52).
CopyWithOptions(m) ==
  LET helpers == IF m.command # None THEN <<m.command>> ELSE m.candidates
      tried[n \in 0..Len(helpers)] ==
        IF n = 0 THEN [ok |-> FALSE, t |-> 0]
        ELSE IF tried[n-1].ok THEN tried[n-1] ELSE RunBounded(helpers[n], tried[n-1].t)
      last == tried[Len(helpers)]
  IN  [ok |-> last.ok \/ (m.command = None /\ m.osc52), t |-> last.t]

Copy(r) ==
  /\ Must(r, "copy")
  /\ \E m \in Machines :
       LET result == CopyWithOptions(m)
       IN  /\ clipboard' = IF result.ok THEN run[r].text ELSE clipboard
           /\ run' = [run EXCEPT ![r].todo = Tail(@), ![r].copy = result,
                ![r].wrote = IF result.ok THEN @ \cup {"clipboard"} ELSE @]
  /\ UNCHANGED <<specs, userHook, knownHook, cache, mixed, faults>>

\* Broken: a path is enough to call the text cached.
StatusOfPath(r) ==
  LET copied == run[r].copy # None /\ run[r].copy.ok
  IN  [copied |-> copied, cached |-> ~copied, fallback |-> FALSE]

\* HookStatus: a copy that worked is all the user needs to know; otherwise the
\* message says whether the cache has the text, and may carry the text itself.
\* Codex without --copy-preview names the cache of its first save.
HookStatus(r) ==
  LET copied == run[r].copy # None /\ run[r].copy.ok
  IN  [copied |-> copied, cached |-> ~copied /\ run[r].cached,
       fallback |-> ~copied /\ run[r].case.agent # "codex" /\ run[r].case.fallback]

\* The message for the user and the exit code for the host.
Emits(r, out) ==
  /\ run[r].pc = "deliver" /\ run[r].todo = <<>>
  /\ Finish(r, out)
  /\ UNCHANGED <<specs, userHook, knownHook, cache, clipboard, mixed, faults>>

emitCodexHookExecution(r) ==
  LET c == run[r].case
  IN  /\ Of(r, "codex")
      /\ Emits(r, IF Injects(c) THEN AdditionalContext(run[r].text)
                  ELSE EmitCodex(c, Block(HookStatus(r))))

emitClaudeHookOutput(r) ==
  /\ Of(r, "claude")
  /\ Emits(r, IF Injects(run[r].case) THEN AdditionalContext(run[r].text)
              ELSE [Exit(2) EXCEPT !.says = HookStatus(r)])

emitWindsurfHookOutput(r) ==
  /\ Of(r, "windsurf")
  /\ Emits(r, [Exit(2) EXCEPT !.says = HookStatus(r)])

\* The host closed the output or kills the process: nothing it says arrives.
LoseOutput(r) ==
  /\ run[r].pc \notin {"idle", "done"} /\ faults < MaxFaults
  /\ faults' = faults + 1
  /\ Finish(r, Lost)
  /\ UNCHANGED <<specs, userHook, knownHook, cache, clipboard, mixed>>

\* The user installs or removes the hook while the session goes on.
UserConfigChanges ==
  /\ userHook = knownHook /\ faults < MaxFaults
  /\ userHook' = ~userHook
  /\ faults' = faults + 1
  /\ UNCHANGED <<specs, knownHook, run, cache, clipboard, mixed>>

Init ==
  /\ specs \in [Specs -> {"text", "missing"}]
  /\ knownHook \in BOOLEAN /\ userHook = knownHook
  /\ run = [r \in Runs |-> Idle]
  /\ cache = [d \in {cacheDir(client) : client \in Clients} |->
                [prompt |-> None, preview |-> None]]
  /\ clipboard = None
  /\ mixed = {}
  /\ faults = 0

Step(r) ==
  \/ \E c \in Cases : PrepareCodex(r, c) \/ PrepareClaude(r, c) \/ PrepareWindsurf(r, c)
  \/ Configure(r) \/ ResolveSpecs(r) \/ EnhanceFails(r)
  \/ HandleCodex(r) \/ HandleClaude(r) \/ HandleWindsurf(r)
  \/ SavePrompt(r) \/ SavePreview(r) \/ SaveFails(r) \/ Copy(r)
  \/ emitCodexHookExecution(r) \/ emitClaudeHookOutput(r) \/ emitWindsurfHookOutput(r)
  \/ LoseOutput(r)

Ended == (\A r \in Runs : run[r].pc \in {"idle", "done"}) /\ UNCHANGED vars

Next == (\E r \in Runs : Step(r)) \/ UserConfigChanges \/ Ended
Spec == Init /\ [][Next]_vars

-----------------------------------------------------------------------------
Ran(r) == run[r].pc = "done"
Spoke(r) == Ran(r) /\ run[r].out # Lost

\* What the host does with the original prompt.
Effect(out) ==
  CASE out = Lost -> "lost"
    [] out.exit = 2 \/ out.decision = "block" -> "heldBack"
    [] OTHER -> IF out.context # None THEN "enriched" ELSE "bare"

\* Every text that left a run.
Texts ==
  ( {clipboard} \cup (UNION {{cache[d].prompt, cache[d].preview} : d \in DOMAIN cache})
    \cup {run[r].out.context : r \in {q \in Runs : Spoke(q)}} ) \ {None}

\* Types; a run that is over has said how, and only then.
TypeOK ==
  /\ specs \in [Specs -> {"text", "missing"}] /\ userHook \in BOOLEAN /\ knownHook \in BOOLEAN
  /\ mixed \subseteq Clients /\ faults \in 0..MaxFaults
  /\ \A r \in Runs :
       /\ run[r].pc \in {"idle", "configure", "specs", "enhance", "deliver", "done"}
       /\ (run[r].pc = "idle") = (run[r].case = None)
       /\ Ran(r) = (run[r].out # None)
       /\ run[r].wrote \subseteq {"prompt", "preview", "clipboard"}
  /\ \A t \in Texts : t.of \in Runs

\* A prompt the user marked with `pe` never reaches the model as it is: whatever
\* fails, it is held back or goes with its enhancement.  The exceptions are
\* output the host never got, and a Codex project hook that leaves the prompt to
\* the hook of the user (codex_hook.go:264).
FailClosed ==
  \A r \in Runs : Ran(r) /\ Manual(run[r].case) =>
    \/ Effect(run[r].out) # "bare"
    \/ /\ run[r].case.agent = "codex"
       /\ knownHook \/ userHook # knownHook
       /\ run[r].case.scope = "project" \/ (run[r].case.scope = "" /\ run[r].case.projectEnv)

\* Text that reaches the clipboard, a cache or the model carries exactly the
\* specs its user named, in that order: a spec that cannot be loaded stops the
\* run, it is never left out (specs.go:52, codex/hook.go:133).
SpecsNeverDropped == \A t \in Texts : t.specs = run[t.of].case.names

\* What the message says is so: "updated the clipboard" only by a run that
\* copied its text, "cached" only by one that wrote both files in its last save,
\* "not updated" only by one that did not copy (delivery.go:128-186).
MessageIsTrue ==
  \A r \in Runs : Spoke(r) =>
    LET says == run[r].out.says
    IN  /\ says.copied => "clipboard" \in run[r].wrote
        /\ says.cached => {"prompt", "preview"} \subseteq run[r].wrote /\ run[r].cached
        /\ says.cached \/ says.fallback => "clipboard" \notin run[r].wrote

\* `hook last` of a client shows what that client delivered, and the prompt and
\* the preview it shows belong together unless two saves overlapped or one
\* failed or died between its files; a save takes no lock, so that is all it
\* promises (delivery.go:72, 249).
CachePairsBelong ==
  \A client \in Clients :
    LET prompt == runDeliveryLast(client, TRUE)
        preview == runDeliveryLast(client, FALSE)
    IN  /\ \A t \in {prompt, preview} \ {None} : Of(t.of, client)
        /\ \/ prompt = preview \/ client \in mixed
           \/ \E r \in Runs : Of(r, client) /\ (Must(r, "preview") \/ run[r].out = Lost)

\* Copying never holds the hook longer than two and a half seconds, however
\* many helpers hang or leave children behind: the original prompt went through
\* when one did (clipboard.go:21).
CopyIsBounded == \A r \in Runs : run[r].copy # None => run[r].copy.t <= Budget + WaitDelay

\* With hooks in the user's and in the project's configuration one of the two
\* takes a prompt for Codex, never both and never none, as long as the user's
\* configuration is the one the session began with: a hook reads the file as it
\* is now (codex/install.go:100).
OneCodexHookActs ==
  \A q, r \in Runs :
    /\ q # r /\ Of(q, "codex") /\ Of(r, "codex") /\ Ran(q) /\ Ran(r)
    /\ userHook = knownHook
    /\ {run[q].case.scope, run[r].case.scope} = {"user", "project"}
    => /\ run[q].text = None \/ run[r].text = None
       /\ Manual(run[q].case) /\ Manual(run[r].case)
            => "bare" # Effect(run[q].out) \/ "bare" # Effect(run[r].out)

\* What was delivered belongs together: a prompt with all of its specs, a
\* preview with its prompt, a cache with its client.
DeliveryInv == TypeOK /\ SpecsNeverDropped /\ CachePairsBelong
=============================================================================
