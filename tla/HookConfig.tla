---------------------------- MODULE HookConfig ----------------------------
(***************************************************************************)
(* The four "hook install" commands: they add the openPE hook to a        *)
(* configuration file that belongs to an agent (Codex, Claude, Windsurf,   *)
(* Devin) and that the agent, its user and other tools rewrite at any      *)
(* time without taking openPE's lock.                                      *)
(*                                                                         *)
(* A file is Missing, Broken (not a JSON object) or a record of            *)
(*   hooks   the entries of its two lists of prompt hooks, in order.  An   *)
(*           entry names its tool and its group: a group of UserPromptSubmit *)
(*           with a hook list; "empty" for an object of that list without  *)
(*           hooks in it, such as an empty group or a bare hook; "raw" for *)
(*           an item that is not an object; "flat" for an entry of         *)
(*           Windsurf's pre_user_prompt.  A removed entry leaves None,     *)
(*           which is nothing in the file, so the others keep their number *)
(*   misfit  what is of another kind than the merge expects and lost to    *)
(*           it: all of "hooks", the list of groups, or None               *)
(*   form    how it is written: "canonical" is what an install writes,     *)
(*           "handmade" says the same, "wide" has numbers beyond 53 bits,  *)
(*           which an install leaves "rounded"                             *)
(*   rest    everything else.                                              *)
(***************************************************************************)
EXTENDS Integers, Sequences

CONSTANTS
  Installers,     \* install commands, each run once
  Options,        \* the command lines they may be given
  Paths,          \* names of configuration files
  Links,          \* the symbolic links among them: [subset of Paths -> Paths]
  Layouts,        \* hooks, misfit and form of the files a host or a user may write
  MaxDuration,    \* the largest time.Duration, counted in milliseconds
  MaxHostWrites,  \* bound on writes from outside, over the whole behaviour
  MaxFaults,      \* bound on failed writes of a temporary file and on crashes
  Missing, Broken, None

Agents == {"codex", "claude", "windsurf", "devin"}

ASSUME InstallAssumption ==
  /\ MaxHostWrites \in Nat /\ MaxFaults \in Nat
  /\ MaxDuration \in Nat /\ MaxDuration >= 20000
  /\ DOMAIN Links \subseteq Paths /\ \A p \in DOMAIN Links : Links[p] \in Paths

ASSUME OptionsAssumption ==
  Options \subseteq
    [agent : Agents, scope : {o.scope : o \in Options}, path : {o.path : o \in Options},
     env : {o.env : o \in Options}, timeout : Int, dryRun : BOOLEAN]

Misfits == {None, "hooks", "list"}
Forms == {"canonical", "handmade", "wide", "rounded"}

\* Hooks a host may write, those of openPE in any group they may be in, and what
\* a file may hold.
Foreign == UNION {{l.hooks[n] : n \in DOMAIN l.hooks} : l \in Layouts}
Groups == {None, "bare", "matchAll", "flat"} \cup {h.group : h \in Foreign}
Own ==
  [tool : Agents, group : Groups, scope : {o.scope : o \in Options} \cup {None},
   env : {o.env : o \in Options} \cup {"homeEnv", "projectEnv", None},
   timeout : Int \cup {None}, deadline : Int]
Config == [rest : Nat \cup {None}, form : Forms, misfit : Misfits,
           hooks : Seq(Foreign \cup Own \cup {None})]
Contents == {Missing, Broken} \cup Config

\* A hook that ends itself before the host ends it.
Timely(hook) ==
  hook.deadline > 0 /\ (hook.timeout # None => hook.deadline < hook.timeout)

\* The openPE hooks a host writes are those an install has written.
ASSUME LayoutsAssumption ==
  \A l \in Layouts :
    /\ l = [hooks |-> l.hooks, misfit |-> l.misfit, form |-> l.form]
    /\ l.misfit \in Misfits /\ l.form \in Forms
    /\ l.hooks \in Seq({l.hooks[n] : n \in DOMAIN l.hooks})
    /\ \A n \in DOMAIN l.hooks : l.hooks[n].tool \in Agents => Timely(l.hooks[n])

\* None, Missing and Broken are values of their own.
ASSUME NoneAssumption ==
  /\ None \notin Installers \cup Foreign /\ None \notin Own /\ None # "keptChanging"
  /\ Missing # Broken /\ Missing \notin Config /\ Broken \notin Config

VARIABLES
  file,       \* content of every real file
  lock,       \* the command that holds the file's sidecar lock, or None
  run,        \* the state of every command
  hostWrites, faults,
  wanted,     \* what the host last made of each file
  raced,      \* files the host wrote between the last comparison and the rename
  last        \* command of the last successful install the host left in place

vars == <<file, lock, run, hostWrites, faults, wanted, raced, last>>

-----------------------------------------------------------------------------
\* What a duration is when its number is too large for it.
Wrap(d) ==
  LET size == 2 * (MaxDuration + 1)
  IN  IF -MaxDuration - 1 <= d /\ d <= MaxDuration THEN d
      ELSE ((d + MaxDuration + 1) % size) - MaxDuration - 1

\* Go's division truncates towards zero.
Fifth(d) == IF d >= 0 THEN d \div 5 ELSE -((-d) \div 5)

\* Milliseconds openPE gives itself: five seconds less than the host allows,
\* four fifths when the host allows no more than five seconds.  A hook whose
\* deadline is not positive runs without one.
hookDeadlineForTimeout(seconds) ==
  LET total == Wrap(seconds * 1000)
  IN  IF total <= 5000 THEN Fifth(Wrap(total * 4)) ELSE total - 5000

\* A hook is seen by its agent and found by the merge where the agent's hooks
\* are: Windsurf's in its flat list, any other's in a group.
InPlace(hook) ==
  hook.group \notin {"empty", "raw"} /\ (hook.group = "flat") = (hook.tool = "windsurf")

\* Where the hooks of the tools are.
Places(hooks, tools) ==
  {n \in DOMAIN hooks : hooks[n] # None /\ hooks[n].tool \in tools /\ InPlace(hooks[n])}

\* Broken: every openPE hook is updated, none is dropped.
KeepCopies(hooks, new) ==
  LET own == Places(hooks, {new.tool})
  IN  IF own = {} THEN Append(hooks, new)
      ELSE [n \in DOMAIN hooks |->
             IF n \in own THEN [new EXCEPT !.group = hooks[n].group] ELSE hooks[n]]

\* The first openPE hook of the list becomes `new` where it is, any other goes
\* (and with it a group that has no other hook); without one, `new` gets a
\* group of its own at the end.
Upsert(hooks, new) ==
  LET own == Places(hooks, {new.tool})
  IN  IF own = {} THEN Append(hooks, new)
      ELSE [n \in DOMAIN hooks |->
             IF n \notin own THEN hooks[n]
             ELSE IF \A m \in own : n <= m THEN [new EXCEPT !.group = hooks[n].group]
             ELSE None]

\* An object in the list of groups that has no hooks in it goes as well, whoever
\* it belongs to.
WithoutEmpty(hooks) ==
  [n \in DOMAIN hooks |->
     IF hooks[n] # None /\ hooks[n].group = "empty" THEN None ELSE hooks[n]]

mergeUserPromptSubmit(hooks, new) == WithoutEmpty(Upsert(hooks, new))

\* The file goes through map[string]any and comes back indented, its keys sorted
\* and its numbers as float64 has them.
Parsed(content) ==
  IF content = Missing THEN [rest |-> None, form |-> "canonical", misfit |-> None, hooks |-> <<>>]
  ELSE content
Marshalled(form) == IF form \in {"wide", "rounded"} THEN "rounded" ELSE "canonical"

\* The list is under "hooks" or, in a standalone Devin file, under the root; what
\* is there of another kind makes room for it.
MergeGroups(content, new) ==
  [Parsed(content) EXCEPT !.hooks = mergeUserPromptSubmit(@, new), !.misfit = None,
                          !.form = Marshalled(@)]

\* A new group of Codex has no matcher.
MergeCodexHooks(content, new) == MergeGroups(content, [new EXCEPT !.group = "bare"])
MergeSettings(content, new)   == MergeGroups(content, [new EXCEPT !.group = "matchAll"])
MergeDevinHooks(content, new) == MergeGroups(content, [new EXCEPT !.group = "matchAll"])

\* Windsurf has another list, which is flat: it keeps every entry that is not
\* openPE's, and the groups of the others are no concern of it.
MergeWindsurfHooks(content, new) ==
  [Parsed(content) EXCEPT !.hooks = Upsert(@, [new EXCEPT !.group = "flat"]),
                          !.misfit = IF @ = "hooks" THEN None ELSE @,
                          !.form = Marshalled(@)]

Merge(content, new) ==
  CASE new.tool = "codex"    -> MergeCodexHooks(content, new)
    [] new.tool = "claude"   -> MergeSettings(content, new)
    [] new.tool = "windsurf" -> MergeWindsurfHooks(content, new)
    [] new.tool = "devin"    -> MergeDevinHooks(content, new)

-----------------------------------------------------------------------------
\* resolvePath: follow at most 31 links; what is still a link then is refused.
Resolved ==
  LET follow == [q \in Paths |-> IF q \in DOMAIN Links THEN Links[q] ELSE q]
      hop[n \in 0..32] == IF n = 0 THEN follow ELSE [q \in Paths |-> follow[hop[n-1][q]]]
  IN  hop[30]
ResolvePath(p) == Resolved[p]

Files == Paths \ DOMAIN Links

\* What the command writes into the file.  Only Codex and Devin put the scope
\* into the command; Windsurf's configuration has no timeout of its own.
HookOf(o) ==
  [tool |-> o.agent, group |-> None,
   scope |-> IF o.agent \in {"codex", "devin"} THEN o.scope ELSE None,
   env |-> o.env,
   timeout |-> IF o.agent = "windsurf" THEN None ELSE o.timeout * 1000,
   deadline |-> hookDeadlineForTimeout(o.timeout)]

\* The configuration file: the path given, else that of the scope.
ScopePath(o, project, user) ==
  IF o.path # None THEN o.path ELSE IF o.scope = "user" THEN user ELSE project

codexHooksPath(o)     == ScopePath(o, "codexProject", "codexUser")
claudeSettingsPath(o) == IF o.path # None THEN o.path ELSE "claudeUser"
windsurfHooksPath(o)  == ScopePath(o, "windsurfProject", "windsurfUser")
devinHooksPath(o)     == ScopePath(o, "devinProject", "devinUser")

\* The dotenv file: the one given, the user's, none beside an explicit path,
\* the project's.
ScopeEnvFile(o) ==
  IF o.env # None THEN o.env
  ELSE IF o.scope = "user" THEN "homeEnv"
  ELSE IF o.path # None THEN None
  ELSE "projectEnv"

codexHookEnvFile(o)    == ScopeEnvFile(o)
claudeHookEnvFile(o)   == IF o.env # None THEN o.env ELSE "homeEnv"
windsurfHookEnvFile(o) == ScopeEnvFile(o)
devinHookEnvFile(o)    == ScopeEnvFile(o)

Ready == [pc |-> "ready", path |-> None, new |-> None, existing |-> None,
          merged |-> None, attempt |-> 0, disturbed |-> 0, result |-> None]

Ended(i, result) ==
  [Ready EXCEPT !.pc = "done", !.disturbed = run[i].disturbed, !.result = result]
Done(i, result) == run' = [run EXCEPT ![i] = Ended(i, result)]

\* printHookConfigDryRun reads without the lock, merges and prints.
DryRun(i, path) ==
  LET f == ResolvePath(path)
  IN  Done(i, IF f \notin Files THEN "badPath"
              ELSE IF file[f] = Broken THEN "unparsable" ELSE "printed")

\* A bad timeout or scope ends the command, and so does a home or working
\* directory that cannot be found.
Begin(i, o, path, env) ==
  /\ run[i].pc = "ready"
  /\ \/ Done(i, "usage")
     \/ /\ o.timeout > 0 /\ (o.path # None \/ o.scope \in {"user", "project"})
        /\ \/ o.dryRun /\ DryRun(i, path)
           \/ ~o.dryRun /\ ResolvePath(path) \notin Files /\ Done(i, "badPath")
           \/ /\ ~o.dryRun /\ ResolvePath(path) \in Files
              /\ run' = [run EXCEPT ![i] = [Ready EXCEPT
                   !.pc = "lock", !.path = path, !.new = HookOf([o EXCEPT !.env = env])]]
  /\ UNCHANGED <<file, lock, hostWrites, faults, wanted, raced, last>>

runCodexHookInstall(i) == \E o \in Options :
  o.agent = "codex" /\ Begin(i, o, codexHooksPath(o), codexHookEnvFile(o))
runClaudeHookInstall(i) == \E o \in Options :
  o.agent = "claude" /\ Begin(i, o, claudeSettingsPath(o), claudeHookEnvFile(o))
runWindsurfHookInstall(i) == \E o \in Options :
  o.agent = "windsurf" /\ Begin(i, o, windsurfHooksPath(o), windsurfHookEnvFile(o))
runDevinHookInstall(i) == \E o \in Options :
  o.agent = "devin" /\ Begin(i, o, devinHooksPath(o), devinHookEnvFile(o))

-----------------------------------------------------------------------------
\* writeHookConfig.  The lock belongs to the real file, whatever its alias.
FileOf(i) == ResolvePath(run[i].path)
LockName(p) == ResolvePath(p)

Lock(i) ==
  /\ run[i].pc = "lock" /\ lock[LockName(run[i].path)] = None
  /\ lock' = [lock EXCEPT ![LockName(run[i].path)] = i]
  /\ run' = [run EXCEPT ![i].pc = "read"]
  /\ UNCHANGED <<file, hostWrites, faults, wanted, raced, last>>

Unlock(i) == lock' = [lock EXCEPT ![LockName(run[i].path)] = None]

ReadAndMerge(i) ==
  /\ run[i].pc = "read"
  /\ LET f == FileOf(i)
         old == file[f]
         merged == Merge(old, run[i].new)
     IN  \/ /\ old = Broken
            /\ Done(i, "unparsable") /\ Unlock(i) /\ UNCHANGED last
         \/ /\ old # Broken /\ merged = old
            /\ Done(i, "already") /\ Unlock(i)
            /\ last' = [last EXCEPT ![f] = run[i].new]
         \/ /\ old # Broken /\ merged # old
            /\ run' = [run EXCEPT ![i].pc = "compare", ![i].existing = old, ![i].merged = merged]
            /\ UNCHANGED <<lock, last>>
  /\ UNCHANGED <<file, hostWrites, faults, wanted, raced>>

\* Broken: the second replacement is the last.
RetryOnce(i) ==
  IF run[i].attempt = 1
  THEN Done(i, "keptChanging") /\ Unlock(i)
  ELSE /\ run' = [run EXCEPT ![i].pc = "read", ![i].attempt = @ + 1]
       /\ UNCHANGED lock

\* Broken: the replacement is tried again with what was read before.
RetryStale(i) == run' = [run EXCEPT ![i].pc = "compare"] /\ UNCHANGED lock

\* A failed replacement is tried again from the reading, three times in all.
Retry(i) ==
  IF run[i].attempt = 2
  THEN Done(i, "keptChanging") /\ Unlock(i)
  ELSE /\ run' = [run EXCEPT ![i].pc = "read", ![i].attempt = @ + 1]
       /\ UNCHANGED lock

\* ReplaceGuarded compares before it writes the temporary file ...
Compare(i) ==
  /\ run[i].pc = "compare"
  /\ IF file[FileOf(i)] = run[i].existing
     THEN run' = [run EXCEPT ![i].pc = "temp"] /\ UNCHANGED lock
     ELSE Retry(i)
  /\ UNCHANGED <<file, hostWrites, faults, wanted, raced, last>>

\* Broken: only the comparison before the temporary file.
RecheckNever(i) ==
  /\ run[i].pc = "temp"
  /\ run' = [run EXCEPT ![i].pc = "rename"]
  /\ UNCHANGED <<file, lock, hostWrites, faults, wanted, raced, last>>

\* ... and again when it is written and synced.
Recheck(i) ==
  /\ run[i].pc = "temp"
  /\ IF file[FileOf(i)] = run[i].existing
     THEN run' = [run EXCEPT ![i].pc = "rename"] /\ UNCHANGED lock
     ELSE Retry(i)
  /\ UNCHANGED <<file, hostWrites, faults, wanted, raced, last>>

\* The disk is full, the directory is read-only: the temporary file goes.
ReplaceFails(i) ==
  /\ run[i].pc \in {"temp", "rename"} /\ faults < MaxFaults
  /\ faults' = faults + 1
  /\ IF run[i].attempt = 2
     THEN /\ run' = [run EXCEPT ![i] = [Ended(i, "keptChanging") EXCEPT !.disturbed = @ + 1]]
          /\ Unlock(i)
     ELSE /\ run' = [run EXCEPT ![i].pc = "read", ![i].attempt = @ + 1, ![i].disturbed = @ + 1]
          /\ UNCHANGED lock
  /\ UNCHANGED <<file, hostWrites, wanted, raced, last>>

Rename(i) ==
  /\ run[i].pc = "rename"
  /\ file' = [file EXCEPT ![FileOf(i)] = run[i].merged]
  /\ last' = [last EXCEPT ![FileOf(i)] = run[i].new]
  /\ Done(i, "installed") /\ Unlock(i)
  /\ UNCHANGED <<hostWrites, faults, wanted, raced>>

\* The command is killed: the kernel drops its lock, a temporary file stays.
Crash(i) ==
  /\ run[i].pc \notin {"ready", "done"} /\ faults < MaxFaults
  /\ faults' = faults + 1
  /\ lock' = [f \in Files |-> IF lock[f] = i THEN None ELSE lock[f]]
  /\ Done(i, "killed")
  /\ UNCHANGED <<file, hostWrites, wanted, raced, last>>

-----------------------------------------------------------------------------
\* The hooks of other tools with their numbers and groups, but for the entries that
\* a merge drops wherever they are from, and the rest of the file; a deleted file
\* has neither.
OfHost(content) ==
  IF content = Broken THEN Broken
  ELSE IF content = Missing THEN [rest |-> None, hooks |-> {}]
  ELSE LET others == {n \in DOMAIN content.hooks :
                        /\ content.hooks[n] # None /\ content.hooks[n].tool \notin Agents
                        /\ content.hooks[n].group # "empty"}
       IN  [rest |-> content.rest, hooks |-> {<<n, content.hooks[n]>> : n \in others}]

\* Where the openPE hooks of the agents are.
Ours(content, agents) ==
  IF content \in {Missing, Broken} THEN {} ELSE Places(content.hooks, agents)

\* An agent, an editor or a sync tool replaces, breaks or deletes the file.
HostWrites(f, content) ==
  /\ hostWrites < MaxHostWrites /\ content # file[f]
  /\ hostWrites' = hostWrites + 1
  /\ file' = [file EXCEPT ![f] = content]
  /\ wanted' = [wanted EXCEPT ![f] = content]
  /\ raced' = IF \E i \in Installers : run[i].pc = "rename" /\ FileOf(i) = f
              THEN raced \cup {f} ELSE raced \ {f}
  /\ last' = [last EXCEPT ![f] = None]
  /\ run' = [i \in Installers |->
       IF run[i].pc \in {"compare", "temp", "rename"} /\ FileOf(i) = f
       THEN [run[i] EXCEPT !.disturbed = @ + 1] ELSE run[i]]
  /\ UNCHANGED <<lock, faults>>

HostContents ==
  {Missing, Broken} \cup
  {[rest |-> hostWrites + 1, form |-> l.form, misfit |-> l.misfit, hooks |-> l.hooks] :
     l \in Layouts}

Init ==
  /\ file = [f \in Files |-> Missing]
  /\ lock = [f \in Files |-> None]
  /\ run = [i \in Installers |-> Ready]
  /\ hostWrites = 0 /\ faults = 0
  /\ wanted = [f \in Files |-> Missing]
  /\ raced = {}
  /\ last = [f \in Files |-> None]

Install(i) ==
  \/ runCodexHookInstall(i) \/ runClaudeHookInstall(i)
  \/ runWindsurfHookInstall(i) \/ runDevinHookInstall(i)
Write(i) == Lock(i) \/ ReadAndMerge(i) \/ Compare(i) \/ Recheck(i) \/ Rename(i)
Host == \E f \in Files, c \in HostContents : HostWrites(f, c)

\* Every command has ended; the host may still write.
AllDone == (\A i \in Installers : run[i].pc = "done") /\ UNCHANGED vars

Next ==
  \/ \E i \in Installers : Install(i) \/ Write(i) \/ ReplaceFails(i) \/ Crash(i)
  \/ Host
  \/ AllDone

\* A command that was started is scheduled, and the kernel grants a free lock.
Spec == Init /\ [][Next]_vars /\ \A i \in Installers : WF_vars(Write(i))
-----------------------------------------------------------------------------
\* Type correctness, and a lock that is held exactly between Lock and Unlock:
\* every command that works on a file is its only holder, so a killed command
\* leaves no lock behind (lock.go:24).
TypeOK ==
  /\ file \in [Files -> Contents] /\ wanted \in [Files -> Contents]
  /\ last \in [Files -> Own \cup {None}]
  /\ lock \in [Files -> Installers \cup {None}]
  /\ raced \subseteq Files /\ hostWrites \in 0..MaxHostWrites /\ faults \in 0..MaxFaults
  /\ \A i \in Installers :
       /\ run[i].pc \in {"ready", "lock", "read", "compare", "temp", "rename", "done"}
       /\ run[i].attempt \in 0..2
       /\ run[i].pc \in {"read", "compare", "temp", "rename"}
            <=> \E f \in Files : lock[f] = i

\* What the agent and other tools have in the file survives every install,
\* whatever they write while one runs: hooks, their order and the rest of the
\* file are what the host last wrote, except when it wrote in the window
\* between the last comparison and the rename (hook_install.go:441,
\* fsatomic.go:49).  What a merge takes even from a file at rest is excepted: an
\* object without hooks in the list of groups (although devin/install.go:69 says
\* that foreign hooks are left untouched), a value of another kind in the place of
\* the list, and the digits of a number beyond 53 bits.
HostConfigKept == \A f \in Files \ raced : OfHost(file[f]) = OfHost(wanted[f])

\* A command that reported success leaves its own command as the only openPE
\* hook of the file, however many copies it found there, until the host or a
\* later install changes the file.
SuccessStands ==
  \A f \in Files : last[f] # None =>
    \E n \in Ours(file[f], {last[f].tool}) :
      /\ Ours(file[f], {last[f].tool}) = {n}
      /\ [file[f].hooks[n] EXCEPT !.group = last[f].group] = last[f]

\* A deadline of a timeout that is too large for a duration.
Overflown(hook) ==
  \E o \in Options :
    /\ o.timeout * 1000 > MaxDuration /\ hook.deadline = hookDeadlineForTimeout(o.timeout)
    /\ hook.timeout # None => hook.timeout = o.timeout * 1000

\* Every openPE hook in a file ends itself before the host kills it: the
\* deadline in its command is positive and under the timeout beside it, also
\* when an older hook was updated in place, for the shortest timeouts and for the
\* longest; only a timeout no duration can hold (of 292 years) gives another.
DeadlineUnderTimeout ==
  \A f \in Files : \A n \in Ours(file[f], Agents) :
    Timely(file[f].hooks[n]) \/ Overflown(file[f].hooks[n])

\* A command gives up as "kept changing" only after somebody else, or the
\* disk, spoiled three replacements: commands of openPE never spoil each
\* other's.
GivesUpOnlyWhenSpoiled ==
  \A i \in Installers : run[i].result = "keptChanging" => run[i].disturbed >= 3

\* Every command that was started ends, although the lock has no timeout: the
\* retries are bounded and the lock of a killed command is dropped.
InstallEnds == \A i \in Installers : run[i].pc = "lock" ~> run[i].pc = "done"

\* What holds of every file at every moment: the host's part is kept, the
\* deadlines in it can be met, and the lock is where it belongs.
FilesInv == TypeOK /\ HostConfigKept /\ DeadlineUnderTimeout
=============================================================================
