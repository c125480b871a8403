# Verification of openPE

openPE rewrites ("enhances") a coding agent's prompt before the agent's model
sees it. It runs as a hook of four agents (Codex, Claude, Windsurf, Devin), as a
local HTTP server, and as a patch of the Windsurf IDE that calls the server.
This directory holds TLA+ models of its stateful parts, the TLC runs that check
them on small instances, and TLAPS proofs of what matters most.

## Inventory

| Component | Code | State | Operations | What makes it correct | Status |
|---|---|---|---|---|---|
| Hook de-duplication claim | `internal/adapters/hookdedup` | one file per prompt key: modification time, recorded conclusion | `Claim` (sweep, create, stat, read, touch, take over), `finish` | one flight per key and window; losers see this flight's conclusion; sweep spares claims in their window | modelled, proved |
| Devin hook run | `cmd/openpe/devin_hook.go`, `internal/adapters/devin` | the process, its result, the host's collected replies | trigger, claim, flight with deadline, delivery, output, conclusion, replay | a raw manual prompt never passes; one injection; the last block reason shows the enhancement; no enhancement of another session; finish before the host's time-out | modelled; safety proved |
| Codex, Claude, Windsurf hook runs | `cmd/openpe/*_hook.go`, `internal/adapters/*`, `internal/specs` | the answer to the host, caches, clipboard | decode, de-duplicate, load specs, enhance, deliver, block or inject | a marked prompt is held back or enhanced whatever fails; the answer is in the host's language of exit codes and JSON; one of two Codex hooks acts | modelled in part (no history); safety proved |
| Delivery cache, clipboard | `internal/adapters/delivery`, `clipboard`, `cmd/openpe/delivery_cmd.go` | `last-prompt.txt`, `last.md` per client | save both, copy, read back | the two files belong together; messages say what happened; copying is bounded | modelled; safety proved |
| Atomic file | `internal/fsatomic` | target, temporary file, lock file | write, guarded replace, lock | no torn file; a change since the read is not overwritten; a killed holder's lock is free | guarded replace and lock modelled |
| Hook configuration install | `cmd/openpe/hook_install.go`, `internal/adapters/*/install.go` | the agents' configuration files | read, merge, guarded replace, three attempts | what the host last wrote survives but for empty groups; success leaves one hook, whose deadline is below its time-out | modelled; safety proved |
| Server descriptor | `internal/integration` | descriptor file with address, pid and token | write, read, remove if owned | it names a server that listens, or nothing that runs is hidden by it | modelled (not the bundle contract); safety proved |
| Server lifecycle | `cmd/openpe-server` | listener, descriptor, its lock | bind, publish, serve, shut down | publish only what is bound; withdraw only one's own, or say why not; stop in bounded time | modelled; safety proved |
| HTTP server | `internal/server` | open requests and their timers | CORS, authorise, route, decode, enhance, time out | only bearers are served; a request that was read is answered, before its connection's deadline and readable by a web view, unless the server fails or is killed | modelled; safety proved |
| Enhancer | `internal/enhancer` | attempts, budget, warnings of one call | retrieve, lay out, complete, guard, check | one budget for everything, fully used; what is cut is reported; no wrong language unreported | modelled; safety proved |
| Providers, retrieval client, wiring | `internal/providers`, `internal/context/openace`, `internal/wiring` | attempts of one retrieval | message form, retries, construction | roles in turn and the task last; bounded attempts and delays | modelled in part |
| Configuration, languages, version | `internal/config`, `i18n`, `version` | none | parsing | defaults, precedence | not modelled |
| Update check | `internal/update`, `cmd/openpe/update_cmd.go` | `update-check.json` and its temporary file | refresh in a detached process, read | a reader sees a whole state | planned |
| History readers | `internal/context` | none (they read agents' stores) | select, clip | newest kept, budget kept | not modelled |
| Windsurf patch transaction | `extensions/openpe-windsurf-patch/installer` (`patch_operation.py`, `backup_transaction.py`, `locking.py`, the commands of `__main__.py`) | two IDE files, transaction manifests with backups, operation journals | install, refresh, uninstall, two kinds of recovery | the two files change together; after a crash they can be brought back; no old build over a new one | modelled; safety and refinement proved |
| Exact multi-bundle patch | `multi_bundle_patch.py`, `winlock.py`, same directory | six IDE files written in place, a manifest with an intent per transaction | install, restore, forced rollback, health scan | what a crash tears is recognised and can be undone; a mixture is reported; transactions do not touch each other's files | modelled (Windows), proved |
| Other installer parts | same directory | probe sessions | locate, verify, sign | | not modelled |
| Injected client | `extensions/openpe-windsurf-patch/inject` | dialog, request in flight | open, enhance, abort, apply | a late answer changes nothing | not modelled |

How they interact: a hook process calls the claim, then the enhancer through a
provider, then the delivery cache and the clipboard; hook processes share the
claim directory, the delivery cache and the update state, and nothing else. The
server shares only the descriptor file with the injected client, and the
installer shares the IDE's files with the IDE's own updater.

What is hard to test, at the line where it bites, is listed under `hazards` in
`PROJECT.json`.

## Plan

1. `HookDedup`, the claim protocol, and its proofs. Done.
2. `DevinHook`, composing `HookDedup` with hook processes and the host, and the
   proof of `FailClosed`. Done.
3. `PatchTransaction` against an abstract atomic swap of a pair of files
   (`AtomicPatch`, refinement), crashes between any two writes, an IDE update in
   between; proofs of its type and safety invariants. Done.
4. `MultiBundle`, the patch that writes in place, and the proof that an intent
   accounts for whatever a crash tears. Done.
5. `HookConfig`: the four install commands over guarded replacement and lock. Done.
6. `AgentHooks`: the runs of Codex, Claude and Windsurf hooks with specs, delivery
   cache and clipboard. Done.
7. `Server` and, on top of it, `HttpApi`: descriptor, lifecycle and requests against
   their timers. Done.
8. `Prompt` and, on top of it, `Enhancer`: the layout of a request within its
   budget and the course of one enhancement. Done.
9. Proofs of the safety properties of every module, and of the refinement of `AtomicPatch`.
   Done.
10. The update check (`UpdateState`: refresh processes that share one temporary file) and
    the injected client's dialog. Next.

## Modules

### HookDedup

`internal/adapters/hookdedup`. One claim file per key: `mtime[k]` is its
modification time (`Absent` when there is no file) and `body[k]` the recorded
conclusion, `NoConclusion` for an empty or unreadable one. A process `p` is at
`pc[p]` inside `Claim`: the code has no lock and keeps no owner in the file, so
every system call that another process can observe is an action.

| Action | Code (`hookdedup.go`) |
|---|---|
| `BeginClaim` | `Claim` is called; `collectGarbage` reads the directory (`Snapshot`) |
| `SweepConfirm`, `SweepSpare`, `SweepUnlink`, `SweepDone` | re-stat of an entry, its removal, the end of the sweep |
| `CreateClaim`, `ClaimExists` | `O_CREATE\|O_EXCL` |
| `StatFresh`, `StatStale` | `os.Stat` and the comparison with the window |
| `ReadPrior`, `TouchAndLose` | `readPrior`, `touch`: the loser's path |
| `TakeOver`, `TakeOverUnreset` | `reset`, and its fall-back to `touch` |
| `Finish`, `FinishUnrecorded`, `FinishNoop` | `record`, its fall-back to `touch`, the no-op |
| `ClaimUnavailable` | the directory or the file cannot be opened: win without a claim |
| `Crash` | the process ends, its files stay |

Abstractions: all times are ticks of one clock; the size cap and the count cap
are one cap on files; the readings of the directory's entries are one step (a
later reading only sees later times). `lastMark`, `seenMark`, `wonAt`, `recordedAt` and
`raced` are history variables that no action of the code reads. `raced` holds
the keys whose file a sweep removed although it had changed since the re-stat;
`SingleFlight` and `SweepSparesFresh` except those keys: the code narrows that gap
with the re-stat, and does not close it, against the comment at `hookdedup.go:236`.

Each definition whose comment starts with "Broken" is a variant of the next
operation with a bug in it. No action uses it: it serves to show that the
properties notice.

### DevinHook

`cmd/openpe/devin_hook.go` with `internal/adapters/devin/hook.go`. A session submits a
prompt, the host runs the hooks of `Chain` one after the other, each in a
process of its own that goes through the phases `claim`, `flight`, `deliver`, `emit`,
`conclude`, `exit`; the host collects the reply of each and decides. Sessions
run in parallel and share the claims, which are the variables of
`Claims == INSTANCE HookDedup WITH Procs <- Sessions, Keys <- DedupKeys`. `StartHook` is
the start of `runDevinHookRun` (and of an imported hook, which builds its provider
first), `FlightDone` and `FlightDeadline` are the two branches of
`runDevinFlightWithDeadline`, `LossResult` is `handleDevinDedupLoss`, `Handoff`
`deliverDevinBlock`, `Emit` `emitDevinOutput`, `Conclude` the deferred `finish`.

The host is not in the repository. `Submit`, `Collect`, `Decide` and `HostKill` state
what the code's comments and defaults rely on: hooks run in turn, a killed
hook's output is not read, any block holds the prompt back, the last block
reason is shown. The configuration (`cfg`: de-duplication on, inject mode, a usable
provider) is chosen once.

An enhanced prompt is known by the session and text of the flight that made it,
so `NoForeignPrompt` compares origins: of what a hook outputs, blocks and
injections alike, and of what the host has shown. Sessions with an identity (`Identified`) are told
apart by it, the others only by their directory (`Cwd`), so two of these in one directory may be
shown each other's blocks, which the comment at `devin_hook.go:394` accepts; the property
excepts exactly that. `getwd` failing is left out (the host sets
`DEVIN_PROJECT_DIR`), and so are malformed hook input and the json block output.

Time passes only when every process waits: for the model (bounded by `Deadline`),
for the clipboard (bounded by `DeliverMax`), or for the user. File operations take no
time. The deadline bounds the flight only; the delivery comes on top of it, and
`NeverKilledByHost` needs a margin that covers it, as the default's does (120s, deadline
115s, delivery at most 2.5s). The claim window is therefore smaller than a flight in the instances, as
it is in the code (5s against a deadline of 115s).

### PatchTransaction

The canonical patch of the Windsurf IDE. `bundle` and `product` are the contents
of the two live files: a record of the vendor build (`ver`), the transaction and
the payload injected into it. Checksums compare contents, so they are equality
of these records. `txns[t]` is the manifest of a transaction with the originals it
backs up (`orig`) and the pair it wrote (`patched`); `active` is the set of operation
journals whose state is "active" (completed and rolled back ones are never
looked at again). `pc` and `cmd` are the step and the memory of the one command that
holds the mutation lock.

| Action | Code |
|---|---|
| `BeginInstall`, `BeginRefresh`, `BeginUninstall` | the checks of `_cmd_install` and `_cmd_uninstall` up to the first write: no recovery pending, pristine trusted pair, or `_bound_transaction` |
| `BeginRecovery`, `BeginRestoreRecovery` | `_recover_active_patch_operation`, `recover_restoring_transaction` |
| `CreateTransaction` | `create_transaction` and the comparison of its snapshot with the trusted build |
| `PrepareOperation` | target construction and `prepare_operation`: the journal appears |
| `CheckBundle` ... `WriteProduct` | `apply_operation`: each conditional write is a comparison and a rename |
| `Finalize`, `CompleteOperation` | `finalize_operation_transaction`, `complete_operation` |
| `Inspect` ... `RolledBack` | `rollback_operation`: manifest, product, bundle, journal |
| `SnapshotForRestore`, `InspectRestore` | `restore_transaction` and its recovery up to `restore_file_pair` |
| `CheckRestoreProduct` ... `PutBackProduct` | `restore_file_pair` with its conditional undo |
| `StepFails`, `Crash` | an error inside the two protected regions; death of the process, and every other error, which ends the command without a write |
| `StartUpdate`, `UpdateFile`, `UpdateStops` | the vendor's updater: external, either file first, may stop half way, only ever installs a newer build |

Abstractions. A manifest or journal is written by a rename under the lock and
nobody else writes it, so its write is one step with the checks before it. The
read-back after a rename and the next comparison are one step. The order of
the payload's and the backup's own writes before the journal appears cannot be
observed. Every build counts as trusted and every profile as allowed to
mutate, which admits more than the code's allow-list does. A command that is
refused writes nothing and is not a step; so a state from which every command
is refused shows as a deadlock, and there is one: a journal of an interrupted
operation (or a restore) of an older build is refused forever, before and after a clean
reinstall of the newer build, and no command discards it. This is why the
configurations turn the deadlock check off; the other reason is that the
instance's transaction ids run out. `calm` says that nothing interrupts commands
from here on and serves `RecoveryCompletes` only; `cmd.since`, the newest build when the
command started, serves `NoDowngrade` only.

`AtomicPatch` is what the patcher promises when no update intervenes: one
variable, the build both files hold, changed in one step by `Install`, `Refresh` and
`Uninstall`. `View` maps the detailed state to it: while a recovery is pending, the
pair is what the recovery will make of it, so an install takes place when its
journal is completed and an uninstall when its manifest says "restoring". A torn
pair without a record maps to a value `AtomicPatch` never has.

### MultiBundle

The exact-build patch of Devin Desktop on Windows. `live` is the content of each
file: `"original"`, patched (`"patched"` when the patch is the same in every
transaction, the transaction's id when it embeds one), `"torn"`, `"unreadable"` (torn
so that it is not JSON, which matters for `product.json` only) or `"foreign"`.
`journal[t]` is the manifest in the transaction's directory with its two intents.
`asked` holds the commands that are still checking without the lock, each with
the manifest it read; `pc` and `run` are the step and the memory of the one that
holds the lock.

| Action | Code (`multi_bundle_patch.py`) |
|---|---|
| `CheckInstall` | `install` up to the lock: the baselines of `_build_targets`, a fresh transaction id |
| `CheckRestore`, `ReadManifest` | `restore` up to the lock: `resolve_paths`, then `_read_restore_manifest` and its validation |
| `LockForInstall`, `Prepare`, `PrepareFails` | mutex, handles, directory; backups and the manifest "prepared"; `rmtree` |
| `RecordIntent`, `BeginWrite`, `EndWrite`, `ClearIntent`, `Commit` | the loop of `install` and its final verification |
| `Fail`, `FailToRecord` | the `except` that starts `_rollback_forced` |
| `LockForRestore`, `Refuse` | `_restore_artifacts_under_lock`: manifest unchanged, `_capture_recovery_snapshot` |
| `BeginUndo` ... `FinishUndo` | `_rollback_forced` and `_apply_restore_snapshot`, which do the same in the same order |
| `Crash` | death of the process; also an error in an undo or in the last manifest, which ends the command |
| `Replace` | external: a vendor's reinstall or a user puts another file there |

A write goes through `winlock.write_all`, which is not atomic: `BeginWrite` and
`BeginRestore` leave the file torn and a crash may keep it so. The handles deny all
sharing, so nobody reads or replaces a file while a command holds the lock; the
model allows `CheckInstall`, `ReadManifest` and `Replace` only while `pc` is idle. That
makes the checks before the lock one step; the race that remains is between them
and the lock, and there `current` stands for the comparison of the manifest's
SHA-256, which differs after every write because of the time stamp.

Abstractions. Backups are verified before the manifest exists and are taken to
stay intact. The guard on `Devin.exe`, the access rights of the directory, the
marker check (implied by the baseline) and the POSIX path without handles, which
`install` refuses, are left out. `Healthy` and `StatusFails` are what `status` and
`doctor` compute; they write nothing and are no actions.

### HookConfig

`openpe <agent> hook install` for the four agents. `file[f]` is a configuration file:
`Missing`, `Broken` (not a JSON object), or a record of its prompt hooks, in order (`hooks`), of
a value of another kind where the merge expects a list or an object (`misfit`), of how it is
written (`form`), and of everything else (`rest`, a version). An entry has a group: a named one of
`UserPromptSubmit`, `"flat"` in Windsurf's list, `"empty"` for an object of the list of groups that has no
hooks in it (an empty group, a bare hook), `"raw"` for an item that is no object. A hook of
openPE carries the scope, the env file, the time-out and the deadline that were written into it.
An entry that the merge removes leaves `None` in the sequence, so that "the host's hooks and
their order are kept" says that each has its number still.
`run[i]` is the memory of one command: what it read, what it merged, its attempt.

| Action | Code |
|---|---|
| `runCodexHookInstall` ... `runDevinHookInstall` | the command up to `writeHookConfig`: option checks, path, env file, dry run |
| `Lock`, `Unlock` | `fsatomic.Lock` beside the resolved file |
| `ReadAndMerge` | one attempt of `writeHookConfig`: read, `Merge*`, nothing to change |
| `Compare`, `Recheck`, `Rename` | `ReplaceGuarded`: the guard before the temporary file, again before the rename, the rename |
| `Retry` | `ReplaceGuarded` failed: up to three attempts, each from the file as it is |
| `ReplaceFails`, `Crash` | an I/O error while replacing costs an attempt; a kill drops the lock |
| `HostWrites` | external: an agent, an editor or a sync tool replaces the file at any moment |

`mergeUserPromptSubmit` is the merge of Codex, Claude and Devin: `Upsert` updates the first openPE
hook in place and drops its copies with the groups they leave empty, `WithoutEmpty` drops what
was empty before, whoever it belongs to; `MergeWindsurfHooks` is flat and drops nothing else.
A misfit makes room for the list, and writing makes a file `"canonical"`: sorted, indented, numbers
beyond 53 bits rounded. `hookDeadlineForTimeout` computes with a duration that wraps around
(`Wrap`, `MaxDuration`). `wanted[f]` is what the host last made of a file. `HostConfigKept` compares it with the
file but for `"empty"` entries, which the code drops against its own comment (see below). `Resolved`
follows links, so that two names lead to one file and one lock. The code's guard
compares before the rename and not in it: `raced` holds the files that a host wrote in
that last gap, and `HostConfigKept` excepts them, as the comment at `fsatomic.go:49` does.

### AgentHooks

One process per run, from the decoded prompt to its answer, for Codex, Claude
and Windsurf (`run[r].case.agent`). `PrepareCodex`, `PrepareClaude` and `PrepareWindsurf` are the code
before the provider exists, `Configure` its construction, `ResolveSpecs` the loading of the named
specs, `HandleCodex`, `HandleClaude` and `HandleWindsurf` what follows the enhancement,
`SavePrompt`, `SavePreview` and `Copy` the delivery, `emit*` the answer. An answer is a
record of exit code, decision, added context and what its message `says`; `Effect`
is what the host makes of it. The clipboard (`CopyWithOptions`) tries its candidates
in one budget; `RunBounded` gives the time each takes, `WaitDelay` for a helper that
leaves its pipes open included. `UserConfigChanges` changes the user's configuration
while the host keeps what it knew when its session began (`knownHook`).

History and its disclosure, the update notice and the wording are left out. A text is
known by the run it is of and the specs in it. The OSC 52 sequence that `copy` writes to the terminal takes no time in
the model. `FailClosed` and `OneCodexHookActs` speak of a configuration that has not changed since the session
began: after a change the code cannot know what the host will do.

### Server and HttpApi

`Server` is the life of `openpe-server` processes that share a descriptor file. `srv[s].pc` follows
`runWithIO`: `bind`, `publish`, `write`, `validate`, `serve`, `shutdown`, `cleanup`, `check`, `remove`, `gone`. `WriteDescriptor`
and the removal run under the descriptor's lock, whose holder `lock` is. Each of their steps may
fail (`WriteFails`, `ValidateFails`, `CleanUpFails`): the removal after a failed validation is
best effort and may leave the file, whole or unreadable, and a clean-up that finds a link, cannot
have the lock, or cannot read or remove the file leaves it and says so on stderr (`warned`)
without changing the exit code. So "a clean exit leaves nothing" is not true of the code; what is, and
is checked, is `LeftoverIsReported`. `latest` is the process that wrote the file last:
`LiveServerDiscoverable` speaks of it only, since a process whose validation fails has by
then overwritten the descriptor of an older one that still serves, which stays without.
`Crash` is SIGKILL and also a signal that comes before `serveUntilSignal` asks for it. `Spoil`
makes the file unreadable for `ReadDescriptor`. A process id is never used again.

`HttpApi` extends it with requests. A client takes address and token from the
descriptor, or has no token, and reaches whoever listens at that address. `Depth` is what wraps
what: CORS outermost, then authentication, then the mux, then the timeout around the one route
that enhances. `Status` is what each layer answers, `Route` lets the outermost one answer, and
`Answer` gives an answer the headers of CORS only from inside that layer, so that a different order shows.
`Handle`, `BodyArrives`, `EnhanceReturns`, `HandlerTimesOut` and `BodyTimesOut` are the handler with
`http.TimeoutHandler` and the read deadline.
Time is in units of ten seconds, the smallest the constants of `buildHTTPServer` differ by;
a tick waits for every timer that is due. `Respond` drops an answer after the
write deadline. `Shutdown` waits for the open requests for one unit. As in `net/http`, a connection that was
accepted before the signal may still send its headers and is then served (`Handle` goes on in
every state of a process that runs), or is closed unread: `CloseUnread`.

### Prompt and Enhancer

`Prompt` has the pure part: `CharLimit`, `Assemble` and the three message styles, as operators on
lengths. A section has a name and a length; a message keeps the names of what is in it,
so `used_context` and the place of the task can be checked. `AnthropicMessages` is
`toAnthropicMessages`. `Enhancer` is one call of `Enhance` as a state machine: `Start`, the retrieval with its
attempts (`Retrieved`, `RetrieveTransient`, `RetrieveFails`, `Sleep`), `Build`, `Complete`, the second request of the
language guard (`Reanchor`), `Return`. The context may end at any moment (`ContextEnds`).
A text is its letters per script, its numbers and its actions.

Left out: wording, the sections' headings (a section's length includes them), the blank line between
joined sections, and logging. `MaxInt` is small, so that budgets around it are checked.

## Runs

| Run | Instance | Shows |
|---|---|---|
| `dedup_safety` | 2 processes, 2 keys, window 1, TTL 1, cap 1, failing `open`, `reset`, `record` and `touch`, time to 2; 1.0M states | `SingleFlight` and its invariant `FlightInv` (with the types), `NoOlderConclusion`, `SweepSparesFresh` |
| `hook_chain` | 1 session, 3 hooks, 2 texts, cap 0, failing `reset`, a margin, time to 14, fair | `SubmissionInv` (type, `OneFlightPerSubmission`, `OneInjection`), `LastReasonShowsPrompt`, `NoForeignPrompt` between texts, `FailClosed`, `NeverKilledByHost`, `EverySubmissionDecided` |
| `hook_sessions` | 2 sessions in one directory, one without an identity, 1 hook, 1 text, all faults, no margin, time to 3; 1.6M states | `NoForeignPrompt` between sessions, `FailClosed` when claims fail and hooks are killed |
| `patch_recovers` | 2 transactions, 2 payloads, no update, fair | the refinement of `AtomicPatch`; `RecoveryCompletes` |
| `patch_races` | 3 transactions, 2 payloads, 3 builds, updates at any moment | `RecoveryUnambiguous`, `TornPairIsFlagged`, `InjectedIsUninstallable`, `NoDowngrade` |
| `multi_crashes` | 3 files, 2 transactions, 2 shells, crashes and replacements at any moment | `MixedIsReported`, `CrashIsRecognised`, `CommitsWholeSet`, `TerminalIsFinal`, `InstallationIsKept`, no deadlock |
| `multi_torn_product` | 3 files, 1 transaction, 1 shell | violation: a torn `product.json` keeps `restore` from finding its transaction |
| `multi_status` | 3 files, 2 transactions, 1 shell | violation: status fails on a complete installation after a restore and a new install |
| `config_install` | 2 commands of 6 option sets, 4 layouts, 2 files and 2 links, 2 host writes, 1 fault, fair | `FilesInv` (type and lock, `HostConfigKept`, `DeadlineUnderTimeout`), `SuccessStands`, `GivesUpOnlyWhenSpoiled`, `InstallEnds` |
| `agent_hooks` | 2 runs of 17 cases, 2 specs, 5 machines, 1 fault | `DeliveryInv` (type, `SpecsNeverDropped`, `CachePairsBelong`), `FailClosed`, `MessageIsTrue`, `CopyIsBounded`, `OneCodexHookActs` |
| `http_api` | 2 servers of 5 configurations, 2 ports, 1 request of 3 kinds, 1 fault, fair | `DescriptorInv` (lock, `LiveServerDiscoverable`, `AdvertisesBoundAddress`, `LeftoverIsReported`), `AnsweredUnlessServerEnds`, `MiddlewareOrder` (`WebviewReadsEveryAnswer`, `OnlyBearersServed`), `EverythingEnds` (`ServerStops`, `RequestsEnd`) |
| `enhancer` | 3 styles, 2 providers, 8 budgets, 5 histories, 4 sets of references; 160 services | `RequestInv` (type, `FirstRequestInBudget`, `NothingCutNeedlessly`, `RetriesBounded`), `ReportsAreTrue` (`CutsAreReported`, `UsedContextIsTrue`, `WarningsMatchReturnedText`), `TaskReachesProvider`, `LanguageKeptOrReported` |

A property in parentheses is a named part of the one before it. The types of `PatchTransaction`
and `MultiBundle` are proved, so no run checks them.

Bounds. `MaxTime` stops the clock, and `Submit` is only allowed while the whole chain
can still time out before it. In `hook_chain` three hooks, a flight longer than the window, a
resubmission after the window, an expiry of the TTL and an eviction all fit; in `hook_sessions` two
submissions per session, within the window of each other, meet those of the other session;
`dedup_safety` has room for a win, a take-over after the window and a sweep of both keys over
the cap, and its two processes show every pairwise race (window and TTL are equal there, so a claim expires the moment it
loses its protection; `hook_chain` has a longer TTL). Deadlock checking is
off: with the clock at its bound and no prompt pending the models stop.

For the patch, one transaction per build and one more for a reinstall after an
uninstall are enough for a journal to outlive its build; two payloads tell a
refresh from a no-op; three builds let an update follow a half-finished one.
`patch_recovers` has no updates by design: with them neither property holds,
since a stale journal is never discarded.

For the exact patch, three files stand for the six: one that embeds the transaction, one
whose patch all transactions share, and `product.json`, last in order as in the
code. A crash in any of the three writes, in a restore of the result and in the restore of
that one fits. Two shells give the race of two restores of one transaction; two
transactions one over the files of the other. A transaction id is used once (an
id whose install never got a manifest may be drawn again), so the instance is
finite without further bounds.

Two install commands meet on one file, under one name or two; a host write before, during
and after an attempt fits, and with a fault it spoils the three that
make a command give up. `MaxDuration` is 200 seconds there, so that one of the time-outs (300) overflows and
the others do not. The layouts have copies of openPE's hook, a group of its own, groups shared with others, and every
kind of entry and misfit. Two hook runs share a cache or a clipboard; each of the
17 cases differs in what the code branches on. Two servers give every order of bind,
publication and clean-up of a sibling; a descriptor of a killed one or a link is
there from the start; one request meets either of them in each phase. Budgets lie below, at and above
what the layouts of the cases need, and at the largest int. The http run
turns the deadlock check off because servers end and requests are used up; the others say how they
stop.

Fairness. `DevinHook!FairSpec`: the host and each process keep running, inside `Claim` too
(each step is a system call), the
deadline timer fires, and time passes even if a user resubmits again and again,
hence strong fairness of `Tick`. No fairness is assumed of a flight: the model may
never answer. `PatchTransaction!FairSpec`: a command that is running goes on (it is a
sequential program), and the user reruns a command after "rerun install", which
the code's exit status `EXIT_RECOVERY_COMPLETED` and messages ask for. Crashes may go
on for any time, but `calm ~> ~Pending` speaks of executions in which they end.
`HookConfig!Spec`: a started command is scheduled and a free lock is granted (the
kernel does both; nothing is assumed of a command that was not started). `HttpApi!Spec`: a process
that runs is scheduled, `http.Server` handles what it accepted, timers fire and time passes; no
headers and no body have to arrive, no enhancement to return, no client to stay (`TimersFire`).
`MultiBundle` states safety only: that a restore leads to the originals is `CrashIsRecognised`
(some restore is accepted) together with `CommitsWholeSet` (it ends in whole files).

## What the runs found

* `multi_torn_product`: `restore` parses `product.json` to learn which installation
  it works on (`multi_bundle_patch.py:1074`), and `product.json` is one of the files written
  in place. A crash inside that write leaves a file that does not parse, so the
  backups, which `winlock.py:203-206` says cover crash recovery, are not reached by any command.
  `CrashIsRecognised`, the same property without `Identified`, holds and is proved: the
  manifest and the backups are sufficient, only the way to them is cut.
* `multi_status`: manifests are never deleted, and `describe_transaction` compares
  those of restored transactions with the originals (`multi_bundle_patch.py:1138`). After
  the upgrade that the patch's README prescribes (restore, then install again), `status` and
  `doctor` fail as long as the new installation is in place.

Seen while modelling, without a run: the merges of Devin, Codex and Claude drop every object in the list of
groups whose hook list is empty or missing (`devin/install.go:106`, `codex/install.go:73`,
`claude/install.go:62`), also those with nothing of openPE in them, such as an empty group of the host or a bare
hook entered without a group, although the comment at `devin/install.go:69` says that "foreign hooks are
preserved untouched" (`HostConfigKept` excepts them); the install merges also replace a value of another kind in the place of `"hooks"` or of
the list, and pass numbers through `float64`, against "All other config keys are preserved" (`devin/install.go:50`); a
file that says `null` makes `root` a nil map, and the assignment to it panics; a time-out of more than 292 years gives
a deadline of any sign; a server whose descriptor fails validation has replaced the one of an older server and
removes the name, so that the older one serves undiscovered; every process that stats a stale claim before the first
take-over flies, so the "single extra enhancement" of `hookdedup.go:166` is exceeded
with three of them; `restore_transaction` reads the live pair a second time without
comparing it with what it validated (`backup_transaction.py:548-551`); a reference block
and the task become one turn for Anthropic when no history stands between them
(`anthropic/client.go:183`); the directive of the guard's second request is not counted against the
budget (`language_guard.go:179`); all processes that save the update state use one temporary name
(`update/state.go:66`), so a rename may publish a file that another one has just truncated,
against the comment at `state.go:53`; `LoadState` then reports no state and the next refresh
writes a whole one.

## Proofs

`HookDedup_proofs` proves, for every set of processes, finite set of keys, window,
TTL, cap and set of faults, `TypeCorrect`, `SingleFlightHolds`, `FlightInvHolds`, `SweepSparesFreshHolds`, and
`NoOlderConclusionHolds`. A `reset` that fails leaves the old conclusion in the file (`TakeOverUnreset`);
`recordedAt` counts it as of that moment, which is how `NoOlderConclusion` excepts it.

`SingleFlight` says when a process may win, and is not inductive: one must know that
the claim file is there. `FlightInv` adds `MarkPresent` (within the window of the
last win or conclusion the file exists and is no older), `VictimsAged` (what a sweep
is about to remove was past its window, hence was not that file unless it
changed), `MarkSeen` and `TakeOverStale` (the verdict of the stat still holds at the
take-over). `dedup_safety` checks the same `FlightInv` with TLC.

`DevinHook_proofs` proves every safety property of `DevinHook`, for any sessions, chains,
keys, time-outs and faults. `HooksKeepTheProtocol` says that hooks and host together are
processes of the claim protocol, as `HookDedup` expects them; so the invariants of
`HookDedup_proofs`, instantiated, hold of the claims here. `FailClosedHolds` rests on `ClosedInv`: a
conclusion `inject`, in a claim or in a loser's hands, exists only for a key on which an
injection was emitted, a running hook claims under its own prompt's key, and a result
`skip` for a manual prompt implies such an injection. The other theorems need more and
share it out: `PhaseInv` (what a hook knows in each phase), `PromptsInv` (where every
enhanced prompt comes from) and `InjectInv` (a hook injects nothing but its own flight's: both for `NoForeignPromptHolds`), `TimersInv` (the age of a hook against its
phase: `NeverKilledHolds`), `FlightsInv` and `HeldInv` (who has flown for a submission, and that its claim
stays fresh until the last hook of the chain has asked: `SubmissionHolds`), `ShownInv` (from the first
shown prompt on the claim tells every later hook so: `LastReasonHolds`).

Three of these theorems have a hypothesis, each with the code's reason. `SubmissionHolds` is about a claim
directory that opens and files that can be touched (`Faults` within `record`, `reset`):
without a claim every hook flies, which the code prefers to losing the prompt.
`LastReasonHolds` allows a failing `reset` only, since a conclusion that is not written cannot be
replayed. `NeverKilledHolds` supposes `Deadline + DeliverMax < HostTimeout`, and `MarginSuffices` shows
that the deadline the code derives has that room for every host time-out above five
seconds; at five seconds and below it leaves a fifth, one second at most, which
is less than the clipboard may take (`hook_install.go:21`).

`PatchTransaction_proofs` proves `TypeCorrect` and `RecoveryIsUnambiguous` for any set of
transactions and payloads, any number of builds and any conduct of the updater.
`RecoveryUnambiguous` counts records on disk and is not inductive: one must know
what the running command is about to write. The invariant `Ind` therefore ties the step to
the records (`Phase`): between the journal and its completion the one active
journal is the command's own, during a restore the one restoring manifest is,
and in the steps before either of them nothing is pending.

The other theorems of the module stand on `Ind`. `TornPairsAreFlagged`: `PairInv` adds
that every pair a record on disk would bring back matches, that each file at
hand is of a build the vendor has begun to install, and, while an update is under way, that only the
update's own files bear the newest version (`Held`): so a pair torn by the updater
is never of one build, and a pair torn by a command always has its record.

`InjectedCanBeUninstalled`: `OwnInv` says what the records hold (`Genuine`: the originals of one
build and a pair patched by this very transaction) and that without a pending recovery an
injected pair is the one its installed manifest recorded, because journals and restores end
only in such a pair. `FilesNeverGoBack`: `QuietInv` says that, as long as no update has begun since
the command did, everything it knows, finds and writes is of one build; the recognition
before a rollback or a restore is what makes this true of a recovery. `PatchIsAtomic` puts the three together and
supposes `MaxVersion = 0`, no updates, since `AtomicPatch` promises nothing across one.
Two steps are visible through `View`: the retirement of the journal is the install or the refresh,
the "restoring" mark is the uninstall; all others stutter behind a pending record.

`MultiBundle_proofs` proves every property that `multi_crashes` checks, for any finite set of
files in any order, any transactions and any number of shells: `TypeCorrect`,
`CrashesAreRecognised`, `MixedIsAlwaysReported`, `WholeSetsAreCommitted`,
`TerminalStatesAreFinal` and `InstallationsAreKept`. The first two properties speak of the moments
without a command, and none says why they are true; the invariant `IInv` does. `Agreement` ties the
memory of the command to the manifest on disk, step by step; `Files` says which
one file may be torn at each step, and that everything else is original or the
transaction's own; `Requests` says that the manifest a restore starts from is the one on
disk; `Journals`, that an install never carries an intent to restore, without which
`ForRestore` would take the wrong one. `Owned`, the part of `Files` that survives between the
commands, says that some unfinished transaction accounts for every file that is
not original and not foreign.

`Server_proofs` proves `DescriptorHolds`, `AnsweredHolds` and `MiddlewareOrderHolds`, the
state invariants of `http_api`, for any servers, configurations, ports, requests and
number of faults. `ServerInv` is the invariant of the lifecycle. `DescriptorInv` speaks of the
file between the steps; what a process is about to do with it is in `Holders`: only the holder
of the lock changes the file (`Locking`), a clean-up that has found its own pid there
still does so when it removes it, and a descriptor of a process was written by it with the
address it is bound to (`Origin`). `RequestInv` rests on it: a request whose headers were read is within the
handler's timeout, which is below the write deadline for every configured timeout (`Timers`),
it was admitted by the token and the origins its server still has (`Admitted`), its answer is that of the outermost layer
with one, and only a process that fails or is killed drops it.

`AgentHooks_proofs` proves every property of `agent_hooks`, for any runs, cases, specs, machines
and faults: `DeliveryHolds`, `FailClosedHolds`, `MessageIsTrueHolds`, `CopyIsBoundedHolds`, `OneCodexHookHolds`. `HooksInv`
has two parts. `RunInv` follows one run: what it has by each step (`Progress`), that its texts are its own with
all specs of its case (`Written`), that its message is composed of what it wrote (`Told`), and
when it leaves a prompt to the other hook (`Yields`). `CacheInv` is about the two files that runs share:
without a second save in between they are of one run, which is at the step
between them, done, or broken off. `CopyIsBounded` is for any number of helpers: `CopyWithOptions` is a
recursive function over them, whose existence (`Recursion`) and bound are proved by induction
over the naturals.

`HookConfig_proofs` proves `FilesHold`, `SuccessHolds` and `GivesUpHolds` for any number of commands, any options,
links, lists of hooks and writes of the host. The pure part is `MergeKeeps`: for every list, the
merge leaves the entries of others in place unless they are `"empty"`, makes `new` the only hook of its
tool where its agent looks for it (`UpsertMerges`, `WithoutEmptyKeeps`), and
every deadline below its time-out unless the time-out is more than a duration holds (`DeadlineInTime`: also where the margin is a fifth). The
protocol is `ConfigInv`. `LockInv` and `RunInv` say that a file under work has one command at work on it,
that its merge is of what it read, and that what it read is what the file holds, unless the host
has spoiled this attempt too (`disturbed > attempt`); so the third failed attempt has been
spoiled three times, and never by a command of openPE. Between the second comparison and the
rename only a host can write, which puts the file into `raced`. `FileInv` is what a file owes to its
host and to the last install.

`Enhancer_proofs` proves every property of `enhancer`, for requests of any size, histories of any length,
any budgets, and any conduct of daemon and provider: `RequestHolds`, `ReportsHold`, `TaskReachesHolds`, `LanguageHolds`. Most of it is
about `Prompt`. `Total`, `Chosen` and the merge of `AnthropicMessages` are recursive functions over a sequence;
`RecursionUpTo` shows that such a function exists, and induction over the naturals gives what it computes:
`TotalConcat` and `TotalGap` (sums of two lists after one another and of one list below another), `ChosenFrom`,
`MergeTakesTurns`. On these stand `AssembleRequired` (what is required is always there), `AssembleWhole`
(nothing is cut that fits, and a cut leaves a warning) and `Trimmed` (the same of the turns).
`LayoutIsGood` says of all three styles what the properties need: `LaysOut`, that a layout ends with
the whole task, that `used` names what is in its messages, that it is whole when the budget has
room or when it has no warning. `AnthropicTakesTurns` follows any such layout through the merge, and
`BudgetBound` relates `CharLimit` to the product it stands for, below and above the largest int.

The state machine is the smaller part. `EnhancerInv` has five conjuncts: `CaseInv` (the request is one of
the cases, with what was retrieved, and has been accepted by the time it is laid out), `SentInv` (what was
sent is the layout of that request, the second request with the same messages), `ReplyInv` (a first answer
is kept only while the guard has found it to differ), `ResultInv` (where a response and its warnings come from)
and `RetryInv`, which counts delays by attempts: `RetriesBounded` bounds both only by the configured
attempts and is not inductive, since a sleep may then be one too many.

The proofs use the named assumptions of the modules and nothing else.

Named assumptions, and why they hold in the code. `TimesAssumption`, `WindowAssumption`, `ServerAssumption` and
`MachinesAssumption` order durations and caps that are constants of the code, and say that they are
natural numbers. `KeysAssumption`, `FaultsAssumption`, `HooksAssumption`, `InstallAssumption` and
`EnhancerAssumption` say of which kind the members of a constant are, `PromptAssumption` that the lengths of the
fixed texts are positive. `LengthAssumption`: no request is longer than an int counts, as no text in
memory is. `InstallAssumption` also says
that a duration holds twenty seconds (the code's holds 292 years). `LayoutsAssumption`: an openPE hook that a host writes was written by an
install before, hence has a deadline below its time-out. `NoneAssumption` and the last conjuncts of others
keep the values that stand for "nothing" apart from the rest. TLC evaluates each in the run of its
module.

Only model-checked: liveness (`EverySubmissionDecided`,
`RecoveryCompletes`, `InstallEnds`, `EverythingEnds`) is outside the prover's reach. Recursion is written as
recursive functions over intervals, so that induction over a set of naturals (`NatInduct`,
from the well-foundedness of `<`) reaches it.

## Not modelled

The update check, the history readers and the parsing of hook input; configuration and
languages, which have no state; the bundle contract and Windows permissions of the
descriptor; the injected client, whose request is the client of `HttpApi`. Of the
installer: the POSIX path of the multi-bundle patch, probe sessions, profiles, text search in minified bundles
and code signing, whose verdicts are inputs of the models. Prompt and message wording, provider requests and
responses beyond the form of their messages, styling. See the notes of the components in `PROJECT.json`.
