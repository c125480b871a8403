------------------------------ MODULE Server ------------------------------
(***************************************************************************)
(* The life of openpe-server processes that share one descriptor file: a   *)
(* process binds its address, publishes a descriptor of the address and    *)
(* its token, serves until a signal, and takes its descriptor away on its  *)
(* way out.  The descriptor is the only way an IDE client finds a server.  *)
(* Publishing and clean-up run under the lock beside the file.             *)
(***************************************************************************)
EXTENDS Integers, FiniteSets

CONSTANTS
  Servers,    \* processes; a process identifier is never reused
  Options,    \* configurations a process may be started with
  Ports,
  AnyPort,    \* port 0: the kernel chooses
  Former,     \* a process of an earlier day, killed before it could clean up
  MaxFaults,  \* bound on failed writes, killed processes and spoiled files
  None

Tokens == Servers \cup {None} \cup {o.token : o \in Options}

ASSUME ServerAssumption ==
  /\ MaxFaults \in Nat
  /\ None \notin Servers \cup Ports /\ None \notin Options
  /\ None \notin {"ok", "error", "killed"}
  /\ None \notin [form : {"ok", "unreadable"}, port : Ports, token : Tokens, pid : Servers]
  /\ AnyPort \notin Ports /\ Former \notin Servers
  /\ \A o \in Options :
       /\ o.lifecycle \in BOOLEAN /\ o.loopback \in BOOLEAN /\ o.provider \in BOOLEAN
       /\ o.port \in Ports \cup {AnyPort}

VARIABLES
  srv,     \* the state of every process
  file,    \* the descriptor: None, a link, or what a process wrote
  lock,    \* who holds the descriptor's lock
  latest,  \* the process that wrote the descriptor last
  faults

svars == <<srv, file, lock, latest, faults>>

-----------------------------------------------------------------------------
\* integration.ValidateTokenShape: what GenerateToken could have returned.
ValidateTokenShape(t) == t \notin {None, "weak"}

\* A process makes a token of its own, known by the process's name, when the
\* lifecycle is on and none is configured.
Token(s, o) == IF o.lifecycle /\ o.token = None THEN s ELSE o.token

\* prepareLifecycle and configureServerEnhancer let the process start.
Prepared(s, o) ==
  /\ o.lifecycle => ValidateTokenShape(Token(s, o))
  /\ o.loopback
  /\ o.provider

Listening(s) == srv[s].pc \in {"publish", "write", "validate", "serve"}
Taken(p) == \E s \in Servers : Listening(s) /\ srv[s].port = p

Off == [pc |-> "off", options |-> None, token |-> None, port |-> None, exit |-> None,
        warned |-> FALSE]
At(s, pc) == srv' = [srv EXCEPT ![s].pc = pc]
Exit(s, code) == srv' = [srv EXCEPT ![s].pc = "gone", ![s].exit = code]

\* The clean-up ends; what kept it from its work goes to stderr and changes
\* nothing else.
CleanedUp(s, warned) == srv' = [srv EXCEPT ![s].pc = "gone", ![s].warned = warned]
Unlock(s) == lock' = IF lock = s THEN None ELSE lock

\* NewLocalServerDescriptor of the address the kernel bound.
Descriptor(s) == [form |-> "ok", port |-> srv[s].port, token |-> srv[s].token, pid |-> s]
Link == [form |-> "link", port |-> None, token |-> None, pid |-> None]
Stale == [form |-> "ok", port |-> CHOOSE p \in Ports : TRUE, token |-> "shared", pid |-> Former]

-----------------------------------------------------------------------------
\* parseServerOptions, prepareLifecycle and configureServerEnhancer.
Start(s, o) ==
  /\ srv[s].pc = "off"
  /\ IF Prepared(s, o)
     THEN srv' = [srv EXCEPT ![s].pc = "bind", ![s].options = o, ![s].token = Token(s, o)]
     ELSE Exit(s, "error")
  /\ UNCHANGED <<file, lock, latest, faults>>

\* net.Listen: a port that is taken ends the process before it touches the
\* descriptor.  Without the lifecycle there is nothing to publish.
Bind(s) ==
  /\ srv[s].pc = "bind"
  /\ \E p \in IF srv[s].options.port = AnyPort THEN Ports ELSE {srv[s].options.port} :
       IF Taken(p)
       THEN srv[s].options.port # AnyPort /\ Exit(s, "error")
       ELSE srv' = [srv EXCEPT ![s].port = p,
              ![s].pc = IF srv[s].options.lifecycle THEN "publish" ELSE "serve"]
  /\ UNCHANGED <<file, lock, latest, faults>>

\* WriteDescriptor up to its lock; a link is refused and the listener closed.
Publish(s) ==
  /\ srv[s].pc = "publish"
  /\ IF file = Link
     THEN Exit(s, "error") /\ UNCHANGED lock
     ELSE lock = None /\ lock' = s /\ At(s, "write")
  /\ UNCHANGED <<file, latest, faults>>

\* The descriptor replaces whatever is there, readable or not.
WriteDescriptor(s) ==
  /\ srv[s].pc = "write"
  /\ file' = Descriptor(s) /\ latest' = s
  /\ At(s, "validate")
  /\ UNCHANGED <<lock, faults>>

\* The directory, the lock or the file cannot be had; the file stays as it is.
WriteFails(s) ==
  /\ srv[s].pc \in {"publish", "write"} /\ faults < MaxFaults
  /\ faults' = faults + 1
  /\ Exit(s, "error") /\ Unlock(s)
  /\ UNCHANGED <<file, latest>>

\* The permissions of the published file are what was asked for (only Windows
\* can tell otherwise); the process serves.
Published(s) ==
  /\ srv[s].pc = "validate"
  /\ At(s, "serve") /\ Unlock(s)
  /\ UNCHANGED <<file, latest, faults>>

\* They are not: the process removes what it wrote, whether that works or not,
\* reports the failure and closes its listener.
ValidateFails(s) ==
  /\ srv[s].pc = "validate" /\ faults < MaxFaults
  /\ faults' = faults + 1
  /\ file' \in {None, file, [file EXCEPT !.form = "unreadable"]}
  /\ srv' = [srv EXCEPT ![s].pc = "gone", ![s].exit = "error", ![s].warned = TRUE]
  /\ Unlock(s)
  /\ UNCHANGED latest

\* SIGINT or SIGTERM in serveUntilSignal: Shutdown closes the listener and
\* waits for the requests.
Signal(s) ==
  /\ srv[s].pc = "serve"
  /\ At(s, "shutdown")
  /\ UNCHANGED <<file, lock, latest, faults>>

\* The deferred clean-up of runWithIO, with the result of serveUntilSignal.
Leave(s, code) ==
  srv' = [srv EXCEPT ![s].exit = code,
    ![s].pc = IF srv[s].options.lifecycle THEN "cleanup" ELSE "gone"]

ShutdownReturns(s, code) ==
  /\ srv[s].pc = "shutdown"
  /\ Leave(s, code)
  /\ UNCHANGED <<file, lock, latest, faults>>

\* Serve returns an error of the listener's.
ServeFails(s) ==
  /\ srv[s].pc = "serve" /\ faults < MaxFaults
  /\ faults' = faults + 1
  /\ Leave(s, "error")
  /\ UNCHANGED <<file, lock, latest>>

\* Broken: the check for the owner and the removal are not under the lock.
CleanUpWithoutLock(s) ==
  /\ srv[s].pc = "cleanup"
  /\ IF file = Link THEN CleanedUp(s, TRUE) ELSE At(s, "check")
  /\ UNCHANGED <<file, lock, latest, faults>>

\* RemoveDescriptorIfOwned up to its lock; a link is left alone.
CleanUp(s) ==
  /\ srv[s].pc = "cleanup"
  /\ IF file = Link
     THEN CleanedUp(s, TRUE) /\ UNCHANGED lock
     ELSE lock = None /\ lock' = s /\ At(s, "check")
  /\ UNCHANGED <<file, latest, faults>>

\* Only a file that can be read and names this process and its token is its own.
Readable == file # None /\ file.form = "ok"
Owns(s)  == Readable /\ file.pid = s /\ file.token = srv[s].token

\* A missing file is fine, a foreign one is left in place, and so is one that
\* cannot be read.
CheckOwner(s) ==
  /\ srv[s].pc = "check"
  /\ IF Owns(s)
     THEN At(s, "remove") /\ UNCHANGED lock
     ELSE CleanedUp(s, file # None /\ ~Readable) /\ Unlock(s)
  /\ UNCHANGED <<file, latest, faults>>

RemoveDescriptor(s) ==
  /\ srv[s].pc = "remove"
  /\ file' = None
  /\ CleanedUp(s, FALSE) /\ Unlock(s)
  /\ UNCHANGED <<latest, faults>>

\* The lock cannot be had, or the file cannot be read or removed: it stays.
CleanUpFails(s) ==
  /\ srv[s].pc \in {"cleanup", "check", "remove"} /\ faults < MaxFaults
  /\ faults' = faults + 1
  /\ CleanedUp(s, TRUE) /\ Unlock(s)
  /\ UNCHANGED <<file, latest>>

\* Broken: a killed process keeps the lock.
CrashKeepsLock(s) ==
  /\ srv[s].pc \notin {"off", "gone"} /\ faults < MaxFaults
  /\ faults' = faults + 1
  /\ Exit(s, "killed")
  /\ UNCHANGED <<file, lock, latest>>

\* SIGKILL, or a signal before serveUntilSignal asks for it: the kernel closes
\* the listener and drops the lock, the descriptor stays.
Crash(s) ==
  /\ srv[s].pc \notin {"off", "gone"} /\ faults < MaxFaults
  /\ faults' = faults + 1
  /\ Exit(s, "killed") /\ Unlock(s)
  /\ UNCHANGED <<file, latest>>

\* Somebody widens the mode of the descriptor or edits it.
Spoil ==
  /\ file # None /\ file.form = "ok" /\ faults < MaxFaults
  /\ faults' = faults + 1
  /\ file' = [file EXCEPT !.form = "unreadable"]
  /\ UNCHANGED <<srv, lock, latest>>

ServerInit ==
  /\ srv = [s \in Servers |-> Off]
  /\ file \in {None, Link, Stale}
  /\ lock = None /\ latest = None /\ faults = 0

\* What a process does by itself once it has been started.
Proceed(s) ==
  \/ Bind(s) \/ Publish(s) \/ WriteDescriptor(s) \/ Published(s)
  \/ CleanUp(s) \/ CheckOwner(s) \/ RemoveDescriptor(s)

\* What happens to it.
Disturb(s) ==
  \/ WriteFails(s) \/ ValidateFails(s) \/ ServeFails(s) \/ CleanUpFails(s) \/ Crash(s)
-----------------------------------------------------------------------------
\* Type correctness, and a lock that is held exactly while a process is between
\* Lock and its release, so that a killed one never stops the others
\* (lock.go:24).
ServerTypeOK ==
  /\ DOMAIN srv = Servers
  /\ lock \in Servers \cup {None} /\ latest \in Servers \cup {None}
  /\ faults \in 0..MaxFaults
  /\ \A s \in Servers :
       /\ srv[s].pc \in {"off", "bind", "publish", "write", "validate", "serve",
                         "shutdown", "cleanup", "check", "remove", "gone"}
       /\ srv[s].exit \in {None, "ok", "error", "killed"} /\ srv[s].warned \in BOOLEAN
       /\ (lock = s) = (srv[s].pc \in {"write", "validate", "check", "remove"})

\* The process that wrote the descriptor last is what it names as long as it
\* serves: no other that fails to bind, fails before it writes or leaves takes it
\* away (descriptor.go:188, runtime.go:138).
LiveServerDiscoverable ==
  latest # None /\ srv[latest].pc = "serve" => file # None /\ file.pid = latest

\* The address in the descriptor of a live server is the one it listens at,
\* never port 0 and never a port of another server, and the token is strong
\* (runtime.go:135).
AdvertisesBoundAddress ==
  file # None /\ file.pid \in Servers =>
    /\ ValidateTokenShape(file.token)
    /\ file.port \in Ports
    /\ Listening(file.pid) =>
         \A s \in Servers : Listening(s) /\ srv[s].port = file.port => s = file.pid

\* A process that ends by itself leaves its descriptor behind, readable or not,
\* only if it said on stderr that something was wrong with it, however many
\* others publish and clean up meanwhile (runtime.go:167).
LeftoverIsReported ==
  file # None /\ file.pid \in Servers /\ srv[file.pid].pc = "gone" =>
    srv[file.pid].exit = "killed" \/ srv[file.pid].warned

\* Servers told to stop end, also when one must wait for the lock of another.
Stopping(s) == srv[s].pc \in {"shutdown", "cleanup", "check", "remove"}
ServerStops == (\E s \in Servers : Stopping(s)) ~> (\A s \in Servers : ~Stopping(s))

\* The descriptor names the live server at the address it is bound to, and none
\* that ended by itself in silence.
DescriptorInv ==
  ServerTypeOK /\ LiveServerDiscoverable /\ AdvertisesBoundAddress /\ LeftoverIsReported
=============================================================================
