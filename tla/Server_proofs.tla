--------------------------- MODULE Server_proofs ---------------------------
(***************************************************************************)
(* Server under HttpApi for any processes, configurations, ports, requests *)
(* and number of faults.  DescriptorInv speaks of the descriptor and of    *)
(* the process it names; what keeps it true is that only the holder of the *)
(* lock changes the file, and what a process that is about to change it    *)
(* knows of it (Holders).                                                  *)
(***************************************************************************)
EXTENDS HttpApi, TLAPS

ServerProcess ==
  [pc      : {"off", "bind", "publish", "write", "validate", "serve",
              "shutdown", "cleanup", "check", "remove", "gone"},
   options : Options \cup {None},
   token   : Tokens,
   port    : Ports \cup {None},
   exit    : {None, "ok", "error", "killed"},
   warned  : BOOLEAN]

Descriptors ==
  [form : {"ok", "unreadable"}, port : Ports, token : Tokens, pid : Servers]

Contents == {None, Link, Stale, [Stale EXCEPT !.form = "unreadable"]} \cup Descriptors

Shape ==
  /\ srv \in [Servers -> ServerProcess]
  /\ file \in Contents
  /\ lock \in Servers \cup {None} /\ latest \in Servers \cup {None}
  /\ faults \in 0..MaxFaults

\* The lock is held between Lock and its release and nowhere else.
Locking ==
  \A s \in Servers :
    lock = s <=> srv[s].pc \in {"write", "validate", "check", "remove"}

\* A process that was started has a configuration; one that publishes or
\* cleans up has a lifecycle and a strong token; one has a result exactly when
\* it no longer serves.
Configured ==
  \A s \in Servers :
    /\ srv[s].pc \notin {"off", "gone"} => srv[s].options \in Options
    /\ srv[s].pc \in {"publish", "write", "validate", "cleanup", "check", "remove"} =>
         srv[s].options.lifecycle
    /\ srv[s].pc \notin {"off", "gone"} /\ srv[s].options.lifecycle =>
         ValidateTokenShape(srv[s].token)
    /\ srv[s].exit # None <=> srv[s].pc \in {"cleanup", "check", "remove", "gone"}

\* Two processes never listen at one port.
Bound ==
  \A s \in Servers : Listening(s) =>
    /\ srv[s].port \in Ports
    /\ \A t \in Servers : Listening(t) /\ srv[t].port = srv[s].port => t = s

\* The file names s, in whatever form.
Names(s) == file \in Descriptors /\ file.pid = s

\* A descriptor of a process came from that process, and when the process is
\* gone, it was killed or said that its clean-up had not worked.
Origin ==
  \A s \in Servers : Names(s) =>
    /\ srv[s].pc \notin {"off", "bind", "publish", "write"}
    /\ srv[s].options \in Options /\ srv[s].options.lifecycle
    /\ file.port = srv[s].port /\ file.token = srv[s].token
    /\ ValidateTokenShape(file.token)
    /\ srv[s].pc = "gone" => srv[s].exit = "killed" \/ srv[s].warned

\* What the holder of the lock knows, and what outlives its release.
Holders ==
  /\ \A s \in Servers :
       /\ srv[s].pc = "validate" => latest = s
       /\ srv[s].pc = "remove" => Names(s)
  /\ latest # None /\ srv[latest].pc \in {"validate", "serve"} => Names(latest)

ServerInv == Shape /\ Locking /\ Configured /\ Bound /\ Origin /\ Holders

ServerStep ==
  \/ \E s \in Servers :
       \/ (\E o \in Options : Start(s, o)) \/ Signal(s) \/ Proceed(s) \/ Disturb(s)
       \/ \E code \in {"ok", "error"} : ShutdownReturns(s, code)
  \/ Spoil

-----------------------------------------------------------------------------
LEMMA Files ==
  /\ Link \notin Descriptors /\ Stale \notin Descriptors
  /\ [Stale EXCEPT !.form = "unreadable"] \notin Descriptors /\ None \notin Descriptors
BY ServerAssumption DEF Link, Stale, Descriptors

(* Whatever names one of the processes is a descriptor.                     *)
LEMMA Named ==
  ASSUME file \in Contents, file # None, file.pid \in Servers
  PROVE  Names(file.pid)
<1>1. Link.pid = None /\ Stale.pid = Former /\ [Stale EXCEPT !.form = "unreadable"].pid = Former
  BY DEF Link, Stale
<1> QED
  BY <1>1, ServerAssumption DEF Contents, Names

LEMMA ExitShape ==
  ASSUME srv \in [Servers -> ServerProcess], NEW s \in Servers,
         NEW code \in {"ok", "error", "killed"}, Exit(s, code)
  PROVE  srv' \in [Servers -> ServerProcess]
<1>1. PICK old \in ServerProcess : old = srv[s]
  OBVIOUS
<1>2. [old EXCEPT !.pc = "gone", !.exit = code] \in ServerProcess
  BY DEF ServerProcess
<1>3. srv' = [srv EXCEPT ![s] = [old EXCEPT !.pc = "gone", !.exit = code]]
  BY <1>1 DEF Exit, ServerProcess
<1> QED
  BY <1>2, <1>3

LEMMA CleanedUpShape ==
  ASSUME srv \in [Servers -> ServerProcess], NEW s \in Servers,
         NEW warned \in BOOLEAN, CleanedUp(s, warned)
  PROVE  srv' \in [Servers -> ServerProcess]
<1>1. PICK old \in ServerProcess : old = srv[s]
  OBVIOUS
<1>2. [old EXCEPT !.pc = "gone", !.warned = warned] \in ServerProcess
  BY DEF ServerProcess
<1>3. srv' = [srv EXCEPT ![s] = [old EXCEPT !.pc = "gone", !.warned = warned]]
  BY <1>1 DEF CleanedUp, ServerProcess
<1> QED
  BY <1>2, <1>3

LEMMA InitInv == ServerInit => ServerInv
<1> SUFFICES ASSUME ServerInit PROVE ServerInv
  OBVIOUS
<1>1. Shape
  BY ServerAssumption DEF ServerInit, Shape, Off, ServerProcess, Tokens, Contents
<1>2. Locking /\ Configured /\ Bound /\ Holders
  BY ServerAssumption
  DEF ServerInit, Off, Locking, Configured, Bound, Listening, Holders
<1>3. Origin
  BY Files DEF ServerInit, Origin, Names
<1> QED
  BY <1>1, <1>2, <1>3 DEF ServerInv

(* A step of one process changes its place and perhaps its exit code.       *)
LEMMA StepInv ==
  ASSUME ServerInv, ServerStep
  PROVE  ServerInv'
<1> USE ServerAssumption, Files DEF ServerInv
<1>1. ASSUME NEW s \in Servers, NEW o \in Options, Start(s, o) PROVE ServerInv'
  <2> USE <1>1 DEF Start, Exit, Prepared
  <2>0. Token(s, o) \in Tokens
    BY DEF Token, Tokens
  <2>1. Shape'
    BY <2>0 DEF Shape, ServerProcess
  <2>2. Locking'
    BY DEF Locking, Shape, ServerProcess
  <2>3. Configured'
    BY DEF Configured, Shape, ServerProcess
  <2>4. Bound'
    BY DEF Bound, Listening, Shape, ServerProcess
  <2>5. Origin'
    BY DEF Origin, Names, Shape, ServerProcess
  <2>6. Holders'
    BY DEF Holders, Names, Shape, ServerProcess
  <2> QED
    BY <2>1, <2>2, <2>3, <2>4, <2>5, <2>6
<1>2. ASSUME NEW s \in Servers, Signal(s) PROVE ServerInv'
  <2> USE <1>2 DEF Signal, At
  <2>1. Shape'
    BY DEF Shape, ServerProcess
  <2>2. Locking'
    BY DEF Locking, Shape, ServerProcess
  <2>3. Configured'
    BY DEF Configured, Shape, ServerProcess
  <2>4. Bound'
    BY DEF Bound, Listening, Configured, Shape, ServerProcess
  <2>5. Origin'
    BY DEF Origin, Names, Configured, Locking, Shape, ServerProcess
  <2>6. Holders'
    BY DEF Holders, Names, Locking, Origin, Shape, ServerProcess
  <2> QED
    BY <2>1, <2>2, <2>3, <2>4, <2>5, <2>6
<1>3. ASSUME NEW s \in Servers, Bind(s) PROVE ServerInv'
  <2> USE <1>3 DEF Bind, Exit, Taken
  <2>1. Shape'
    BY DEF Shape, ServerProcess
  <2>2. Locking'
    BY DEF Locking, Shape, ServerProcess
  <2>3. Configured'
    BY DEF Configured, Shape, ServerProcess
  <2>4. Bound'
    BY DEF Bound, Listening, Configured, Shape, ServerProcess
  <2>5. Origin'
    BY DEF Origin, Names, Configured, Locking, Shape, ServerProcess
  <2>6. Holders'
    BY DEF Holders, Names, Locking, Origin, Shape, ServerProcess
  <2> QED
    BY <2>1, <2>2, <2>3, <2>4, <2>5, <2>6
<1>4. ASSUME NEW s \in Servers, Publish(s) PROVE ServerInv'
  <2> USE <1>4 DEF Publish, Exit, At
  <2>1. Shape'
    BY DEF Shape, ServerProcess
  <2>2. Locking'
    BY DEF Locking, Shape, ServerProcess
  <2>3. Configured'
    BY DEF Configured, Shape, ServerProcess
  <2>4. Bound'
    BY DEF Bound, Listening, Configured, Shape, ServerProcess
  <2>5. Origin'
    BY DEF Origin, Names, Configured, Locking, Shape, ServerProcess
  <2>6. Holders'
    BY DEF Holders, Names, Locking, Origin, Shape, ServerProcess
  <2> QED
    BY <2>1, <2>2, <2>3, <2>4, <2>5, <2>6
<1>5. ASSUME NEW s \in Servers, WriteDescriptor(s) PROVE ServerInv'
  <2> USE <1>5 DEF WriteDescriptor, At, Descriptor
  <2>0. file' \in Descriptors /\ file' \in Contents /\ file'.pid = s
    BY DEF Bound, Listening, Shape, ServerProcess, Descriptors, Contents
  <2>1. Shape'
    BY <2>0 DEF Shape, ServerProcess
  <2>2. Locking'
    BY DEF Locking, Shape, ServerProcess
  <2>3. Configured'
    BY DEF Configured, Shape, ServerProcess
  <2>4. Bound'
    BY DEF Bound, Listening, Configured, Shape, ServerProcess
  <2>5. Origin'
    BY DEF Origin, Names, Configured, Locking, Shape, ServerProcess
  <2>6. Holders'
    BY <2>0 DEF Holders, Names, Locking, Origin, Shape, ServerProcess
  <2> QED
    BY <2>1, <2>2, <2>3, <2>4, <2>5, <2>6
<1>6. ASSUME NEW s \in Servers, WriteFails(s) PROVE ServerInv'
  <2> USE <1>6 DEF WriteFails, Exit, Unlock
  <2>1. Shape'
    <3>1. srv' \in [Servers -> ServerProcess]
      BY ExitShape DEF Shape
    <3>2. faults' \in 0..MaxFaults /\ lock' \in Servers \cup {None}
      BY DEF Shape
    <3>3. file' \in Contents /\ latest' = latest
      BY DEF Shape, Contents
    <3> QED
      BY <3>1, <3>2, <3>3 DEF Shape
  <2>2. Locking'
    BY DEF Locking, Shape, ServerProcess
  <2>3. Configured'
    BY DEF Configured, Shape, ServerProcess
  <2>4. Bound'
    BY DEF Bound, Listening, Configured, Shape, ServerProcess
  <2>5. Origin'
    BY DEF Origin, Names, Configured, Locking, Shape, ServerProcess
  <2>6. Holders'
    BY DEF Holders, Names, Locking, Origin, Shape, ServerProcess
  <2> QED
    BY <2>1, <2>2, <2>3, <2>4, <2>5, <2>6
<1>7. ASSUME NEW s \in Servers, Published(s) PROVE ServerInv'
  <2> USE <1>7 DEF Published, At, Unlock
  <2>1. Shape'
    BY DEF Shape, ServerProcess
  <2>2. Locking'
    BY DEF Locking, Shape, ServerProcess
  <2>3. Configured'
    BY DEF Configured, Shape, ServerProcess
  <2>4. Bound'
    BY DEF Bound, Listening, Configured, Shape, ServerProcess
  <2>5. Origin'
    BY DEF Origin, Names, Configured, Locking, Shape, ServerProcess
  <2>6. Holders'
    BY DEF Holders, Names, Locking, Origin, Shape, ServerProcess
  <2> QED
    BY <2>1, <2>2, <2>3, <2>4, <2>5, <2>6
<1>8. ASSUME NEW s \in Servers, ValidateFails(s) PROVE ServerInv'
  <2> USE <1>8 DEF ValidateFails, Unlock
  <2>0. /\ file' \in Contents
        /\ Names(s)
        /\ file' \in Descriptors => file'.pid = s
    <3>1. Names(s)
      BY DEF Holders
    <3>2. [file EXCEPT !.form = "unreadable"] \in Descriptors
          /\ [file EXCEPT !.form = "unreadable"].pid = s
      BY <3>1 DEF Names, Descriptors
    <3> QED
      BY <3>1, <3>2 DEF Names, Contents
  <2>1. Shape'
    <3>1. PICK old \in ServerProcess : old = srv[s]
      BY DEF Shape
    <3>2. [old EXCEPT !.pc = "gone", !.exit = "error", !.warned = TRUE] \in ServerProcess
      BY DEF ServerProcess
    <3>3. srv' \in [Servers -> ServerProcess]
      BY <3>1, <3>2 DEF Shape, ServerProcess
    <3> QED
      BY <2>0, <3>3 DEF Shape
  <2>2. Locking'
    BY DEF Locking, Shape, ServerProcess
  <2>3. Configured'
    BY DEF Configured, Shape, ServerProcess
  <2>4. Bound'
    BY DEF Bound, Listening, Configured, Shape, ServerProcess
  <2>5. Origin'
    <3>1. ASSUME NEW t \in Servers, Names(t)'
          PROVE  t = s /\ file'.port = file.port /\ file'.token = file.token
      BY <2>0, <3>1 DEF Names, Descriptors
    <3> QED
      BY <2>0, <3>1 DEF Origin, Shape, ServerProcess
  <2>6. Holders'
    <3>1. latest = s /\ srv'[s].pc = "gone"
      BY DEF Holders, Shape, ServerProcess
    <3>2. ASSUME NEW t \in Servers, t # s PROVE srv'[t].pc \notin {"validate", "remove"}
      BY <3>2 DEF Locking, Shape, ServerProcess
    <3> QED
      BY <3>1, <3>2 DEF Holders
  <2> QED
    BY <2>1, <2>2, <2>3, <2>4, <2>5, <2>6
<1>9. ASSUME NEW s \in Servers, ServeFails(s) PROVE ServerInv'
  <2> USE <1>9 DEF ServeFails, Leave
  <2>1. Shape'
    BY DEF Shape, ServerProcess
  <2>2. Locking'
    BY DEF Locking, Shape, ServerProcess
  <2>3. Configured'
    BY DEF Configured, Shape, ServerProcess
  <2>4. Bound'
    BY DEF Bound, Listening, Configured, Shape, ServerProcess
  <2>5. Origin'
    BY DEF Origin, Names, Configured, Locking, Shape, ServerProcess
  <2>6. Holders'
    BY DEF Holders, Names, Locking, Origin, Shape, ServerProcess
  <2> QED
    BY <2>1, <2>2, <2>3, <2>4, <2>5, <2>6
<1>10. ASSUME NEW s \in Servers, Crash(s) PROVE ServerInv'
  <2> USE <1>10 DEF Crash, Exit, Unlock
  <2>1. Shape'
    <3>1. srv' \in [Servers -> ServerProcess]
      BY ExitShape DEF Shape
    <3>2. faults' \in 0..MaxFaults /\ lock' \in Servers \cup {None}
      BY DEF Shape
    <3>3. file' \in Contents /\ latest' = latest
      BY DEF Shape, Contents
    <3> QED
      BY <3>1, <3>2, <3>3 DEF Shape
  <2>2. Locking'
    BY DEF Locking, Shape, ServerProcess
  <2>3. Configured'
    BY DEF Configured, Shape, ServerProcess
  <2>4. Bound'
    BY DEF Bound, Listening, Configured, Shape, ServerProcess
  <2>5. Origin'
    BY DEF Origin, Names, Configured, Locking, Shape, ServerProcess
  <2>6. Holders'
    BY DEF Holders, Names, Locking, Origin, Shape, ServerProcess
  <2> QED
    BY <2>1, <2>2, <2>3, <2>4, <2>5, <2>6
<1>11. ASSUME NEW s \in Servers, CleanUp(s) PROVE ServerInv'
  <2> USE <1>11 DEF CleanUp, CleanedUp, At
  <2>1. Shape'
    BY DEF Shape, ServerProcess
  <2>2. Locking'
    BY DEF Locking, Shape, ServerProcess
  <2>3. Configured'
    BY DEF Configured, Shape, ServerProcess
  <2>4. Bound'
    BY DEF Bound, Listening, Configured, Shape, ServerProcess
  <2>5. Origin'
    BY DEF Origin, Names, Configured, Locking, Shape, ServerProcess
  <2>6. Holders'
    BY DEF Holders, Names, Locking, Origin, Shape, ServerProcess
  <2> QED
    BY <2>1, <2>2, <2>3, <2>4, <2>5, <2>6
<1>12. ASSUME NEW s \in Servers, CheckOwner(s) PROVE ServerInv'
  <2> USE <1>12 DEF CheckOwner, CleanedUp, At, Unlock, Owns, Readable
  <2>0. Owns(s) => Names(s)
    BY Named DEF Shape
  <2>1. Shape'
    <3>1. CASE Owns(s)
      BY <3>1 DEF Shape, ServerProcess
    <3>2. CASE ~Owns(s)
      <4>1. PICK warned \in BOOLEAN : warned = (file # None /\ ~Readable)
        OBVIOUS
      <4>2. CleanedUp(s, warned)
        BY <3>2, <4>1
      <4>3. srv' \in [Servers -> ServerProcess]
        BY <4>2, CleanedUpShape DEF Shape
      <4>4. lock' \in Servers \cup {None}
        BY <3>2 DEF Shape
      <4> QED
        BY <4>3, <4>4 DEF Shape
    <3> QED
      BY <3>1, <3>2
  <2>2. Locking'
    BY DEF Locking, Shape, ServerProcess
  <2>3. Configured'
    BY DEF Configured, Shape, ServerProcess
  <2>4. Bound'
    BY DEF Bound, Listening, Configured, Shape, ServerProcess
  <2>5. Origin'
    BY DEF Descriptors, Origin, Names, Configured, Locking, Shape, ServerProcess
  <2>6. Holders'
    BY <2>0 DEF Holders, Names, Locking, Origin, Shape, ServerProcess
  <2> QED
    BY <2>1, <2>2, <2>3, <2>4, <2>5, <2>6
<1>13. ASSUME NEW s \in Servers, RemoveDescriptor(s) PROVE ServerInv'
  <2> USE <1>13 DEF RemoveDescriptor, CleanedUp, Unlock
  <2>1. Shape'
    <3>1. CleanedUp(s, FALSE) /\ file' = None /\ latest' = latest
      OBVIOUS
    <3>2. srv' \in [Servers -> ServerProcess]
      BY <3>1, CleanedUpShape DEF Shape
    <3>3. lock' \in Servers \cup {None} /\ faults' = faults
      BY DEF Shape
    <3> QED
      BY <3>1, <3>2, <3>3 DEF Shape, Contents
  <2>2. Locking'
    BY DEF Locking, Shape, ServerProcess
  <2>3. Configured'
    BY DEF Configured, Shape, ServerProcess
  <2>4. Bound'
    BY DEF Bound, Listening, Configured, Shape, ServerProcess
  <2>5. Origin'
    BY DEF Origin, Names, Configured, Locking, Shape, ServerProcess
  <2>6. Holders'
    BY DEF Holders, Names, Locking, Origin, Shape, ServerProcess
  <2> QED
    BY <2>1, <2>2, <2>3, <2>4, <2>5, <2>6
<1>14. ASSUME NEW s \in Servers, NEW code \in {"ok", "error"}, ShutdownReturns(s, code) PROVE ServerInv'
  <2> USE <1>14 DEF ShutdownReturns, Leave
  <2>1. Shape'
    BY DEF Shape, ServerProcess
  <2>2. Locking'
    BY DEF Locking, Shape, ServerProcess
  <2>3. Configured'
    BY DEF Configured, Shape, ServerProcess
  <2>4. Bound'
    BY DEF Bound, Listening, Configured, Shape, ServerProcess
  <2>5. Origin'
    BY DEF Origin, Names, Configured, Locking, Shape, ServerProcess
  <2>6. Holders'
    BY DEF Holders, Names, Locking, Origin, Shape, ServerProcess
  <2> QED
    BY <2>1, <2>2, <2>3, <2>4, <2>5, <2>6
<1>16. ASSUME NEW s \in Servers, CleanUpFails(s) PROVE ServerInv'
  <2> USE <1>16 DEF CleanUpFails, CleanedUp, Unlock
  <2>1. Shape'
    <3>1. srv' \in [Servers -> ServerProcess]
      BY CleanedUpShape DEF Shape
    <3>2. faults' \in 0..MaxFaults /\ lock' \in Servers \cup {None}
      BY DEF Shape
    <3>3. file' \in Contents /\ latest' = latest
      BY DEF Shape, Contents
    <3> QED
      BY <3>1, <3>2, <3>3 DEF Shape
  <2>2. Locking'
    BY DEF Locking, Shape, ServerProcess
  <2>3. Configured'
    BY DEF Configured, Shape, ServerProcess
  <2>4. Bound'
    BY DEF Bound, Listening, Configured, Shape, ServerProcess
  <2>5. Origin'
    BY DEF Origin, Names, Configured, Locking, Shape, ServerProcess
  <2>6. Holders'
    BY DEF Holders, Names, Locking, Origin, Shape, ServerProcess
  <2> QED
    BY <2>1, <2>2, <2>3, <2>4, <2>5, <2>6
<1>15. CASE Spoil
  <2> USE <1>15 DEF Spoil
  <2>1. file \in {Stale} \cup Descriptors
    <3>1. Link.form = "link" /\ [Stale EXCEPT !.form = "unreadable"].form = "unreadable"
      BY DEF Link, Stale
    <3> QED
      BY <3>1 DEF Shape, Contents
  <2>2. Shape' /\ Locking' /\ Configured' /\ Bound'
    BY <2>1 DEF Shape, Contents, Descriptors, Locking, Configured, Bound, Listening
  <2>3. Origin'
    BY <2>1 DEF Origin, Names, Descriptors
  <2>4. Holders'
    BY <2>1 DEF Holders, Names, Descriptors
  <2> QED
    BY <2>2, <2>3, <2>4
<1> QED
  BY <1>1, <1>2, <1>3, <1>4, <1>5, <1>6, <1>7, <1>8, <1>9, <1>10, <1>11, <1>12, <1>13, <1>14, <1>15, <1>16
  DEF ServerStep, Proceed, Disturb

-----------------------------------------------------------------------------
LEMMA ServerNext == [Next]_vars => ServerStep \/ UNCHANGED svars
<1> SUFFICES ASSUME [Next]_vars PROVE ServerStep \/ UNCHANGED svars
  OBVIOUS
<1>1. CASE Process
  BY <1>1 DEF Process, ServerStep
<1>2. ASSUME NEW s \in Servers, Shutdown(s) PROVE ServerStep
  BY <1>2 DEF Shutdown, ServerStep
<1>3. ASSUME NEW r \in Requests, Client(r) \/ Serve(r) \/ ClientLeaves(r)
      PROVE  UNCHANGED svars
  BY <1>3 DEF Client, Connect, Serve, Handle, CloseUnread, BodyArrives, BodyTimesOut,
       EnhanceReturns, HandlerTimesOut, ClientLeaves
<1> QED
  BY <1>1, <1>2, <1>3 DEF Next, Tick, vars

LEMMA ServerInvHolds == Spec => []ServerInv
<1>1. Init => ServerInv
  BY InitInv DEF Init
<1>2. ServerInv /\ [Next]_vars => ServerInv'
  <2> SUFFICES ASSUME ServerInv, [Next]_vars PROVE ServerInv'
    OBVIOUS
  <2>1. CASE ServerStep
    BY <2>1, StepInv
  <2>2. CASE UNCHANGED svars
    BY <2>2 DEF svars, ServerInv, Shape, Locking, Configured, Bound, Listening,
         Origin, Names, Holders
  <2> QED
    BY <2>1, <2>2, ServerNext
<1> QED
  BY <1>1, <1>2, PTL DEF Spec

(***************************************************************************)
(* The server that wrote the descriptor last is the one it names as long   *)
(* as it serves, with the address it is bound to, and a server that ended  *)
(* by itself is named only if it said that its clean-up had not worked     *)
(* (descriptor.go:188, runtime.go:135, 167), for any number of processes,  *)
(* configurations and faults.                                              *)
(***************************************************************************)
THEOREM DescriptorHolds == Spec => []DescriptorInv
<1>1. ServerInv => DescriptorInv
  <2> SUFFICES ASSUME ServerInv PROVE DescriptorInv
    OBVIOUS
  <2> USE ServerAssumption DEF ServerInv
  <2>1. ServerTypeOK
    BY DEF ServerTypeOK, Shape, ServerProcess, Locking
  <2>2. LiveServerDiscoverable
    BY Files DEF LiveServerDiscoverable, Holders, Names, Shape
  <2>3. AdvertisesBoundAddress
    BY Named DEF AdvertisesBoundAddress, Origin, Bound, Names, Descriptors, Shape
  <2>4. LeftoverIsReported
    BY Named DEF LeftoverIsReported, Origin, Names, Shape
  <2> QED
    BY <2>1, <2>2, <2>3, <2>4 DEF DescriptorInv
<1> QED
  BY <1>1, ServerInvHolds, PTL


-----------------------------------------------------------------------------
Answers == [status : Nat, cors : BOOLEAN]

Request ==
  [pc     : {"new", "connected", "body", "enhance", "answered", "left", "closed", "dropped"},
   call   : Calls \cup {None},
   token  : Servers \cup {"shared", None},
   to     : Servers \cup {None},
   age    : Nat,
   waited : Nat,
   answer : Answers \cup {None}]

RequestShape ==
  /\ req \in [Requests -> Request]
  /\ stopAge \in [Servers -> 0..ShutdownTimeout]

\* A request that reached a server was sent to one with a configuration.
Reached(r) ==
  /\ req[r].to \in Servers
  /\ srv[req[r].to].pc # "off" /\ srv[req[r].to].options \in Options

\* What the layers in front of the enhancer have decided about r.
Admitted(r) ==
  LET s == req[r].to IN
  /\ ~Preflight(s, req[r].call) /\ Authorized(s, req[r].call, req[r].token)
  /\ req[r].call.path = "/v1/prompt-enhance"

Answered(r) ==
  LET s == req[r].to
      answer == req[r].answer
  IN  /\ answer \in Answers
      /\ answer.cors = CorsAnswers(s, req[r].call)
      /\ Preflight(s, req[r].call) => answer.status = 204
      /\ Authorized(s, req[r].call, req[r].token) \/ answer.status \in {204, 401}

\* A clean shutdown still has to wait for it.
Pending(r) == req[r].pc \in {"connected", "body", "enhance"}

RequestOK(r) ==
  /\ req[r].pc \notin {"new", "left", "closed"} => Reached(r)
  /\ req[r].pc = "new" => req[r].age = 0
  /\ req[r].pc = "connected" => req[r].age <= ReadHeaderTimeout
  /\ Pending(r) => srv[req[r].to].exit # "ok"
  /\ Open(r) => req[r].age <= PromptTimeout(req[r].to) /\ Admitted(r)
  /\ req[r].pc = "answered" => Answered(r)
  /\ req[r].pc = "dropped" =>
       srv[req[r].to].pc = "gone" /\ srv[req[r].to].exit \in {"error", "killed"}

RequestInv == RequestShape /\ \A r \in Requests : RequestOK(r)

(* A process that was started keeps its configuration and its token, and    *)
(* one that is gone stays as it is.                                         *)
LEMMA Kept ==
  ASSUME ServerInv, ServerStep \/ UNCHANGED svars, NEW s \in Servers, srv[s].pc # "off"
  PROVE  /\ srv'[s].pc # "off"
         /\ srv'[s].options = srv[s].options /\ srv'[s].token = srv[s].token
         /\ srv[s].pc = "gone" => srv'[s] = srv[s]
<1> USE DEF ServerInv, Shape, ServerProcess
<1>1. ASSUME NEW t \in Servers, NEW o \in Options, Start(t, o)
      PROVE  srv'[s] = srv[s]
  BY <1>1 DEF Start, Exit
<1>2. ASSUME NEW t \in Servers,
             Publish(t) \/ WriteDescriptor(t) \/ Published(t) \/ Signal(t)
      PROVE  /\ srv'[s].pc # "off"
             /\ srv'[s].options = srv[s].options /\ srv'[s].token = srv[s].token
             /\ srv[s].pc = "gone" => srv'[s] = srv[s]
  BY <1>2 DEF Publish, WriteDescriptor, Published, Signal, At, Exit
<1>3. ASSUME NEW t \in Servers, CleanUp(t) \/ CheckOwner(t) \/ RemoveDescriptor(t)
                                  \/ CleanUpFails(t)
      PROVE  /\ srv'[s].pc # "off"
             /\ srv'[s].options = srv[s].options /\ srv'[s].token = srv[s].token
             /\ srv[s].pc = "gone" => srv'[s] = srv[s]
  BY <1>3 DEF CleanUp, CheckOwner, RemoveDescriptor, CleanUpFails, CleanedUp, At
<1>4. ASSUME NEW t \in Servers,
             WriteFails(t) \/ ValidateFails(t) \/ ServeFails(t) \/ Crash(t)
               \/ \E code \in {"ok", "error"} : ShutdownReturns(t, code)
      PROVE  /\ srv'[s].pc # "off"
             /\ srv'[s].options = srv[s].options /\ srv'[s].token = srv[s].token
             /\ srv[s].pc = "gone" => srv'[s] = srv[s]
  BY <1>4 DEF WriteFails, ValidateFails, ServeFails, Crash, ShutdownReturns, Leave, Exit
<1>5. ASSUME NEW t \in Servers, Bind(t)
      PROVE  /\ srv'[s].pc # "off"
             /\ srv'[s].options = srv[s].options /\ srv'[s].token = srv[s].token
             /\ srv[s].pc = "gone" => srv'[s] = srv[s]
  <2>1. PICK p : srv' = [srv EXCEPT ![t].pc = "gone", ![t].exit = "error"]
                 \/ srv' = [srv EXCEPT ![t].port = p, ![t].pc = "publish"]
                 \/ srv' = [srv EXCEPT ![t].port = p, ![t].pc = "serve"]
    BY <1>5 DEF Bind, Exit
  <2>2. srv[t].pc = "bind"
    BY <1>5 DEF Bind
  <2> QED
    BY <2>1, <2>2
<1>6. CASE Spoil \/ UNCHANGED svars
  BY <1>6 DEF Spoil, svars
<1> QED
  BY <1>1, <1>2, <1>3, <1>4, <1>5, <1>6 DEF ServerStep, Proceed, Disturb

(* Only a shutdown ends cleanly.                                            *)
LEMMA ProcessEnds ==
  ASSUME ServerInv, Process, NEW s \in Servers, srv'[s].exit = "ok"
  PROVE  srv[s].exit = "ok"
<1> USE DEF ServerInv, Shape, ServerProcess
<1>1. ASSUME NEW t \in Servers, NEW o \in Options, Start(t, o)
      PROVE  srv[s].exit = "ok"
  BY <1>1 DEF Start, Exit
<1>2. ASSUME NEW t \in Servers,
             Publish(t) \/ WriteDescriptor(t) \/ Published(t) \/ Signal(t)
      PROVE  srv[s].exit = "ok"
  BY <1>2 DEF Publish, WriteDescriptor, Published, Signal, At, Exit
<1>3. ASSUME NEW t \in Servers, CleanUp(t) \/ CheckOwner(t) \/ RemoveDescriptor(t)
                                  \/ CleanUpFails(t)
      PROVE  srv[s].exit = "ok"
  BY <1>3 DEF CleanUp, CheckOwner, RemoveDescriptor, CleanUpFails, CleanedUp, At
<1>4. ASSUME NEW t \in Servers,
             WriteFails(t) \/ ValidateFails(t) \/ ServeFails(t) \/ Crash(t)
      PROVE  srv[s].exit = "ok"
  BY <1>4 DEF WriteFails, ValidateFails, ServeFails, Crash, Leave, Exit
<1>5. ASSUME NEW t \in Servers, Bind(t)
      PROVE  srv[s].exit = "ok"
  <2>1. PICK p : srv' = [srv EXCEPT ![t].pc = "gone", ![t].exit = "error"]
                 \/ srv' = [srv EXCEPT ![t].port = p, ![t].pc = "publish"]
                 \/ srv' = [srv EXCEPT ![t].port = p, ![t].pc = "serve"]
    BY <1>5 DEF Bind, Exit
  <2> QED
    BY <2>1
<1>6. CASE Spoil
  BY <1>6 DEF Spoil
<1> QED
  BY <1>1, <1>2, <1>3, <1>4, <1>5, <1>6 DEF Process, Proceed, Disturb

(* A shutdown that returns without an error had nothing left to wait for.   *)
LEMMA ShutdownEnds ==
  ASSUME ServerInv, NEW t \in Servers, Shutdown(t), NEW s \in Servers, srv'[s].exit = "ok"
  PROVE  srv[s].exit = "ok" \/ (s = t /\ ~Active(t))
<1> USE DEF ServerInv, Shape, ServerProcess, ShutdownReturns, Leave
<1>1. CASE ~Active(t) /\ ShutdownReturns(t, "ok")
  BY <1>1
<1>2. CASE ShutdownReturns(t, "error")
  BY <1>2
<1> QED
  BY <1>1, <1>2 DEF Shutdown

(* No answer of the timeout comes after the write deadline (runtime.go:202).*)
LEMMA Timers ==
  ASSUME NEW s \in Servers, srv[s].options \in Options
  PROVE  /\ PromptTimeout(s) \in Nat /\ WriteTimeout(s) \in Nat
         /\ PromptTimeout(s) < WriteTimeout(s) /\ 0 < WriteTimeout(s)
BY HttpAssumption DEF PromptTimeout, WriteTimeout, EnhanceTimeout

(* The same request with the same configuration is as good as before.       *)
LEMMA Calm ==
  ASSUME ServerInv, ServerStep \/ UNCHANGED svars,
         NEW r \in Requests, RequestOK(r), req'[r] = req[r],
         Pending(r) => srv'[req[r].to].exit # "ok"
  PROVE  RequestOK(r)'
<1>1. CASE req[r].pc \in {"new", "left", "closed"}
  BY <1>1 DEF RequestOK, Open, Pending
<1>2. CASE req[r].pc \notin {"new", "left", "closed"}
  <2>1. Reached(r)
    BY <1>2 DEF RequestOK
  <2>2. Reached(r)' /\ srv'[req[r].to].options = srv[req[r].to].options
        /\ srv'[req[r].to].token = srv[req[r].to].token
        /\ (srv[req[r].to].pc = "gone" => srv'[req[r].to] = srv[req[r].to])
    BY <2>1, Kept DEF Reached
  <2>3. Open(r)' => (req[r].age <= PromptTimeout(req[r].to))' /\ Admitted(r)'
    BY <2>2 DEF RequestOK, Open, PromptTimeout, EnhanceTimeout, Admitted, Preflight,
         Authorized
  <2>4. req'[r].pc = "answered" => Answered(r)'
    BY <2>2 DEF RequestOK, Answered, Preflight, Authorized, CorsAnswers
  <2> QED
    BY <1>2, <2>2, <2>3, <2>4 DEF RequestOK, Reached, Pending
<1> QED
  BY <1>1, <1>2

(* A step of one request alone.                                             *)
LEMMA Alone ==
  ASSUME ServerInv, RequestInv, UNCHANGED <<svars, stopAge>>, NEW r \in Requests,
         NEW new \in Request, req' = [req EXCEPT ![r] = new], RequestOK(r)'
  PROVE  RequestInv'
<1>1. RequestShape'
  BY DEF RequestInv, RequestShape
<1>2. ASSUME NEW q \in Requests PROVE RequestOK(q)'
  <2>1. CASE q = r
    BY <2>1
  <2>2. CASE q # r
    <3>1. RequestOK(q) /\ req'[q] = req[q] /\ srv' = srv
      BY <2>2 DEF RequestInv, RequestShape, svars
    <3>2. Pending(q) => srv'[req[q].to].exit # "ok"
      BY <3>1 DEF RequestOK
    <3> QED
      BY <3>1, <3>2, Calm
  <2> QED
    BY <2>1, <2>2
<1> QED
  BY <1>1, <1>2 DEF RequestInv

LEMMA AnswerShape ==
  ASSUME NEW s, NEW q, NEW l \in Layers, NEW status \in Nat
  PROVE  /\ Answer(s, q, l, status) \in Answers
         /\ Answer(s, q, l, status) # None
         /\ Answer(s, q, l, status).status = status
         /\ Answer(s, q, l, status).cors = CorsAnswers(s, q)
<1>1. CorsAnswers(s, q) \in BOOLEAN
  BY DEF CorsAnswers
<1>2. Depth("cors") <= Depth(l)
  BY DEF Depth, Layers
<1> QED
  BY <1>1, <1>2, HttpAssumption DEF Answer, Answers

(* Whichever layers have an answer, one of them is the outermost.           *)
LEMMA Outermost ==
  ASSUME NEW A \in SUBSET Layers, A # {}
  PROVE  \E k \in A : \A m \in A : Depth(k) <= Depth(m)
<1> USE DEF Layers, Depth
<1>1. CASE "cors" \in A
  BY <1>1
<1>2. CASE "cors" \notin A /\ "auth" \in A
  BY <1>2
<1>3. CASE A \subseteq {"mux", "timeout", "prompt"} /\ "mux" \in A
  BY <1>3
<1>4. CASE A \subseteq {"timeout", "prompt"} /\ "timeout" \in A
  BY <1>4
<1>5. CASE A = {"prompt"}
  BY <1>5
<1> QED
  BY <1>1, <1>2, <1>3, <1>4, <1>5

(* What the layers decide about a request when its headers have been read.  *)
LEMMA Routed ==
  ASSUME NEW s, NEW q, NEW token, NEW answer, answer = Route(s, q, token)
  PROVE  \/ /\ answer = None /\ ~Preflight(s, q) /\ Authorized(s, q, token)
            /\ q.path = "/v1/prompt-enhance"
         \/ /\ answer \in Answers /\ answer # None
            /\ answer.cors = CorsAnswers(s, q)
            /\ Preflight(s, q) => answer.status = 204
            /\ Authorized(s, q, token) \/ answer.status \in {204, 401}
<1> DEFINE A == Answering(s, q, token)
<1>1. A \in SUBSET Layers
  BY DEF Answering
<1>2. /\ Preflight(s, q) => "cors" \in A
      /\ ~Authorized(s, q, token) => "auth" \in A
      /\ q.path # "/v1/prompt-enhance" => "mux" \in A
  BY HttpAssumption DEF Answering, Status, Layers
<1>3. CASE A = {}
  BY <1>2, <1>3 DEF Route
<1>4. CASE A # {}
  <2>1. PICK l \in A : /\ \A m \in A : Depth(l) <= Depth(m)
                       /\ answer = Answer(s, q, l, Status(s, q, token, l))
    <3>1. \E k \in A : \A m \in A : Depth(k) <= Depth(m)
      BY <1>1, <1>4, Outermost
    <3> QED
      BY <1>4, <3>1 DEF Route
  <2>2. l \in Layers /\ Status(s, q, token, l) # None
    BY DEF Answering
  <2>3. PICK status \in Nat : status = Status(s, q, token, l)
    BY <2>2 DEF Status, Layers
  <2>4. Preflight(s, q) => status = 204
    <3>1. SUFFICES ASSUME Preflight(s, q) PROVE status = 204
      OBVIOUS
    <3>2. l = "cors"
      BY <1>2, <2>1, <2>2, <3>1 DEF Depth, Layers
    <3> QED
      BY <2>3, <3>1, <3>2 DEF Status
  <2>5. Authorized(s, q, token) \/ status \in {204, 401}
    <3>1. SUFFICES ASSUME ~Authorized(s, q, token) PROVE status \in {204, 401}
      OBVIOUS
    <3>2. l \in {"cors", "auth"}
      BY <1>2, <2>1, <2>2, <3>1 DEF Depth, Layers
    <3> QED
      BY <2>2, <2>3, <3>1, <3>2 DEF Status
  <2> QED
    BY <2>1, <2>2, <2>3, <2>4, <2>5, AnswerShape
<1> QED
  BY <1>3, <1>4

LEMMA InAnswer ==
  ASSUME NEW q \in Request, NEW a \in Answers
  PROVE  [q EXCEPT !.answer = a, !.age = 0, !.waited = 0, !.pc = "answered"]
           \in Request
BY DEF Request

(* An answer in time reaches the client.                                    *)
LEMMA AnswerArrives ==
  ASSUME ServerInv, RequestInv, UNCHANGED <<svars, stopAge>>, NEW r \in Requests,
         Open(r), NEW answer \in Answers,
         answer.cors = CorsAnswers(req[r].to, req[r].call),
         Respond(r, answer)
  PROVE  RequestInv'
<1>0. Reached(r) /\ Admitted(r) /\ req[r].age <= PromptTimeout(req[r].to)
  BY DEF RequestInv, RequestOK, Open
<1>1. PICK old \in Request : old = req[r]
  BY DEF RequestInv, RequestShape
<1> DEFINE new == [old EXCEPT !.answer = answer, !.age = 0, !.waited = 0, !.pc = "answered"]
<1>2. req[r].age < WriteTimeout(req[r].to)
  BY <1>0, <1>1, Timers DEF Reached, Request
<1>3. req' = [req EXCEPT ![r] = new]
  BY <1>1, <1>2 DEF Respond, RequestInv, RequestShape, Request
<1>5. new \in Request
  BY InAnswer
<1>6. req'[r].pc = "answered" /\ req'[r].answer = answer /\ req'[r].to = req[r].to
      /\ req'[r].call = req[r].call /\ req'[r].token = req[r].token
  BY <1>1, <1>3 DEF RequestInv, RequestShape, Request
<1>7. Reached(r)'
  BY <1>0, <1>6 DEF Reached, svars
<1>8. Answered(r)'
  BY <1>0, <1>6 DEF Answered, Admitted, Preflight, Authorized, CorsAnswers, svars
<1>9. RequestOK(r)'
  BY <1>6, <1>7, <1>8 DEF RequestOK, Open, Pending
<1> QED
  BY <1>3, <1>5, <1>9, Alone

LEMMA Responds ==
  ASSUME ServerInv, RequestInv, UNCHANGED <<svars, stopAge>>, NEW r \in Requests,
         Open(r), NEW l \in Layers, NEW status \in Nat,
         Respond(r, Answer(req[r].to, req[r].call, l, status))
  PROVE  RequestInv'
BY AnswerShape, AnswerArrives

(* The process takes a step: its connections end with it or go on.          *)
LEMMA Ends ==
  ASSUME ServerInv, ServerInv', RequestInv, ServerStep, EndConnections,
         stopAge' \in [Servers -> 0..ShutdownTimeout],
         \A r \in Requests : Pending(r) => srv'[req[r].to].exit # "ok"
  PROVE  RequestInv'
<1>1. RequestShape'
  <2>1. ASSUME NEW r \in Requests
        PROVE  /\ req[r] \in Request
               /\ [req[r] EXCEPT !.pc = "dropped", !.age = 0, !.waited = 0] \in Request
               /\ [New EXCEPT !.pc = "closed"] \in Request
    BY DEF RequestInv, RequestShape, Request, New
  <2> QED
    BY <2>1 DEF RequestInv, RequestShape, EndConnections
<1>2. ASSUME NEW r \in Requests PROVE RequestOK(r)'
  <2>0. PICK old \in Request : old = req[r]
    BY DEF RequestInv, RequestShape
  <2>1. CASE req'[r] = req[r]
    BY <2>1, Calm DEF RequestInv
  <2>2. CASE req'[r] # req[r]
    <3>1. /\ Pending(r) /\ srv'[req[r].to].pc = "gone"
          /\ \/ Open(r) /\ req'[r] = [old EXCEPT !.pc = "dropped", !.age = 0, !.waited = 0]
             \/ req'[r] = [New EXCEPT !.pc = "closed"]
      BY <2>0, <2>2 DEF EndConnections, Open, Pending
    <3>2. \/ req'[r].pc = "dropped" /\ req'[r].to = req[r].to
          \/ req'[r].pc = "closed"
      BY <2>0, <3>1 DEF Request, New
    <3>3. req[r].to \in Servers /\ srv[req[r].to].pc # "off" /\ srv[req[r].to].options \in Options
      BY <3>1 DEF RequestInv, RequestOK, Reached, Pending
    <3>4. req'[r].pc = "dropped" => Reached(r)'
      BY <3>2, <3>3, Kept DEF Reached
    <3>5. srv'[req[r].to].exit \in {"error", "killed"}
      BY <3>1, <3>3 DEF ServerInv, Configured, Shape, ServerProcess
    <3> QED
      BY <3>1, <3>2, <3>4, <3>5 DEF RequestOK, Open, Pending
  <2> QED
    BY <2>1, <2>2
<1> QED
  BY <1>1, <1>2 DEF RequestInv

LEMMA RequestStep ==
  ASSUME ServerInv, ServerInv', RequestInv, [Next]_vars
  PROVE  RequestInv'
<1> USE DEF RequestInv
<1>0. ASSUME NEW r \in Requests, Pending(r)
      PROVE  srv[req[r].to].exit # "ok" /\ req[r].to \in Servers
  BY <1>0 DEF RequestOK, Reached, Pending
<1>1. CASE Process
  <2>1. \A r \in Requests : Pending(r) => srv'[req[r].to].exit # "ok"
    BY <1>0, <1>1, ProcessEnds
  <2> QED
    BY <1>1, <2>1, Ends DEF Process, ServerStep, RequestShape
<1>2. ASSUME NEW s \in Servers, Shutdown(s) PROVE RequestInv'
  <2>1. ASSUME NEW r \in Requests, Pending(r) PROVE srv'[req[r].to].exit # "ok"
    <3>1. req[r].to = s => Active(s)
      BY <2>1 DEF Active, Pending, Open
    <3> QED
      BY <1>0, <1>2, <2>1, <3>1, ShutdownEnds
  <2>2. ServerStep /\ EndConnections
    BY <1>2 DEF Shutdown, ServerStep
  <2>3. stopAge' \in [Servers -> 0..ShutdownTimeout]
    BY <1>2 DEF Shutdown, RequestShape, ShutdownTimeout
  <2> QED
    BY <2>1, <2>2, <2>3, Ends
<1>3. ASSUME NEW r \in Requests, NEW q \in Calls, NEW s \in Servers,
             NEW token \in Servers \cup {"shared", None}, Connect(r, q, s, token)
      PROVE  RequestInv'
  <2>1. PICK old \in Request : old = req[r]
    BY DEF RequestShape
  <2> DEFINE new == [old EXCEPT !.pc = "connected", !.call = q, !.to = s, !.token = token]
  <2>2. old.age = 0
    BY <1>3, <2>1 DEF Connect, RequestOK
  <2>3. req' = [req EXCEPT ![r] = new] /\ new \in Request
    BY <1>3, <2>1 DEF Connect, RequestShape, Request
  <2>4. srv[s].pc # "off" /\ srv[s].options \in Options /\ srv[s].exit # "ok"
    BY <1>3, ServerAssumption DEF Connect, Listening, ServerInv, Configured
  <2>5. req'[r].pc = "connected" /\ req'[r].to = s /\ req'[r].age = 0
    BY <2>2, <2>3 DEF RequestShape, Request
  <2>6. RequestOK(r)'
    BY <1>3, <2>4, <2>5 DEF RequestOK, Reached, Open, Pending, ReadHeaderTimeout, Connect, svars
  <2> QED
    BY <1>3, <2>3, <2>6, Alone DEF Connect
<1>4. ASSUME NEW r \in Requests, Handle(r) PROVE RequestInv'
  <2>1. PICK old \in Request : old = req[r]
    BY DEF RequestShape
  <2>2. PICK answer : answer = Route(req[r].to, req[r].call, req[r].token)
    OBVIOUS
  <2>3. Reached(r) /\ srv[req[r].to].exit # "ok"
    BY <1>4 DEF Handle, Waiting, RequestOK, Pending
  <2>4. answer \in Answers \cup {None}
    BY <2>2, Routed
  <2> DEFINE new == [old EXCEPT !.answer = answer, !.age = 0,
                       !.waited = IF answer = None THEN old.age ELSE 0,
                       !.pc = IF answer = None THEN "body" ELSE "answered"]
  <2>5. req' = [req EXCEPT ![r] = new]
    BY <1>4, <2>1, <2>2 DEF Handle, RequestShape, Request
  <2>6. new \in Request
    BY <2>4 DEF Request
  <2>7. /\ req'[r].pc = IF answer = None THEN "body" ELSE "answered"
        /\ req'[r].answer = answer /\ req'[r].to = req[r].to /\ req'[r].call = req[r].call
        /\ req'[r].token = req[r].token /\ req'[r].age = 0
    BY <2>1, <2>5 DEF RequestShape, Request
  <2>8. srv' = srv /\ Reached(r)' /\ (srv[req[r].to].exit # "ok")'
    BY <1>4, <2>3, <2>7 DEF Handle, svars, Reached
  <2>9. CASE answer = None
    <3>1. Admitted(r)'
      <4>1. /\ ~Preflight(req[r].to, req[r].call) /\ req[r].call.path = "/v1/prompt-enhance"
            /\ Authorized(req[r].to, req[r].call, req[r].token)
        <5>1. answer \notin Answers \/ answer = None
          BY <2>9
        <5> QED
          BY <2>2, <5>1, Routed
      <4> QED
        BY <2>7, <2>8, <4>1 DEF Admitted, Preflight, Authorized
    <3>2. (req[r].age <= PromptTimeout(req[r].to))'
      BY <2>3, <2>7, <2>8, Timers DEF Reached, PromptTimeout, EnhanceTimeout
    <3>3. req'[r].pc = "body"
      BY <2>7, <2>9
    <3>4. RequestOK(r)'
      BY <2>8, <3>1, <3>2, <3>3 DEF RequestOK, Open, Pending
    <3> QED
      BY <1>4, <2>5, <2>6, <3>4, Alone DEF Handle
  <2>10. CASE answer # None
    <3>1. Answered(r)'
      BY <2>2, <2>7, <2>8, <2>10, Routed DEF Answered, Preflight, Authorized, CorsAnswers
    <3>2. RequestOK(r)'
      BY <2>7, <2>8, <2>10, <3>1 DEF RequestOK, Open, Pending
    <3> QED
      BY <1>4, <2>5, <2>6, <3>2, Alone DEF Handle
  <2> QED
    BY <2>9, <2>10
<1>5. ASSUME NEW r \in Requests, CloseUnread(r) PROVE RequestInv'
  <2>1. [New EXCEPT !.pc = "closed"] \in Request /\ [New EXCEPT !.pc = "closed"].pc = "closed"
    BY DEF New, Request
  <2>2. req' = [req EXCEPT ![r] = [New EXCEPT !.pc = "closed"]]
    BY <1>5 DEF CloseUnread
  <2>3. req'[r].pc = "closed"
    BY <2>1, <2>2 DEF RequestShape
  <2>4. RequestOK(r)'
    BY <2>3 DEF RequestOK, Open, Pending
  <2> QED
    BY <1>5, <2>1, <2>2, <2>4, Alone DEF CloseUnread
<1>6. ASSUME NEW r \in Requests, BodyArrives(r) PROVE RequestInv'
  <2>1. CASE OneDocument(req[r].call) /\ ~Refused(req[r].call)
    <3>1. PICK old \in Request : old = req[r]
      BY DEF RequestShape
    <3>2. req' = [req EXCEPT ![r] = [old EXCEPT !.pc = "enhance", !.waited = 0]] /\ Open(r)
      BY <1>6, <2>1, <3>1 DEF BodyArrives, RequestShape, Request, Open
    <3>3. [old EXCEPT !.pc = "enhance", !.waited = 0] \in Request
      BY DEF Request
    <3>4. req'[r].pc = "enhance" /\ req'[r].to = req[r].to /\ req'[r].call = req[r].call
          /\ req'[r].token = req[r].token /\ req'[r].age = req[r].age
      BY <3>1, <3>2 DEF RequestShape, Request
    <3>5. RequestOK(r)'
      BY <1>6, <3>2, <3>4
      DEF RequestOK, Reached, Admitted, BodyArrives, svars, Open, Pending, PromptTimeout,
          EnhanceTimeout, Preflight, Authorized
    <3> QED
      BY <1>6, <3>2, <3>3, <3>5, Alone DEF BodyArrives
  <2>2. CASE ~(OneDocument(req[r].call) /\ ~Refused(req[r].call))
    <3>1. Open(r) /\ Respond(r, Answer(req[r].to, req[r].call, "prompt", 400))
      BY <1>6, <2>2 DEF BodyArrives, Open
    <3> QED
      BY <1>6, <3>1, Responds DEF BodyArrives, Layers
  <2> QED
    BY <2>1, <2>2
<1>7. ASSUME NEW r \in Requests, BodyTimesOut(r) \/ EnhanceReturns(r) \/ HandlerTimesOut(r)
      PROVE  RequestInv'
  <2>1. PICK l \in Layers, status \in Nat : Respond(r, Answer(req[r].to, req[r].call, l, status))
    BY <1>7 DEF BodyTimesOut, EnhanceReturns, HandlerTimesOut, Layers
  <2>2. Open(r) /\ UNCHANGED <<svars, stopAge>>
    BY <1>7 DEF BodyTimesOut, BodyOverdue, EnhanceReturns, HandlerTimesOut, Open
  <2> QED
    BY <2>1, <2>2, Responds
<1>8. ASSUME NEW r \in Requests, ClientLeaves(r) PROVE RequestInv'
  <2>1. [New EXCEPT !.pc = "left"] \in Request /\ [New EXCEPT !.pc = "left"].pc = "left"
    BY DEF New, Request
  <2>2. req' = [req EXCEPT ![r] = [New EXCEPT !.pc = "left"]]
    BY <1>8 DEF ClientLeaves
  <2>3. req'[r].pc = "left"
    BY <2>1, <2>2 DEF RequestShape
  <2>4. RequestOK(r)'
    BY <2>3 DEF RequestOK, Open, Pending
  <2> QED
    BY <1>8, <2>1, <2>2, <2>4, Alone DEF ClientLeaves
<1>9. CASE Tick
  <2>1. stopAge' \in [Servers -> 0..ShutdownTimeout]
    BY <1>9 DEF Tick, Overdue, RequestShape, ShutdownTimeout
  <2>2. req' \in [Requests -> Request]
    BY <1>9 DEF Tick, RequestShape, Request
  <2>3. ASSUME NEW r \in Requests PROVE RequestOK(r)'
    <3>0. PICK old \in Request : old = req[r]
      BY DEF RequestShape
    <3>1. CASE ~(Waiting(r) \/ Open(r))
      <4>1. req'[r] = req[r]
        BY <1>9, <3>1 DEF Tick
      <4> QED
        BY <1>0, <1>9, <4>1, Calm DEF Tick, svars
    <3>2. CASE Waiting(r) \/ Open(r)
      <4>1. req'[r] = [old EXCEPT !.age = old.age + 1]
        BY <1>9, <3>0, <3>2 DEF Tick, RequestShape
      <4>2. req'[r].pc = req[r].pc /\ req'[r].to = req[r].to /\ req'[r].call = req[r].call
            /\ req'[r].token = req[r].token /\ req'[r].age = req[r].age + 1
        BY <3>0, <4>1 DEF Request
      <4>3. Reached(r) /\ srv[req[r].to].exit # "ok"
        BY <3>2 DEF RequestOK, Open, Waiting, Pending
      <4>4. Open(r) => req'[r].age <= PromptTimeout(req[r].to)
        <5>1. Open(r) => ~(req[r].age >= PromptTimeout(req[r].to))
          BY <1>9 DEF Tick, Overdue
        <5> QED
          BY <3>0, <4>2, <4>3, <5>1, Timers DEF Reached, Request
      <4>5. Waiting(r) => req'[r].age <= ReadHeaderTimeout
        <5>1. Waiting(r) => ~(req[r].age >= ReadHeaderTimeout)
          BY <1>9 DEF Tick, Overdue
        <5> QED
          BY <3>0, <4>2, <5>1 DEF Request, ReadHeaderTimeout
      <4>6. srv' = srv
        BY <1>9 DEF Tick, svars
      <4> QED
        BY <3>2, <4>2, <4>3, <4>4, <4>5, <4>6
        DEF RequestOK, Reached, Admitted, Open, Waiting, Pending, PromptTimeout,
            EnhanceTimeout, Preflight, Authorized
    <3> QED
      BY <3>1, <3>2
  <2> QED
    BY <2>1, <2>2, <2>3 DEF RequestShape
<1>10. CASE UNCHANGED vars
  <2>1. UNCHANGED svars /\ req' = req /\ stopAge' = stopAge
    BY <1>10 DEF vars
  <2>2. ASSUME NEW r \in Requests PROVE RequestOK(r)'
    BY <1>0, <2>1, Calm DEF svars
  <2> QED
    BY <2>1, <2>2 DEF RequestShape
<1> QED
  BY <1>1, <1>2, <1>3, <1>4, <1>5, <1>6, <1>7, <1>8, <1>9, <1>10 DEF Next, Client, Serve

LEMMA RequestInvHolds == Spec => []RequestInv
<1>1. Init => RequestInv
  <2>1. New \in Request /\ New.pc = "new" /\ New.age = 0
    BY DEF New, Request
  <2> QED
    BY <2>1 DEF Init, RequestInv, RequestShape, RequestOK, Open, Pending, ShutdownTimeout
<1>2. ServerInv /\ ServerInv' /\ RequestInv /\ [Next]_vars => RequestInv'
  BY RequestStep
<1> QED
  BY <1>1, <1>2, ServerInvHolds, PTL DEF Spec

-----------------------------------------------------------------------------
(***************************************************************************)
(* A request whose headers were read stays without an answer only if its   *)
(* process ended with an error or was killed: a clean shutdown waits for   *)
(* it, one read after the signal as well, and the handler's timeout answers *)
(* before the write deadline (runtime.go:178, 202, 238), whatever the      *)
(* configured timeout is.                                                  *)
(***************************************************************************)
THEOREM AnsweredHolds == Spec => []AnsweredUnlessServerEnds
<1>1. RequestInv => AnsweredUnlessServerEnds
  BY DEF RequestInv, RequestOK, AnsweredUnlessServerEnds
<1> QED
  BY <1>1, RequestInvHolds, PTL

(***************************************************************************)
(* CORS is around authentication and authentication around the routes      *)
(* (server.go:84-86, 101, 112-126): every answer an allowed web view gets  *)
(* carries the headers of CORS, a preflight is never refused, and with a   *)
(* token set (auth.go:10) only its bearer is served, for any servers,      *)
(* configurations, requests and clients.                                   *)
(***************************************************************************)
THEOREM MiddlewareOrderHolds == Spec => []MiddlewareOrder
<1>1. ServerInv /\ RequestInv => MiddlewareOrder
  <2> SUFFICES ASSUME ServerInv, RequestInv PROVE MiddlewareOrder
    OBVIOUS
  <2>1. ServerTypeOK
    BY DEF ServerInv, ServerTypeOK, Shape, ServerProcess, Locking
  <2>2. TypeOK
    BY <2>1 DEF RequestInv, RequestShape, Request, RequestOK, TypeOK
  <2>3. WebviewReadsEveryAnswer
    BY DEF RequestInv, RequestOK, Answered, WebviewReadsEveryAnswer
  <2>4. ASSUME NEW r \in Requests, req[r].pc \in {"body", "enhance", "answered"},
               srv[req[r].to].token # None, req[r].token # srv[req[r].to].token
        PROVE  \/ req[r].call.path = "/healthz"
               \/ req[r].answer # None /\ req[r].answer.status \in {204, 401}
    <3>1. CASE Open(r)
      BY <2>4, <3>1 DEF RequestInv, RequestOK, Admitted, Authorized, TokensEqual, SkipAuth
    <3>2. CASE req[r].pc = "answered"
      <4>1. Answered(r)
        BY <3>2 DEF RequestInv, RequestOK
      <4>2. req[r].answer # None
        BY <4>1, HttpAssumption DEF Answered, Answers
      <4> QED
        BY <2>4, <4>1, <4>2 DEF Answered, Authorized, TokensEqual, SkipAuth
    <3> QED
      BY <2>4, <3>1, <3>2 DEF Open
  <2>5. OnlyBearersServed
    BY <2>4 DEF OnlyBearersServed
  <2> QED
    BY <2>2, <2>3, <2>5 DEF MiddlewareOrder
<1> QED
  BY <1>1, ServerInvHolds, RequestInvHolds, PTL
=============================================================================
