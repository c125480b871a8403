------------------------------ MODULE HttpApi ------------------------------
(***************************************************************************)
(* The HTTP interface of openpe-server on top of its lifecycle: a client   *)
(* reads the descriptor, connects to the address in it and sends one       *)
(* request through CORS, authentication and the routes; a prompt is        *)
(* enhanced against three clocks: the handler's timeout, the connection's  *)
(* read and write deadlines and the ten seconds of a shutdown.  Time is    *)
(* counted in units of ten seconds.                                        *)
(***************************************************************************)
EXTENDS Server

CONSTANTS
  Requests,
  Calls,           \* what a request asks for
  DefaultTimeout,  \* config.DefaultTimeout
  DefaultBudget    \* the operator's OPENPE_MAX_CONTEXT_TOKENS

ASSUME HttpAssumption ==
  /\ DefaultTimeout \in Nat \ {0} /\ DefaultBudget \in Nat
  /\ \A o \in Options : o.timeout \in Int
  /\ None \notin Nat /\ None \notin [status : Nat, cors : BOOLEAN]

VARIABLES
  req,     \* the state of every request
  stopAge  \* how long the shutdown of a server lasts

vars == <<svars, req, stopAge>>

-----------------------------------------------------------------------------
EnhanceTimeout(s) ==
  IF srv[s].options.timeout <= 0 THEN DefaultTimeout ELSE srv[s].options.timeout
PromptTimeout(s) == EnhanceTimeout(s) + 1
ReadHeaderTimeout == 1
ReadTimeout == 3

\* Broken: the deadline of the connection is the enhancer's.
WriteTimeoutOfEnhancer(s) == EnhanceTimeout(s)
WriteTimeout(s) == EnhanceTimeout(s) + 3
ShutdownTimeout == 1

TokensEqual(a, b) == a # None /\ b # None /\ a = b

SkipAuth(q) == q.path = "/healthz"

\* authMiddleware passes everything on when no token is set.
Authorized(s, q, token) ==
  srv[s].token = None \/ SkipAuth(q) \/ TokensEqual(token, srv[s].token)

\* Whether corsMiddleware sets its headers for the origin of a request.
\* Without origins in the options there is no such middleware.
CorsAnswers(s, q) == q.origin # None /\ srv[s].options.origins \cap {q.origin, "*"} # {}
Preflight(s, q) == q.method = "OPTIONS" /\ srv[s].options.origins # {}

\* enhanceRequest.canonical: the operator's budget unless the request has one.
Canonical(q) == IF q.budget = 0 THEN DefaultBudget ELSE q.budget

\* One JSON document without unknown fields, of at most two megabytes.
OneDocument(q) == q.body = "document"

\* What service.Enhance refuses before it asks anybody.
Refused(q) == q.blank \/ Canonical(q) < 0

\* What wraps what in NewWithOptions, from the outside in; the timeout is around
\* the one route that enhances.
Layers == {"cors", "auth", "mux", "timeout", "prompt"}

\* Broken: the timeout is around everything.
DepthTimeoutOutside(l) ==
  CASE l = "cors" -> 2 [] l = "auth" -> 3 [] l = "mux" -> 4 [] l = "timeout" -> 1
    [] l = "prompt" -> 5

Depth(l) ==
  CASE l = "cors" -> 1 [] l = "auth" -> 2 [] l = "mux" -> 3 [] l = "timeout" -> 4
    [] l = "prompt" -> 5

\* An answer carries the headers that the layers around its author have set.
Answer(s, q, l, status) ==
  [status |-> status, cors |-> Depth("cors") <= Depth(l) /\ CorsAnswers(s, q)]

\* What a layer answers as soon as a request gets to it; None when it passes the
\* request on or turns to its body.
Status(s, q, token, l) ==
  CASE l = "cors" -> IF Preflight(s, q) THEN 204 ELSE None
    [] l = "auth" -> IF Authorized(s, q, token) THEN None ELSE 401
    [] l = "mux"  -> IF q.path = "/v1/prompt-enhance" THEN None
                     ELSE IF q.path \notin {"/healthz", "/v1/info"} THEN 404
                     ELSE IF q.method = "GET" THEN 200 ELSE 405
    [] l = "timeout" -> None
    [] l = "prompt" -> IF q.method = "POST" THEN None ELSE 405

Answering(s, q, token) == {l \in Layers : Status(s, q, token, l) # None}

\* The outermost layer with an answer gives it.
Route(s, q, token) ==
  IF Answering(s, q, token) = {} THEN None
  ELSE LET l == CHOOSE k \in Answering(s, q, token) :
                  \A m \in Answering(s, q, token) : Depth(k) <= Depth(m)
       IN  Answer(s, q, l, Status(s, q, token, l))

-----------------------------------------------------------------------------
\* `age` is the time since the connection was accepted, and since its headers
\* were read once they are; `waited` is what the headers took, while the read
\* deadline needs it.
New == [pc |-> "new", call |-> None, token |-> None, to |-> None,
        age |-> 0, waited |-> 0, answer |-> None]
Open(r) == req[r].pc \in {"body", "enhance"}

\* A process handles its connections until it is gone, those of a shutdown that
\* ran out of time as well.
Running(s) == srv[s].pc \in {"serve", "shutdown", "cleanup", "check", "remove"}
Waiting(r) == req[r].pc = "connected" /\ Running(req[r].to)

\* An answer after the connection's write deadline reaches nobody.
Respond(r, answer) ==
  req' = [req EXCEPT ![r].answer = answer, ![r].age = 0, ![r].waited = 0,
    ![r].pc = IF req[r].age < WriteTimeout(req[r].to) THEN "answered" ELSE "dropped"]

\* A client takes address and token from the descriptor, or has its own idea
\* of the token, and reaches whoever listens there.
Connect(r, q, s, token) ==
  /\ req[r].pc = "new" /\ Listening(s)
  /\ \/ Readable /\ file.port = srv[s].port /\ token = file.token
     \/ token = None
  /\ req' = [req EXCEPT ![r].pc = "connected", ![r].call = q, ![r].to = s, ![r].token = token]
  /\ UNCHANGED <<svars, stopAge>>

\* The server has the headers; the handler starts, with timers of its own, and a
\* layer answers or the prompt route turns to the body.
Handle(r) ==
  LET q == req[r].call
      answer == Route(req[r].to, q, req[r].token)
  IN  /\ Waiting(r)
      /\ req' = [req EXCEPT ![r].answer = answer, ![r].age = 0,
                            ![r].waited = IF answer = None THEN req[r].age ELSE 0,
                            ![r].pc = IF answer = None THEN "body" ELSE "answered"]
      /\ UNCHANGED <<svars, stopAge>>

\* The connection is closed without an answer before its headers were read: they
\* took too long, or a shutdown finds it idle (net/http gives a new connection
\* five seconds) or still unaccepted.
CloseUnread(r) ==
  /\ Waiting(r)
  /\ req[r].age >= ReadHeaderTimeout \/ srv[req[r].to].pc = "shutdown"
  /\ req' = [req EXCEPT ![r] = [New EXCEPT !.pc = "closed"]]
  /\ UNCHANGED <<svars, stopAge>>

\* The body is decoded; a bad one and a request the enhancer refuses end here.
BodyArrives(r) ==
  LET s == req[r].to
      q == req[r].call
  IN  /\ req[r].pc = "body"
      /\ IF OneDocument(q) /\ ~Refused(q)
         THEN req' = [req EXCEPT ![r].pc = "enhance", ![r].waited = 0]
         ELSE Respond(r, Answer(s, q, "prompt", 400))
      /\ UNCHANGED <<svars, stopAge>>

\* The read deadline, which counts from the start of the connection, ends a body
\* that does not come.
BodyOverdue(r) == req[r].pc = "body" /\ req[r].waited + req[r].age >= ReadTimeout

BodyTimesOut(r) ==
  /\ BodyOverdue(r)
  /\ Respond(r, Answer(req[r].to, req[r].call, "prompt", 400))
  /\ UNCHANGED <<svars, stopAge>>

\* The enhancer returns, with a prompt or an error.
EnhanceReturns(r) ==
  /\ req[r].pc = "enhance"
  /\ \E status \in {200, 400, 502} :
       Respond(r, Answer(req[r].to, req[r].call, "prompt", status))
  /\ UNCHANGED <<svars, stopAge>>

\* timeoutJSON: http.TimeoutHandler answers for a handler that is too late;
\* what the handler writes from then on goes nowhere.
HandlerTimesOut(r) ==
  /\ Open(r) /\ req[r].age >= PromptTimeout(req[r].to)
  /\ Respond(r, Answer(req[r].to, req[r].call, "timeout", 503))
  /\ UNCHANGED <<svars, stopAge>>

\* The client hangs up; the context of its request ends.
ClientLeaves(r) ==
  /\ req[r].pc \in {"connected", "body", "enhance"}
  /\ req' = [req EXCEPT ![r] = [New EXCEPT !.pc = "left"]]
  /\ UNCHANGED <<svars, stopAge>>

-----------------------------------------------------------------------------
\* Connections end with their process: read but unanswered, or unread.
EndConnections ==
  req' = [r \in Requests |->
    IF req[r].to = None \/ srv'[req[r].to].pc # "gone" THEN req[r]
    ELSE IF Open(r) THEN [req[r] EXCEPT !.pc = "dropped", !.age = 0, !.waited = 0]
    ELSE IF req[r].pc = "connected" THEN [New EXCEPT !.pc = "closed"]
    ELSE req[r]]

\* A connection a shutdown waits for.
Active(s) == \E r \in Requests : (Open(r) \/ req[r].pc = "connected") /\ req[r].to = s

\* Broken: a shutdown that ran out of time is reported as a clean one.
ShutdownIgnoresTimeout(s) ==
  /\ ~Active(s) \/ stopAge[s] >= ShutdownTimeout
  /\ ShutdownReturns(s, "ok")
  /\ EndConnections /\ stopAge' = [stopAge EXCEPT ![s] = 0]

\* http.Server.Shutdown waits for its connections, for ten seconds at most.
Shutdown(s) ==
  /\ \/ ~Active(s) /\ ShutdownReturns(s, "ok")
     \/ Active(s) /\ stopAge[s] >= ShutdownTimeout /\ ShutdownReturns(s, "error")
  /\ EndConnections /\ stopAge' = [stopAge EXCEPT ![s] = 0]

\* Ten seconds pass, unless a timer must fire first.
Overdue ==
  \/ \E r \in Requests : \/ Waiting(r) /\ req[r].age >= ReadHeaderTimeout
                         \/ Open(r) /\ req[r].age >= PromptTimeout(req[r].to)
                         \/ BodyOverdue(r)
  \/ \E s \in Servers : srv[s].pc = "shutdown" /\ stopAge[s] >= ShutdownTimeout

Tick ==
  /\ ~Overdue
  /\ \/ \E r \in Requests : Waiting(r) \/ Open(r)
     \/ \E s \in Servers : srv[s].pc = "shutdown"
  /\ req' = [r \in Requests |->
       IF Waiting(r) \/ Open(r) THEN [req[r] EXCEPT !.age = @ + 1] ELSE req[r]]
  /\ stopAge' = [s \in Servers |-> stopAge[s] + IF srv[s].pc = "shutdown" THEN 1 ELSE 0]
  /\ UNCHANGED svars

Init ==
  /\ ServerInit
  /\ req = [r \in Requests |-> New]
  /\ stopAge = [s \in Servers |-> 0]

Process ==
  /\ \/ \E s \in Servers : (\E o \in Options : Start(s, o)) \/ Signal(s) \/ Proceed(s) \/ Disturb(s)
     \/ Spoil
  /\ EndConnections /\ UNCHANGED stopAge

Client(r) == \E q \in Calls, s \in Servers, token \in Servers \cup {"shared", None} :
  Connect(r, q, s, token)
Serve(r) ==
  \/ Handle(r) \/ CloseUnread(r)
  \/ BodyArrives(r) \/ BodyTimesOut(r) \/ EnhanceReturns(r) \/ HandlerTimesOut(r)

Next ==
  \/ Process
  \/ \E s \in Servers : Shutdown(s)
  \/ \E r \in Requests : Client(r) \/ Serve(r) \/ ClientLeaves(r)
  \/ Tick

\* A process that runs is scheduled, its timers fire and time passes; neither
\* headers nor body nor the enhancer's answer need ever come.
TimersFire(r) == CloseUnread(r) \/ BodyTimesOut(r) \/ HandlerTimesOut(r)

Spec ==
  /\ Init /\ [][Next]_vars
  /\ \A s \in Servers : WF_vars(Proceed(s) /\ EndConnections /\ UNCHANGED stopAge)
  /\ \A s \in Servers : WF_vars(Shutdown(s))
  /\ \A r \in Requests : WF_vars(TimersFire(r))
  /\ WF_vars(Tick)
-----------------------------------------------------------------------------
\* Type correctness of both parts; no request outlives its timers.
TypeOK ==
  /\ ServerTypeOK
  /\ DOMAIN req = Requests /\ DOMAIN stopAge = Servers
  /\ \A s \in Servers : stopAge[s] \in 0..ShutdownTimeout
  /\ \A r \in Requests :
       /\ req[r].pc \in {"new", "connected", "body", "enhance", "answered", "left", "closed",
                         "dropped"}
       /\ req[r].pc = "connected" => req[r].age <= ReadHeaderTimeout
       /\ Open(r) => req[r].age <= PromptTimeout(req[r].to)

\* A request whose headers a server has read gets an answer, unless that process
\* ends with an error or is killed: a clean shutdown answers those it reads after
\* the signal as well (runtime.go:238-242), and no answer, not even the timeout's,
\* comes after the write deadline (runtime.go:178-206).
AnsweredUnlessServerEnds ==
  \A r \in Requests : req[r].pc = "dropped" => srv[req[r].to].exit \in {"error", "killed"}

\* A web view of an allowed origin can read every answer it gets: the 401 of
\* authentication and the 503 of the timeout carry the headers of CORS as well,
\* and a preflight is never refused (server.go:84, server.go:101).
WebviewReadsEveryAnswer ==
  \A r \in Requests : req[r].pc = "answered" =>
    LET q == req[r].call
    IN  /\ CorsAnswers(req[r].to, q) => req[r].answer.cors
        /\ Preflight(req[r].to, q) => req[r].answer.status = 204

\* With a token set only its bearer gets to a handler that takes time, and learns
\* anything but the health of the server; the descriptor of one server opens no
\* other (auth.go:10, server.go:104-126).
OnlyBearersServed ==
  \A r \in Requests :
    LET s == req[r].to
    IN  /\ req[r].pc \in {"body", "enhance", "answered"}
        /\ srv[s].token # None /\ req[r].token # srv[s].token
        => \/ req[r].call.path = "/healthz"
           \/ req[r].answer # None /\ req[r].answer.status \in {204, 401}

\* Every connection ends: with an answer, or with its client or its server.
RequestsEnd ==
  \A r \in Requests : req[r].pc \in {"connected", "body", "enhance"} ~>
                      req[r].pc \in {"answered", "left", "closed", "dropped"}

\* The order of the layers (server.go:84-86, 101, 112-126): CORS around
\* authentication, authentication around the routes, the timeout around the one
\* that enhances.
MiddlewareOrder == TypeOK /\ WebviewReadsEveryAnswer /\ OnlyBearersServed

\* Nothing waits for ever: neither a server that was told to stop nor a request.
EverythingEnds == ServerStops /\ RequestsEnd
=============================================================================
