------------------------- MODULE AgentHooks_proofs -------------------------
(***************************************************************************)
(* AgentHooks for any runs, cases, specs, machines and number of faults.   *)
(* A run changes its own state and what all runs of a client share: the    *)
(* cache and the clipboard.  RunInv is what holds of one run whatever the  *)
(* others do, CacheInv what the shared part owes to the runs.  The         *)
(* clipboard helpers are a recursive function of their number: what it     *)
(* gives is proved by induction over that number.                          *)
(***************************************************************************)
EXTENDS AgentHooks, WellFoundedInduction, SequenceTheorems, TLAPS

(* Induction over the naturals for a set of them.                           *)
LEMMA NatInduct ==
  ASSUME NEW S, 0 \in S, \A n \in Nat : n \in S => n + 1 \in S
  PROVE  Nat \subseteq S
<1> DEFINE Missed == Nat \ S
<1>1. SUFFICES ASSUME Missed # {} PROVE FALSE
  OBVIOUS
<1>2. PICK R : IsWellFoundedOn(R, Nat) /\ \A k, n \in Nat : k < n => <<k, n>> \in R
  BY NatLessThanWellFounded DEF OpToRel
<1>3. PICK n \in Missed : \A k \in Missed : ~(<<k, n>> \in R)
  <2>1. IsWellFoundedOn(R, Nat) /\ Missed \subseteq Nat
    BY <1>2
  <2> HIDE DEF Missed
  <2> QED
    BY <1>1, <2>1, WFMin
<1>4. n # 0 /\ n - 1 \in Nat /\ <<n - 1, n>> \in R
  BY <1>2
<1>5. n - 1 \in S /\ (n - 1) + 1 = n
  BY <1>3, <1>4
<1> QED
  BY <1>4, <1>5

\* f starts with base and goes on by step.
Iterates(f, V, base, step) ==
  /\ f \in [Nat -> V] /\ f[0] = base
  /\ \A n \in Nat : f[n + 1] = step[<<f[n], n + 1>>]

LEMMA Recursion ==
  ASSUME NEW V, NEW base \in V, NEW step \in [V \X Nat -> V]
  PROVE  \E f : Iterates(f, V, base, step)
<1> DEFINE Upto(n, g) == /\ g \in [0..n -> V] /\ g[0] = base
                         /\ \A k \in 0..n : k # n => g[k + 1] = step[<<g[k], k + 1>>]
<1>1. \A n \in Nat : \E g : Upto(n, g)
  <2> DEFINE S == {n \in Nat : \E g : Upto(n, g)}
  <2>1. 0 \in S
    <3>1. Upto(0, [k \in 0..0 |-> base])
      OBVIOUS
    <3> HIDE DEF Upto
    <3> QED
      BY <3>1
  <2>2. ASSUME NEW n \in Nat, n \in S PROVE n + 1 \in S
    <3>1. PICK g : Upto(n, g)
      BY <2>2
    <3> DEFINE h == [k \in 0..(n + 1) |-> IF k = n + 1 THEN step[<<g[n], n + 1>>] ELSE g[k]]
    <3>2. Upto(n + 1, h)
      <4>1. h \in [0..(n + 1) -> V] /\ h[0] = base
        BY <3>1
      <4>2. ASSUME NEW k \in 0..(n + 1), k # n + 1
            PROVE  h[k + 1] = step[<<h[k], k + 1>>]
        <5>1. CASE k = n
          BY <3>1, <5>1
        <5>2. CASE k # n
          <6>1. k \in 0..n /\ k + 1 \in 0..n /\ k + 1 # n + 1
            BY <4>2, <5>2
          <6> QED
            BY <3>1, <5>2, <6>1
        <5> QED
          BY <5>1, <5>2
      <4> QED
        BY <4>1, <4>2
    <3> HIDE DEF Upto, h
    <3> QED
      BY <3>2
  <2> HIDE DEF S
  <2>3. Nat \subseteq S
    BY <2>1, <2>2, NatInduct
  <2> QED
    BY <2>3 DEF S
<1>2. ASSUME NEW m \in Nat, NEW n \in Nat, m <= n, NEW g, NEW h, Upto(m, g), Upto(n, h)
      PROVE  \A k \in 0..m : g[k] = h[k]
  <2> DEFINE S == {k \in Nat : k <= m => g[k] = h[k]}
  <2>1. 0 \in S
    BY <1>2
  <2>2. ASSUME NEW k \in Nat, k \in S PROVE k + 1 \in S
    <3>1. SUFFICES ASSUME k + 1 <= m PROVE g[k + 1] = h[k + 1]
      OBVIOUS
    <3>2. k \in 0..m /\ k # m /\ k \in 0..n /\ k # n /\ g[k] = h[k]
      BY <1>2, <2>2, <3>1
    <3> QED
      BY <1>2, <3>2
  <2> HIDE DEF S
  <2>3. Nat \subseteq S
    BY <2>1, <2>2, NatInduct
  <2> QED
    BY <2>3 DEF S
<1> DEFINE At(n) == CHOOSE g : Upto(n, g)
           f == [n \in Nat |-> At(n)[n]]
<1>3. \A n \in Nat : Upto(n, At(n))
  BY <1>1
<1> HIDE DEF At
<1>4. f \in [Nat -> V] /\ f[0] = base
  BY <1>3
<1>5. ASSUME NEW n \in Nat PROVE f[n + 1] = step[<<f[n], n + 1>>]
  <2>1. At(n + 1)[n] = At(n)[n]
    BY <1>2, <1>3
  <2>2. At(n + 1)[n + 1] = step[<<At(n + 1)[n], n + 1>>]
    BY <1>3
  <2> QED
    BY <2>1, <2>2
<1> HIDE DEF f
<1>6. Iterates(f, V, base, step)
  BY <1>4, <1>5 DEF Iterates
<1> QED
  BY <1>6

-----------------------------------------------------------------------------
(* What copying gives, however many helpers a machine has.                  *)
Results == [ok : BOOLEAN, t : 0..(Budget + WaitDelay)]

\* No attempt takes longer than what the budget leaves and one wait.
LEMMA Attempt ==
  ASSUME NEW helper, NEW t \in 0..(Budget + WaitDelay)
  PROVE  RunBounded(helper, t) \in Results
<1>1. CASE t >= Budget \/ helper = "missing"
  BY <1>1 DEF RunBounded, Results, Budget, WaitDelay
<1>2. CASE ~(t >= Budget \/ helper = "missing")
  BY <1>2 DEF RunBounded, Results, Budget, WaitDelay
<1> QED
  BY <1>1, <1>2

(* The helpers are tried one after the other: the function of the model     *)
(* exists and its last value is in range, both by induction.                *)
LEMMA CopyResult ==
  ASSUME NEW m \in Machines
  PROVE  CopyWithOptions(m) \in Results
<1> DEFINE helpers == IF m.command # None THEN <<m.command>> ELSE m.candidates
           N == Len(helpers)
           Tries(f) ==
             [n \in 0..N |-> IF n = 0 THEN [ok |-> FALSE, t |-> 0]
                ELSE IF f[n-1].ok THEN f[n-1] ELSE RunBounded(helpers[n], f[n-1].t)]
           tried == CHOOSE f : f = Tries(f)
<1>1. CopyWithOptions(m) =
        [ok |-> tried[N].ok \/ (m.command = None /\ m.osc52), t |-> tried[N].t]
  BY DEF CopyWithOptions
<1>2. N \in Nat
  BY MachinesAssumption
<1> HIDE DEF helpers
<1>3. \E f : f = Tries(f)
  <2>1. PICK base \in Results : base = [ok |-> FALSE, t |-> 0]
    <3>1. [ok |-> FALSE, t |-> 0] \in Results
      BY DEF Results, Budget, WaitDelay
    <3> QED
      BY <3>1
  <2>2. PICK step \in [Results \X Nat -> Results] :
          step = [p \in Results \X Nat |->
                    IF p[1].ok THEN p[1] ELSE RunBounded(helpers[p[2]], p[1].t)]
    <3>1. [p \in Results \X Nat |->
             IF p[1].ok THEN p[1] ELSE RunBounded(helpers[p[2]], p[1].t)]
            \in [Results \X Nat -> Results]
      BY Attempt DEF Results
    <3> QED
      BY <3>1
  <2>3. PICK f : Iterates(f, Results, base, step)
    BY Recursion
  <2>4. ASSUME NEW n \in Nat
        PROVE  f[n+1] = IF f[n].ok THEN f[n] ELSE RunBounded(helpers[n+1], f[n].t)
    <3>1. f[n] \in Results /\ n + 1 \in Nat /\ f[n+1] = step[<<f[n], n + 1>>]
      BY <2>3 DEF Iterates
    <3> QED
      BY <2>2, <3>1
  <2>5. [n \in 0..N |-> f[n]] = Tries([n \in 0..N |-> f[n]])
    <3>1. ASSUME NEW n \in 0..N, n # 0
          PROVE  n - 1 \in Nat /\ n - 1 \in 0..N /\ (n - 1) + 1 = n
      BY <1>2, <3>1
    <3>2. ASSUME NEW n \in 0..N, n # 0
          PROVE  f[n] = IF f[n-1].ok THEN f[n-1] ELSE RunBounded(helpers[n], f[n-1].t)
      BY <2>4, <3>1, <3>2
    <3> QED
      BY <2>1, <2>3, <3>1, <3>2 DEF Iterates
  <2> QED
    BY <2>5
<1>4. tried = Tries(tried)
  BY <1>3
<1> HIDE DEF tried
<1>5. \A n \in Nat : n <= N => tried[n] \in Results
  <2> DEFINE S == {n \in Nat : n <= N => tried[n] \in Results}
  <2>1. 0 \in S
    BY <1>2, <1>4 DEF Results, Budget, WaitDelay
  <2>2. ASSUME NEW n \in Nat, n \in S PROVE n + 1 \in S
    <3>1. SUFFICES ASSUME n + 1 <= N PROVE tried[n+1] \in Results
      OBVIOUS
    <3>2. tried[n] \in Results
      BY <2>2, <3>1, <1>2
    <3>3. n + 1 \in 0..N /\ n + 1 # 0 /\ (n+1)-1 = n
      BY <3>1, <1>2
    <3>4. tried[n+1] = IF tried[n].ok THEN tried[n] ELSE RunBounded(helpers[n+1], tried[n].t)
      BY <1>4, <3>3
    <3> QED
      BY <3>2, <3>4, Attempt DEF Results
  <2> HIDE DEF S
  <2>3. Nat \subseteq S
    BY <2>1, <2>2, NatInduct
  <2> QED
    BY <2>3 DEF S
<1>6. tried[N] \in Results
  BY <1>2, <1>5
<1> QED
  BY <1>1, <1>6, MachinesAssumption DEF Results

-----------------------------------------------------------------------------
Work == {"prompt", "preview", "copy"}
Text == [of : Runs, specs : Seq(Specs)]
Says == [copied : BOOLEAN, cached : BOOLEAN, fallback : BOOLEAN]

Outputs ==
  [exit : {-1, 0, 2}, decision : {None, "block"}, context : Text \cup {None}, says : Says]

Process ==
  [pc : {"idle", "configure", "specs", "enhance", "deliver", "done"},
   case : Cases \cup {None}, text : Text \cup {None},
   todo : Seq(Work),
   wrote : SUBSET {"prompt", "preview", "clipboard"}, cached : BOOLEAN,
   copy : Results \cup {None}, out : Outputs \cup {None}]

Shape ==
  /\ specs \in [Specs -> {"text", "missing"}] /\ userHook \in BOOLEAN /\ knownHook \in BOOLEAN
  /\ run \in [Runs -> Process]
  /\ cache \in [Clients -> [prompt : Text \cup {None}, preview : Text \cup {None}]]
  /\ clipboard \in Text \cup {None} /\ mixed \subseteq Clients /\ faults \in 0..MaxFaults

\* A prompt is followed by its preview, and only by it; the copy comes last.
Ordered(todo) ==
  \A n \in DOMAIN todo :
    /\ todo[n] = "prompt" => n + 1 \in DOMAIN todo /\ todo[n + 1] = "preview"
    /\ todo[n] = "preview" => n = 1 \/ todo[n - 1] = "prompt"
    /\ todo[n] = "copy" => n = Len(todo)

\* How far a run is and what it has by then.
Progress(r) ==
  LET p == run[r] IN
  /\ (p.pc = "idle") <=> (p.case = None)
  /\ (p.pc = "done") <=> (p.out # None)
  /\ p.pc # "deliver" => p.todo = <<>>
  /\ p.pc \notin {"deliver", "done"} => p.wrote = {} /\ p.copy = None /\ ~p.cached
  /\ p.pc \in {"idle", "configure", "specs"} => p.text = None
  /\ p.pc \in {"enhance", "deliver"} => p.text # None
  /\ p.text # None => p.text = AppendSpecs(r, p.case.names)

\* What it has written, and what it remembers of that.
Written(r) ==
  LET p == run[r] IN
  /\ Ordered(p.todo)
  /\ p.copy # None => p.todo = <<>>
  /\ "clipboard" \in p.wrote <=> p.copy # None /\ p.copy.ok
  /\ p.cached => {"prompt", "preview"} \subseteq p.wrote
  /\ Must(r, "preview") => "prompt" \in p.wrote

\* A message that agrees with what r wrote.
Agrees(r, says) ==
  /\ says.copied => "clipboard" \in run[r].wrote
  /\ says.cached => {"prompt", "preview"} \subseteq run[r].wrote /\ run[r].cached
  /\ says.cached \/ says.fallback => "clipboard" \notin run[r].wrote

\* The project's hook of Codex, which leaves a prompt to the user's.
ProjectHook(c) ==
  c.agent = "codex" /\ (c.scope = "project" \/ (c.scope = "" /\ c.projectEnv))

\* What a run that is over has told its host.
Told(r) ==
  /\ Spoke(r) => Agrees(r, run[r].out.says) /\ run[r].out.context \in {None, run[r].text}
  /\ Ran(r) /\ Manual(run[r].case) =>
       \/ Effect(run[r].out) # "bare"
       \/ ProjectHook(run[r].case) /\ (knownHook \/ userHook # knownHook)

\* As long as the configuration is the one of the session's beginning, a
\* project's hook goes no further where the user has one.
Yields(r) ==
  /\ Of(r, "codex") /\ run[r].case.scope = "user" => knownHook
  /\ run[r].case # None /\ ProjectHook(run[r].case) /\ knownHook /\ userHook = knownHook =>
       Ran(r) /\ run[r].text = None

RunInv(r) == Progress(r) /\ Written(r) /\ Told(r) /\ Yields(r)

\* A text that some run of the client had to deliver.
From(t, client) ==
  \E r \in Runs : Of(r, client) /\ t = AppendSpecs(r, run[r].case.names)

CacheInv ==
  /\ \A client \in Clients :
       /\ cache[client].prompt # None => From(cache[client].prompt, client)
       /\ cache[client].preview # None => From(cache[client].preview, client)
  /\ clipboard # None => \E client \in Clients : From(clipboard, client)
  /\ \A r \in Runs : Must(r, "preview") =>
       cache[Dir(r)].prompt = run[r].text \/ run[r].case.agent \in mixed
  /\ \A client \in Clients :
       \/ cache[client].prompt = cache[client].preview \/ client \in mixed
       \/ \E r \in Runs : Of(r, client) /\ (Must(r, "preview") \/ run[r].out = Lost)

HooksInv == Shape /\ (\A r \in Runs : RunInv(r)) /\ CacheInv

-----------------------------------------------------------------------------
(* Outputs: what each failure tells the host.                               *)
LEMMA NotNone ==
  /\ \A t \in Text : t # None
  /\ \A out \in Outputs : out # None
  /\ \A result \in Results : result # None
BY NoneAssumption DEF Text, Outputs, Says, Results, Budget, WaitDelay

LEMMA Exits ==
  ASSUME NEW code \in {-1, 0, 2}
  PROVE  /\ Exit(code) \in Outputs /\ Exit(code).exit = code /\ Exit(code).decision = None
         /\ Exit(code).context = None /\ Exit(code).says = Nothing
BY DEF Exit, Outputs, Says, Nothing

LEMMA Blocks ==
  ASSUME NEW says \in Says
  PROVE  /\ Block(says) \in Outputs /\ Block(says).exit = 0 /\ Block(says).decision = "block"
         /\ Block(says).context = None /\ Block(says).says = says
BY DEF Block, Exit, Outputs

LEMMA SaysNothing == Nothing \in Says
BY DEF Nothing, Says

(* An output that holds the prompt back and says what it is given.          *)
HoldsBack(out, says) ==
  /\ out \in Outputs /\ out.context = None /\ out.says \in {says, Nothing}
  /\ Effect(out) = "heldBack"

LEMMA ExitTwo ==
  ASSUME NEW says \in Says
  PROVE  HoldsBack([Exit(2) EXCEPT !.says = says], says) /\ HoldsBack(Exit(2), says)
<1>1. Lost.exit = -1
  BY DEF Lost, Exit
<1>2. [Exit(2) EXCEPT !.says = says] \in Outputs /\ [Exit(2) EXCEPT !.says = says].exit = 2
      /\ [Exit(2) EXCEPT !.says = says].context = None
      /\ [Exit(2) EXCEPT !.says = says].says = says
  BY DEF Exit, Outputs, Nothing
<1> QED
  BY <1>1, <1>2, Exits DEF HoldsBack, Effect

LEMMA Blocked ==
  ASSUME NEW says \in Says
  PROVE  HoldsBack(Block(says), says)
<1>1. Lost.decision = None /\ None # "block"
  BY NoneAssumption DEF Lost, Exit
<1> QED
  BY <1>1, Blocks DEF HoldsBack, Effect

LEMMA CodexHolds ==
  ASSUME NEW c \in Cases, NEW says \in Says
  PROVE  HoldsBack(EmitCodex(c, Block(says)), says)
<1>1. HoldsBack(Block(Nothing), says)
  BY Blocked, SaysNothing DEF HoldsBack
<1>2. EmitCodex(c, Block(says)) \in {Block(says), [Exit(2) EXCEPT !.says = says], Block(Nothing)}
  BY Blocks DEF EmitCodex
<1> QED
  BY <1>1, <1>2, ExitTwo, Blocked

\* What a run that fails may tell: nothing, and a marked prompt is held back.
Failure(c, out) ==
  /\ out \in Outputs /\ out.context = None /\ out.says = Nothing
  /\ Manual(c) => Effect(out) # "bare"

LEMMA Passing == PassOn \in Outputs /\ PassOn.context = None /\ PassOn.says = Nothing
BY Exits DEF PassOn

LEMMA Failures ==
  ASSUME NEW c \in Cases
  PROVE  /\ Failure(c, HookError(c)) /\ Failure(c, FailEarly(c)) /\ Failure(c, Refuse(c))
         /\ Failure(c, FailEnhance(c)) /\ Failure(c, Lost)
         /\ ~Manual(c) => Failure(c, PassOn)
<1>1. Failure(c, Exit(2)) /\ Failure(c, Block(Nothing)) /\ Failure(c, EmitCodex(c, Block(Nothing)))
  BY SaysNothing, ExitTwo, Blocked, CodexHolds DEF HoldsBack, Failure
<1>2. ~Manual(c) => Failure(c, PassOn) /\ HookError(c) = PassOn /\ EmitCodex(c, PassOn) = PassOn
  BY Passing, Exits, NoneAssumption DEF Failure, HookError, EmitCodex, PassOn
<1>3. Manual(c) => HookError(c) = Block(Nothing)
  BY DEF HookError
<1>4. Failure(c, Lost)
  BY Exits DEF Failure, Lost, Effect
<1> QED
  BY <1>1, <1>2, <1>3, <1>4 DEF FailEarly, Refuse, FailEnhance

-----------------------------------------------------------------------------
(* The steps of one run, seen from that run.                                *)
\* The two longer lists of work, entry by entry.
Copying == Append(Save, "copy")
Twice == Save \o Save \o <<"copy">>

\* s is a with b behind it.
Joins(s, a, b) ==
  /\ s \in Seq(Work) /\ Len(s) = Len(a) + Len(b)
  /\ \A i \in 1..(Len(a) + Len(b)) : s[i] = IF i <= Len(a) THEN a[i] ELSE b[i - Len(a)]

LEMMA Joined ==
  ASSUME NEW a \in Seq(Work), NEW b \in Seq(Work)
  PROVE  Joins(a \o b, a, b)
BY ConcatProperties DEF Joins

LEMMA Lists ==
  /\ Save \in Seq(Work) /\ Copying \in Seq(Work) /\ Twice \in Seq(Work)
  /\ Len(Save) = 2 /\ Len(Copying) = 3 /\ Len(Twice) = 5
  /\ Save[1] = "prompt" /\ Save[2] = "preview"
  /\ Copying[1] = "prompt" /\ Copying[2] = "preview" /\ Copying[3] = "copy"
  /\ Twice[1] = "prompt" /\ Twice[2] = "preview" /\ Twice[3] = "prompt"
  /\ Twice[4] = "preview" /\ Twice[5] = "copy"
<1>1. /\ Save \in Seq(Work) /\ Len(Save) = 2
      /\ Save[1] = "prompt" /\ Save[2] = "preview"
  BY DEF Save, Work
<1>2. <<"copy">> \in Seq(Work) /\ Len(<<"copy">>) = 1 /\ <<"copy">>[1] = "copy" /\ "copy" \in Work
  BY DEF Work
<1>3. Append(Save, "copy") = Save \o <<"copy">>
  BY <1>1, <1>2, AppendIsConcat
<1>4. PICK copying : copying = Copying /\ Joins(copying, Save, <<"copy">>)
  BY <1>1, <1>2, <1>3, Joined DEF Copying
<1>5. PICK two : two = Save \o Save /\ Joins(two, Save, Save)
  BY <1>1, Joined
<1>6. PICK twice : twice = Twice /\ Joins(twice, two, <<"copy">>)
  <2>1. two \in Seq(Work)
    BY <1>5 DEF Joins
  <2> QED
    BY <1>2, <1>5, <2>1, Joined DEF Twice
<1>7. /\ Copying \in Seq(Work) /\ Len(Copying) = 3
      /\ Copying[1] = "prompt" /\ Copying[2] = "preview" /\ Copying[3] = "copy"
  BY <1>1, <1>2, <1>4 DEF Joins
<1>8. /\ Len(two) = 4
      /\ two[1] = "prompt" /\ two[2] = "preview" /\ two[3] = "prompt" /\ two[4] = "preview"
  <2> HIDE <1>3, <1>4
  <2> QED
    BY <1>1, <1>5 DEF Joins
<1>9. /\ Twice \in Seq(Work) /\ Len(Twice) = 5
      /\ Twice[1] = "prompt" /\ Twice[2] = "preview" /\ Twice[3] = "prompt"
      /\ Twice[4] = "preview" /\ Twice[5] = "copy"
  BY <1>2, <1>6, <1>8 DEF Joins
<1> QED
  BY <1>1, <1>7, <1>9

LEMMA PlansOrdered ==
  Ordered(<<>>) /\ Ordered(Save) /\ Ordered(Copying) /\ Ordered(Twice)
<1>1. Ordered(<<>>)
  BY DEF Ordered
<1>2. Ordered(Save) /\ Ordered(Copying)
  BY Lists DEF Ordered
<1>3. Ordered(Twice)
  BY Lists DEF Ordered
<1> QED
  BY <1>1, <1>2, <1>3

LEMMA TailOrdered ==
  ASSUME NEW todo \in Seq(Work), todo # <<>>, Ordered(todo)
  PROVE  /\ Tail(todo) \in Seq(Work) /\ Ordered(Tail(todo))
         /\ Head(todo) = "prompt" => Tail(todo) # <<>> /\ Head(Tail(todo)) = "preview"
         /\ Head(todo) = "copy" => Tail(todo) = <<>>
<1> USE DEF Ordered
<1>1. /\ Tail(todo) \in Seq(Work) /\ Len(Tail(todo)) = Len(todo) - 1
      /\ \A n \in 1..(Len(todo) - 1) : Tail(todo)[n] = todo[n + 1]
      /\ Head(todo) = todo[1] /\ 1 \in DOMAIN todo
  OBVIOUS
<1>2. Ordered(Tail(todo))
  <2>1. ASSUME NEW n \in DOMAIN Tail(todo)
        PROVE  /\ n \in 1..(Len(todo) - 1) /\ n + 1 \in DOMAIN todo /\ (n + 1) - 1 = n
               /\ Tail(todo)[n] = todo[n + 1]
    BY <1>1
  <2>2. ASSUME NEW n \in DOMAIN Tail(todo), Tail(todo)[n] = "prompt"
        PROVE  n + 1 \in DOMAIN Tail(todo) /\ Tail(todo)[n + 1] = "preview"
    BY <1>1, <2>1, <2>2
  <2>3. ASSUME NEW n \in DOMAIN Tail(todo), Tail(todo)[n] = "preview", n # 1
        PROVE  Tail(todo)[n - 1] = "prompt"
    BY <1>1, <2>1, <2>3
  <2>4. ASSUME NEW n \in DOMAIN Tail(todo), Tail(todo)[n] = "copy"
        PROVE  n = Len(Tail(todo))
    BY <1>1, <2>1, <2>4
  <2> QED
    BY <2>2, <2>3, <2>4
<1>3. Head(todo) = "prompt" => Tail(todo) # <<>> /\ Head(Tail(todo)) = "preview"
  BY <1>1
<1>4. Head(todo) = "copy" => Tail(todo) = <<>>
  BY <1>1
<1> QED
  BY <1>1, <1>2, <1>3, <1>4

(* After a preview comes another prompt or nothing that is a preview.       *)
LEMMA NoPreviewNext ==
  ASSUME NEW todo \in Seq(Work), todo # <<>>, Ordered(todo),
         Tail(todo) # <<>>, Head(Tail(todo)) = "preview"
  PROVE  Head(todo) = "prompt"
<1>1. Len(todo) >= 2 /\ Head(Tail(todo)) = todo[2] /\ 2 \in DOMAIN todo /\ Head(todo) = todo[1]
  OBVIOUS
<1> QED
  BY <1>1 DEF Ordered

\* What a step of r keeps of every other run, and of r's case.
OwnStep(r) ==
  /\ run'[r] \in Process /\ RunInv(r)'
  /\ run[r].case # None => run'[r].case = run[r].case

(* A run that ends before it has begun.                                     *)
LEMMA EndsAtOnce ==
  ASSUME Shape, NEW r \in Runs, RunInv(r), NEW c \in Cases, NEW out,
         Starts(r, c), EndAtOnce(r, c, out),
         out \in Outputs, out.context = None, out.says = Nothing,
         Manual(c) => \/ Effect(out) # "bare"
                      \/ ProjectHook(c) /\ (knownHook \/ userHook # knownHook)
  PROVE  OwnStep(r)
<1>0. run[r].pc = "idle" /\ run[r] \in Process /\ run \in [Runs -> Process] /\ c # None
      /\ UNCHANGED <<knownHook, userHook>>
  BY NoneAssumption DEF Starts, Shape
<1>1. run'[r] \in Process
  BY <1>0 DEF EndAtOnce, Process
<1>2. /\ run'[r].pc = "done" /\ run'[r].case = c /\ run'[r].out = out
      /\ run'[r].text = run[r].text /\ run'[r].todo = run[r].todo
      /\ run'[r].wrote = run[r].wrote /\ run'[r].cached = run[r].cached
      /\ run'[r].copy = run[r].copy
  BY <1>0 DEF EndAtOnce, Process
<1>3. Progress(r)'
  BY <1>0, <1>2, NotNone DEF RunInv, Progress
<1>4. Written(r)'
  BY <1>0, <1>2 DEF RunInv, Written, Must, Progress
<1>5. Told(r)'
  BY <1>0, <1>2 DEF Told, Ran, Spoke, Agrees, Nothing
<1>6. Yields(r)'
  BY <1>0, <1>2 DEF Yields, Of, Ran, Starts, RunInv, Progress
<1>7. run[r].case = None
  BY <1>0 DEF RunInv, Progress
<1> QED
  BY <1>1, <1>3, <1>4, <1>5, <1>6, <1>7 DEF OwnStep, RunInv

LEMMA Begins ==
  ASSUME Shape, NEW r \in Runs, RunInv(r), NEW c \in Cases,
         Starts(r, c), Begin(r, c), ProjectHook(c) => ~userHook
  PROVE  OwnStep(r)
<1>0. run[r].pc = "idle" /\ run[r] \in Process /\ run \in [Runs -> Process] /\ c # None
      /\ UNCHANGED <<knownHook, userHook>>
  BY NoneAssumption DEF Starts, Shape
<1>1. run'[r] \in Process
  BY <1>0 DEF Begin, Process
<1>2. /\ run'[r].pc = "configure" /\ run'[r].case = c /\ run'[r].out = run[r].out
      /\ run'[r].text = run[r].text /\ run'[r].todo = run[r].todo
      /\ run'[r].wrote = run[r].wrote /\ run'[r].cached = run[r].cached
      /\ run'[r].copy = run[r].copy
  BY <1>0 DEF Begin, Process
<1>3. Progress(r)'
  BY <1>0, <1>2 DEF RunInv, Progress
<1>4. Written(r)'
  BY <1>0, <1>2 DEF RunInv, Written, Must, Progress
<1>5. Told(r)'
  BY <1>2 DEF Told, Ran, Spoke
<1>6. Yields(r)'
  BY <1>0, <1>2 DEF Yields, Of, Starts
<1>7. run[r].case = None
  BY <1>0 DEF RunInv, Progress
<1> QED
  BY <1>1, <1>3, <1>4, <1>5, <1>6, <1>7 DEF OwnStep, RunInv

LEMMA PrepareStep ==
  ASSUME Shape, NEW r \in Runs, RunInv(r), NEW c \in Cases,
         PrepareCodex(r, c) \/ PrepareClaude(r, c) \/ PrepareWindsurf(r, c)
  PROVE  OwnStep(r)
<1>1. ASSUME NEW out, Starts(r, c), EndAtOnce(r, c, out), Failure(c, out)
      PROVE  OwnStep(r)
  BY <1>1, EndsAtOnce DEF Failure
<1>2. ~ShouldHandleHook(c) => ~Manual(c)
  BY DEF ShouldHandleHook
<1>3. CASE PrepareCodex(r, c)
  <2>1. CASE ShouldSkipDuplicateHook(c) /\ EndAtOnce(r, c, PassOn)
    <3>1. ProjectHook(c) /\ (knownHook \/ userHook # knownHook)
      BY <2>1 DEF ShouldSkipDuplicateHook, ProjectHook, Shape
    <3> QED
      BY <1>3, <2>1, <3>1, Passing, EndsAtOnce DEF PrepareCodex
  <2>2. CASE Begin(r, c) /\ ~ShouldSkipDuplicateHook(c)
    BY <1>3, <2>2, Begins DEF PrepareCodex, ShouldSkipDuplicateHook, ProjectHook
  <2> QED
    BY <1>1, <1>2, <1>3, <2>1, <2>2, Failures DEF PrepareCodex
<1>4. CASE PrepareClaude(r, c)
  BY <1>1, <1>2, <1>4, Failures, Begins DEF PrepareClaude, ProjectHook
<1>5. CASE PrepareWindsurf(r, c)
  BY <1>1, <1>2, <1>5, Failures, Begins DEF PrepareWindsurf, ProjectHook
<1> QED
  BY <1>3, <1>4, <1>5

(* A run that ends on its way, with what it says of its own writing.        *)
LEMMA Ends ==
  ASSUME Shape, NEW r \in Runs, RunInv(r), NEW out \in Outputs,
         run[r].pc \notin {"idle", "done"}, UNCHANGED <<userHook, knownHook>>,
         run'[r] \in Process, run'[r].pc = "done", run'[r].case = run[r].case,
         run'[r].text \in {None, run[r].text}, run'[r].todo = <<>>, run'[r].out = out,
         run'[r].wrote = run[r].wrote, run'[r].cached = run[r].cached,
         run'[r].copy = run[r].copy,
         out # Lost => Agrees(r, out.says) /\ out.context \in {None, run'[r].text},
         Manual(run[r].case) => Effect(out) # "bare"
  PROVE  OwnStep(r)
<1>1. Progress(r)'
  BY NotNone DEF RunInv, Progress
<1>2. Written(r)'
  BY PlansOrdered DEF RunInv, Written, Must, Progress
<1>3. Told(r)'
  BY DEF Told, Ran, Spoke, Agrees
<1>4. Yields(r)'
  BY DEF RunInv, Yields, Of, Ran, Progress
<1> QED
  BY <1>1, <1>2, <1>3, <1>4 DEF OwnStep, RunInv

LEMMA Finishes ==
  ASSUME Shape, NEW r \in Runs, RunInv(r), NEW out \in Outputs,
         run[r].pc \notin {"idle", "done"}, UNCHANGED <<userHook, knownHook>>,
         Finish(r, out),
         out # Lost => Agrees(r, out.says) /\ out.context \in {None, run[r].text},
         Manual(run[r].case) => Effect(out) # "bare"
  PROVE  OwnStep(r)
<1>0. run[r] \in Process /\ run \in [Runs -> Process] /\ <<>> \in Seq(Work)
  BY DEF Shape
<1>1. run'[r] = [run[r] EXCEPT !.pc = "done", !.out = out, !.todo = <<>>]
  BY <1>0 DEF Finish
<1>2. run'[r] \in Process
  BY <1>0, <1>1 DEF Process
<1>3. /\ run'[r].pc = "done" /\ run'[r].case = run[r].case /\ run'[r].out = out
      /\ run'[r].text = run[r].text /\ run'[r].todo = <<>>
      /\ run'[r].wrote = run[r].wrote /\ run'[r].cached = run[r].cached
      /\ run'[r].copy = run[r].copy
  BY <1>0, <1>1 DEF Process
<1> QED
  BY <1>2, <1>3, Ends

(* ... and one that fails has nothing to say.                               *)
LEMMA FailsStep ==
  ASSUME Shape, NEW r \in Runs, RunInv(r), NEW out, Failure(run[r].case, out),
         run[r].pc \notin {"idle", "done"}, UNCHANGED <<userHook, knownHook>>,
         Finish(r, out)
  PROVE  OwnStep(r)
<1>1. Agrees(r, out.says)
  BY DEF Failure, Nothing, Agrees
<1> QED
  BY <1>1, Finishes DEF Failure

LEMMA HasCase ==
  ASSUME Shape, NEW r \in Runs, RunInv(r), run[r].pc # "idle"
  PROVE  /\ run[r].case \in Cases /\ run[r].case.agent \in Clients
         /\ run[r].case.names \in Seq(Specs) /\ run[r].case.fallback \in BOOLEAN
         /\ Dir(r) = run[r].case.agent
BY HooksAssumption DEF Shape, Process, RunInv, Progress, Dir, cacheDir

(* A run that goes on before it has written anything.                       *)
LEMMA GoesOn ==
  ASSUME Shape, NEW r \in Runs, RunInv(r),
         run[r].pc \in {"configure", "specs", "enhance"}, UNCHANGED <<userHook, knownHook>>,
         NEW new \in Process, run'[r] = new,
         new.pc \in {"specs", "enhance", "deliver"}, new.case = run[r].case,
         new.out = run[r].out, new.wrote = run[r].wrote, new.cached = run[r].cached,
         new.copy = run[r].copy, Ordered(new.todo), new.pc # "deliver" => new.todo = <<>>,
         new.todo # <<>> => Head(new.todo) = "prompt",
         new.pc = "specs" => new.text = None,
         new.pc # "specs" => new.text = AppendSpecs(r, run[r].case.names)
  PROVE  OwnStep(r)
<1>1. AppendSpecs(r, run[r].case.names) # None
  <2>1. AppendSpecs(r, run[r].case.names) \in Text
    BY HasCase DEF AppendSpecs, Text
  <2> QED
    BY <2>1, NotNone
<1>2. Progress(r)'
  BY <1>1 DEF RunInv, Progress
<1>3. Written(r)'
  BY DEF RunInv, Written, Must, Progress
<1>4. Told(r)'
  BY DEF Told, Ran, Spoke
<1>5. Yields(r)'
  BY DEF RunInv, Yields, Of, Ran, Progress
<1> QED
  BY <1>2, <1>3, <1>4, <1>5 DEF OwnStep, RunInv

LEMMA ConfigureStep ==
  ASSUME Shape, NEW r \in Runs, RunInv(r), Configure(r)
  PROVE  OwnStep(r)
<1>0. run[r] \in Process /\ run \in [Runs -> Process] /\ run[r].case \in Cases
  BY HasCase DEF Shape, Configure
<1>1. CASE Finish(r, FailEarly(run[r].case))
  BY <1>0, <1>1, Failures, FailsStep DEF Configure
<1>2. CASE run' = [run EXCEPT ![r].pc = "specs"]
  <2>1. PICK new \in Process :
          /\ run'[r] = new /\ new.pc = "specs" /\ new.case = run[r].case
          /\ new.out = run[r].out /\ new.wrote = run[r].wrote /\ new.cached = run[r].cached
          /\ new.copy = run[r].copy /\ new.todo = run[r].todo /\ new.text = run[r].text
    <3>1. [run[r] EXCEPT !.pc = "specs"] \in Process /\ run'[r] = [run[r] EXCEPT !.pc = "specs"]
      BY <1>0, <1>2 DEF Process
    <3> QED
      BY <1>0, <3>1 DEF Process
  <2>2. run[r].todo = <<>> /\ run[r].text = None
    BY DEF Configure, RunInv, Progress
  <2> QED
    BY <2>1, <2>2, PlansOrdered, GoesOn DEF Configure
<1> QED
  BY <1>1, <1>2 DEF Configure

LEMMA ResolveStep ==
  ASSUME Shape, NEW r \in Runs, RunInv(r), ResolveSpecs(r)
  PROVE  OwnStep(r)
<1> DEFINE c == run[r].case
<1>0. run[r] \in Process /\ run \in [Runs -> Process] /\ c \in Cases /\ c.names \in Seq(Specs)
  BY HasCase DEF Shape, ResolveSpecs
<1>1. CASE Finish(r, Refuse(c))
  BY <1>0, <1>1, Failures, FailsStep DEF ResolveSpecs
<1>2. CASE ~Finish(r, Refuse(c))
  <2>1. LoadSpecs(c.names) = c.names
    BY <1>2 DEF ResolveSpecs, LoadSpecs
  <2>2. run' = [run EXCEPT ![r].pc = "enhance", ![r].text = AppendSpecs(r, c.names)]
    BY <1>2, <2>1 DEF ResolveSpecs
  <2>3. PICK text \in Text : text = AppendSpecs(r, c.names)
    BY <1>0 DEF AppendSpecs, Text
  <2>4. PICK new \in Process :
          /\ run'[r] = new /\ new.pc = "enhance" /\ new.case = run[r].case
          /\ new.out = run[r].out /\ new.wrote = run[r].wrote /\ new.cached = run[r].cached
          /\ new.copy = run[r].copy /\ new.todo = run[r].todo /\ new.text = text
    <3>1. /\ [run[r] EXCEPT !.pc = "enhance", !.text = text] \in Process
          /\ run'[r] = [run[r] EXCEPT !.pc = "enhance", !.text = text]
      BY <1>0, <2>2, <2>3 DEF Process
    <3> QED
      BY <1>0, <3>1 DEF Process
  <2>5. run[r].todo = <<>>
    BY DEF ResolveSpecs, RunInv, Progress
  <2> QED
    BY <2>3, <2>4, <2>5, PlansOrdered, GoesOn DEF ResolveSpecs
<1> QED
  BY <1>1, <1>2

LEMMA EnhanceFailsStep ==
  ASSUME Shape, NEW r \in Runs, RunInv(r), EnhanceFails(r)
  PROVE  OwnStep(r)
<1>0. run[r] \in Process /\ run \in [Runs -> Process] /\ run[r].case \in Cases
      /\ run[r].todo = <<>>
  BY HasCase DEF Shape, EnhanceFails, RunInv, Progress
<1>1. PICK out : out = FailEnhance(run[r].case) /\ out \in Outputs
  BY <1>0, Failures DEF Failure
<1>2. run'[r] = [run[r] EXCEPT !.pc = "done", !.text = None, !.out = out]
  BY <1>0, <1>1 DEF EnhanceFails
<1>3. run'[r] \in Process
  BY <1>0, <1>1, <1>2 DEF Process
<1>4. /\ run'[r].pc = "done" /\ run'[r].case = run[r].case /\ run'[r].out = out
      /\ run'[r].text = None /\ run'[r].todo = <<>>
      /\ run'[r].wrote = run[r].wrote /\ run'[r].cached = run[r].cached
      /\ run'[r].copy = run[r].copy
  BY <1>0, <1>2 DEF Process
<1>5. Agrees(r, out.says) /\ out.context = None /\ (Manual(run[r].case) => Effect(out) # "bare")
  BY <1>0, <1>1, Failures DEF Failure, Nothing, Agrees
<1> QED
  BY <1>1, <1>3, <1>4, <1>5, Ends DEF EnhanceFails

LEMMA HandleStep ==
  ASSUME Shape, NEW r \in Runs, RunInv(r), HandleCodex(r) \/ HandleClaude(r) \/ HandleWindsurf(r)
  PROVE  OwnStep(r)
<1>0. run[r] \in Process /\ run \in [Runs -> Process]
  BY DEF Shape
<1>1. PICK todo \in {Save, Copying, Twice} : Enhanced(r, todo)
  BY DEF HandleCodex, HandleClaude, HandleWindsurf, Copying, Twice
<1>2. todo \in Seq(Work) /\ Ordered(todo) /\ Head(todo) = "prompt"
  BY Lists, PlansOrdered
<1>3. PICK new \in Process :
        /\ run'[r] = new /\ new.pc = "deliver" /\ new.case = run[r].case
        /\ new.out = run[r].out /\ new.wrote = run[r].wrote /\ new.cached = run[r].cached
        /\ new.copy = run[r].copy /\ new.todo = todo /\ new.text = run[r].text
  <2>1. /\ [run[r] EXCEPT !.pc = "deliver", !.todo = todo] \in Process
        /\ run'[r] = [run[r] EXCEPT !.pc = "deliver", !.todo = todo]
    BY <1>0, <1>1, <1>2 DEF Process, Enhanced
  <2> QED
    BY <1>0, <2>1 DEF Process
<1>4. run[r].pc = "enhance" /\ run[r].text = AppendSpecs(r, run[r].case.names)
      /\ UNCHANGED <<userHook, knownHook>>
  BY <1>1 DEF Enhanced, RunInv, Progress
<1> QED
  BY <1>2, <1>3, <1>4, GoesOn

(* A run that goes on with what is left to deliver.                         *)
LEMMA Delivers ==
  ASSUME Shape, NEW r \in Runs, RunInv(r), run[r].pc = "deliver",
         UNCHANGED <<userHook, knownHook>>,
         NEW new \in Process, run'[r] = new, new.pc = "deliver",
         new.case = run[r].case, new.text = run[r].text, new.out = run[r].out,
         Ordered(new.todo), new.copy # None => new.todo = <<>>,
         "clipboard" \in new.wrote <=> new.copy # None /\ new.copy.ok,
         new.cached => {"prompt", "preview"} \subseteq new.wrote,
         new.todo # <<>> /\ Head(new.todo) = "preview" => "prompt" \in new.wrote
  PROVE  OwnStep(r)
<1>1. Progress(r)'
  BY DEF RunInv, Progress
<1>2. Written(r)'
  BY DEF Written, Must
<1>3. Told(r)'
  BY DEF Told, Ran, Spoke
<1>4. Yields(r)'
  BY DEF RunInv, Yields, Of, Ran, Progress
<1> QED
  BY <1>1, <1>2, <1>3, <1>4 DEF OwnStep, RunInv

LEMMA SavePromptStep ==
  ASSUME Shape, NEW r \in Runs, RunInv(r), SavePrompt(r)
  PROVE  OwnStep(r) /\ Must(r, "preview")' /\ run'[r].text = run[r].text
<1>0. run[r] \in Process /\ run \in [Runs -> Process] /\ run[r].todo \in Seq(Work)
  BY DEF Shape, Process
<1>1. run[r].todo # <<>> /\ Ordered(run[r].todo) /\ Head(run[r].todo) = "prompt"
  BY DEF SavePrompt, Must, RunInv, Written
<1>2. PICK todo \in Seq(Work) :
        todo = Tail(run[r].todo) /\ Ordered(todo) /\ todo # <<>> /\ Head(todo) = "preview"
  BY <1>0, <1>1, TailOrdered
<1>3. PICK new \in Process :
        /\ run'[r] = new /\ new.pc = run[r].pc /\ new.case = run[r].case
        /\ new.text = run[r].text /\ new.out = run[r].out /\ new.cached = run[r].cached
        /\ new.copy = run[r].copy /\ new.todo = todo
        /\ new.wrote = run[r].wrote \cup {"prompt"}
  <2>1. /\ [run[r] EXCEPT !.todo = todo, !.wrote = @ \cup {"prompt"}] \in Process
        /\ run'[r] = [run[r] EXCEPT !.todo = todo, !.wrote = @ \cup {"prompt"}]
    BY <1>0, <1>2 DEF Process, SavePrompt
  <2> QED
    BY <1>0, <2>1 DEF Process
<1>4. run[r].pc = "deliver" /\ UNCHANGED <<userHook, knownHook>> /\ run[r].copy = None
  BY <1>1 DEF SavePrompt, Must, RunInv, Written
<1>5. OwnStep(r)
  <2>1. new.cached => {"prompt", "preview"} \subseteq new.wrote
    BY <1>3 DEF RunInv, Written
  <2>2. "clipboard" \in new.wrote <=> new.copy # None /\ new.copy.ok
    BY <1>3, <1>4 DEF RunInv, Written
  <2> QED
    BY <1>2, <1>3, <1>4, <2>1, <2>2, Delivers
<1> QED
  BY <1>2, <1>3, <1>4, <1>5 DEF Must

LEMMA SavePreviewStep ==
  ASSUME Shape, NEW r \in Runs, RunInv(r), SavePreview(r)
  PROVE  OwnStep(r) /\ ~Must(r, "preview")'
<1>0. run[r] \in Process /\ run \in [Runs -> Process] /\ run[r].todo \in Seq(Work)
  BY DEF Shape, Process
<1>1. /\ run[r].todo # <<>> /\ Ordered(run[r].todo) /\ Head(run[r].todo) = "preview"
      /\ "prompt" \in run[r].wrote
  BY DEF SavePreview, Must, RunInv, Written
<1>2. PICK todo \in Seq(Work) :
        /\ todo = Tail(run[r].todo) /\ Ordered(todo)
        /\ ~(todo # <<>> /\ Head(todo) = "preview")
  BY <1>0, <1>1, TailOrdered, NoPreviewNext
<1>3. PICK new \in Process :
        /\ run'[r] = new /\ new.pc = run[r].pc /\ new.case = run[r].case
        /\ new.text = run[r].text /\ new.out = run[r].out /\ new.cached = TRUE
        /\ new.copy = run[r].copy /\ new.todo = todo
        /\ new.wrote = run[r].wrote \cup {"preview"}
  <2>1. /\ [run[r] EXCEPT !.todo = todo, !.cached = TRUE, !.wrote = @ \cup {"preview"}]
             \in Process
        /\ run'[r] = [run[r] EXCEPT !.todo = todo, !.cached = TRUE,
                                    !.wrote = @ \cup {"preview"}]
    BY <1>0, <1>2 DEF Process, SavePreview
  <2> QED
    BY <1>0, <2>1 DEF Process
<1>4. run[r].pc = "deliver" /\ UNCHANGED <<userHook, knownHook>> /\ run[r].copy = None
  BY <1>1 DEF SavePreview, Must, RunInv, Written
<1>5. OwnStep(r)
  <2>1. "clipboard" \in new.wrote <=> new.copy # None /\ new.copy.ok
    BY <1>3, <1>4 DEF RunInv, Written
  <2> QED
    BY <1>1, <1>2, <1>3, <1>4, <2>1, Delivers
<1> QED
  BY <1>2, <1>3, <1>5 DEF Must

LEMMA SaveFailsStep ==
  ASSUME Shape, NEW r \in Runs, RunInv(r), SaveFails(r)
  PROVE  OwnStep(r) /\ ~Must(r, "preview")'
<1>0. run[r] \in Process /\ run \in [Runs -> Process] /\ run[r].todo \in Seq(Work)
  BY DEF Shape, Process
<1>1. run[r].todo # <<>> /\ Ordered(run[r].todo)
  BY DEF SaveFails, Must, RunInv, Written
<1>2. PICK todo \in Seq(Work) :
        /\ todo = IF Must(r, "prompt") THEN Tail(Tail(run[r].todo)) ELSE Tail(run[r].todo)
        /\ Ordered(todo) /\ ~(todo # <<>> /\ Head(todo) = "preview")
  <2>1. CASE Must(r, "prompt")
    <3>1. PICK tail \in Seq(Work) :
            tail = Tail(run[r].todo) /\ Ordered(tail) /\ tail # <<>> /\ Head(tail) = "preview"
      BY <1>0, <1>1, <2>1, TailOrdered DEF Must
    <3>2. Tail(tail) \in Seq(Work) /\ Ordered(Tail(tail))
      BY <3>1, TailOrdered
    <3>3. ~(Tail(tail) # <<>> /\ Head(Tail(tail)) = "preview")
      BY <3>1, NoPreviewNext
    <3> QED
      BY <2>1, <3>1, <3>2, <3>3
  <2>2. CASE ~Must(r, "prompt")
    BY <1>0, <1>1, <2>2, TailOrdered, NoPreviewNext DEF SaveFails, Must
  <2> QED
    BY <2>1, <2>2
<1>3. PICK new \in Process :
        /\ run'[r] = new /\ new.pc = run[r].pc /\ new.case = run[r].case
        /\ new.text = run[r].text /\ new.out = run[r].out /\ new.cached = FALSE
        /\ new.copy = run[r].copy /\ new.todo = todo /\ new.wrote = run[r].wrote
  <2>1. /\ [run[r] EXCEPT !.cached = FALSE, !.todo = todo] \in Process
        /\ run'[r] = [run[r] EXCEPT !.cached = FALSE, !.todo = todo]
    BY <1>0, <1>2 DEF Process, SaveFails
  <2> QED
    BY <1>0, <2>1 DEF Process
<1>4. run[r].pc = "deliver" /\ UNCHANGED <<userHook, knownHook>> /\ run[r].copy = None
  BY <1>1 DEF SaveFails, Must, RunInv, Written
<1>5. OwnStep(r)
  <2>1. "clipboard" \in new.wrote <=> new.copy # None /\ new.copy.ok
    BY <1>3, <1>4 DEF RunInv, Written
  <2> QED
    BY <1>2, <1>3, <1>4, <2>1, Delivers
<1> QED
  BY <1>2, <1>3, <1>5 DEF Must

LEMMA CopyStep ==
  ASSUME Shape, NEW r \in Runs, RunInv(r), Copy(r)
  PROVE  OwnStep(r) /\ ~Must(r, "preview")'
<1>0. run[r] \in Process /\ run \in [Runs -> Process] /\ run[r].todo \in Seq(Work)
  BY DEF Shape, Process
<1>1. /\ run[r].todo # <<>> /\ Ordered(run[r].todo) /\ Head(run[r].todo) = "copy"
      /\ run[r].copy = None /\ "clipboard" \notin run[r].wrote
  BY DEF Copy, Must, RunInv, Written
<1>2. PICK todo \in Seq(Work) : todo = Tail(run[r].todo) /\ todo = <<>>
  BY <1>0, <1>1, TailOrdered
<1>3. PICK result \in Results :
        run' = [run EXCEPT ![r].todo = Tail(@), ![r].copy = result,
                  ![r].wrote = IF result.ok THEN @ \cup {"clipboard"} ELSE @]
  BY CopyResult DEF Copy
<1>4. result.ok \in BOOLEAN /\ result # None
  BY NotNone DEF Results
<1>5. PICK wrote \in SUBSET {"prompt", "preview", "clipboard"} :
        wrote = IF result.ok THEN run[r].wrote \cup {"clipboard"} ELSE run[r].wrote
  BY <1>0 DEF Process
<1>6. PICK new \in Process :
        /\ run'[r] = new /\ new.pc = run[r].pc /\ new.case = run[r].case
        /\ new.text = run[r].text /\ new.out = run[r].out /\ new.cached = run[r].cached
        /\ new.copy = result /\ new.todo = todo /\ new.wrote = wrote
  <2>1. [run[r] EXCEPT !.todo = todo, !.copy = result, !.wrote = wrote] \in Process
    BY <1>0 DEF Process
  <2>2. run'[r] = [run[r] EXCEPT !.todo = Tail(@), !.copy = result,
                     !.wrote = IF result.ok THEN @ \cup {"clipboard"} ELSE @]
    BY <1>0, <1>3
  <2>3. run'[r] = [run[r] EXCEPT !.todo = todo, !.copy = result, !.wrote = wrote]
    BY <1>2, <1>5, <2>2
  <2> QED
    BY <1>0, <2>1, <2>3 DEF Process
<1>7. run[r].pc = "deliver" /\ UNCHANGED <<userHook, knownHook>>
  BY DEF Copy, Must
<1>8. new.cached => {"prompt", "preview"} \subseteq new.wrote
  BY <1>5, <1>6 DEF RunInv, Written
<1>9. "clipboard" \in new.wrote <=> new.copy # None /\ new.copy.ok
  BY <1>1, <1>4, <1>5, <1>6
<1>10. OwnStep(r)
  BY <1>2, <1>6, <1>7, <1>8, <1>9, PlansOrdered, Delivers
<1> QED
  BY <1>2, <1>6, <1>10 DEF Must

(* What a run tells its user of the cache and the clipboard is so.          *)
LEMMA StatusAgrees ==
  ASSUME Shape, NEW r \in Runs, RunInv(r), run[r].pc # "idle"
  PROVE  HookStatus(r) \in Says /\ Agrees(r, HookStatus(r))
<1>1. /\ run[r].cached \in BOOLEAN /\ run[r].case.fallback \in BOOLEAN
      /\ run[r].copy # None => run[r].copy.ok \in BOOLEAN
  BY HasCase DEF Shape, Process, Results
<1> QED
  BY <1>1 DEF HookStatus, Says, Agrees, RunInv, Written

LEMMA Enriches ==
  ASSUME NEW text \in Text
  PROVE  /\ AdditionalContext(text) \in Outputs /\ AdditionalContext(text).says = Nothing
         /\ AdditionalContext(text).context = text
         /\ Effect(AdditionalContext(text)) # "bare"
<1>1. /\ AdditionalContext(text) \in Outputs /\ AdditionalContext(text).says = Nothing
      /\ AdditionalContext(text).context = text
  BY SaysNothing DEF AdditionalContext, Exit, Outputs
<1> QED
  BY <1>1, NotNone DEF Effect

LEMMA EmitStep ==
  ASSUME Shape, NEW r \in Runs, RunInv(r),
         \/ emitCodexHookExecution(r) \/ emitClaudeHookOutput(r) \/ emitWindsurfHookOutput(r)
  PROVE  OwnStep(r)
<1>0. run[r].pc = "deliver" /\ UNCHANGED <<userHook, knownHook>>
  BY DEF emitCodexHookExecution, emitClaudeHookOutput, emitWindsurfHookOutput, Emits
<1>1. run[r].case \in Cases
  BY <1>0, HasCase
<1>2. PICK says \in Says : says = HookStatus(r) /\ Agrees(r, says)
  BY <1>0, StatusAgrees
<1>3. Agrees(r, Nothing)
  BY DEF Agrees, Nothing
<1>4. run[r].text \in Text
  BY <1>0 DEF RunInv, Progress, Shape, Process
<1>5. ASSUME NEW out, Emits(r, out), HoldsBack(out, says)
      PROVE  OwnStep(r)
  BY <1>0, <1>2, <1>3, <1>5, Finishes DEF HoldsBack, Emits
<1>6. ASSUME Emits(r, AdditionalContext(run[r].text))
      PROVE  OwnStep(r)
  <2>1. PICK out \in Outputs :
          /\ out = AdditionalContext(run[r].text) /\ out.says = Nothing
          /\ out.context = run[r].text /\ Effect(out) # "bare"
    BY <1>4, Enriches
  <2> QED
    BY <1>0, <1>3, <1>6, <2>1, Finishes DEF Emits
<1>7. /\ HoldsBack(EmitCodex(run[r].case, Block(says)), says)
      /\ HoldsBack([Exit(2) EXCEPT !.says = says], says)
  BY <1>1, CodexHolds, ExitTwo
<1>8. \/ Emits(r, AdditionalContext(run[r].text))
      \/ Emits(r, EmitCodex(run[r].case, Block(says)))
      \/ Emits(r, [Exit(2) EXCEPT !.says = says])
  BY <1>2 DEF emitCodexHookExecution, emitClaudeHookOutput, emitWindsurfHookOutput
<1> QED
  BY <1>5, <1>6, <1>7, <1>8

LEMMA LoseStep ==
  ASSUME Shape, NEW r \in Runs, RunInv(r), LoseOutput(r)
  PROVE  OwnStep(r) /\ run'[r].out = Lost
<1>1. run[r].case \in Cases
  BY HasCase DEF LoseOutput
<1>2. OwnStep(r)
  BY <1>1, Failures, FailsStep DEF LoseOutput
<1>3. run'[r].out = Lost
  BY DEF LoseOutput, Finish, Shape, Process
<1> QED
  BY <1>2, <1>3

-----------------------------------------------------------------------------
(* What a step of one run leaves of the others, and what it does to what    *)
(* they share.                                                              *)

\* A step of r: the other runs, the spec directory and the hooks stay.
Alone(r) ==
  /\ OwnStep(r)
  /\ run' = [q \in Runs |-> run'[q]] /\ \A q \in Runs \ {r} : run'[q] = run[q]
  /\ UNCHANGED <<specs, userHook, knownHook>> /\ faults' \in 0..MaxFaults

LEMMA OthersKeep ==
  ASSUME Shape, NEW r \in Runs, NEW q \in Runs, RunInv(q),
         run'[q] = run[q], UNCHANGED <<userHook, knownHook>>
  PROVE  RunInv(q)'
<1>1. Progress(q)' /\ Written(q)'
  BY DEF RunInv, Progress, Written, Must
<1>2. Told(q)'
  BY DEF RunInv, Told, Spoke, Ran, Agrees
<1>3. Yields(q)'
  BY DEF RunInv, Yields, Of, Ran
<1> QED
  BY <1>1, <1>2, <1>3 DEF RunInv

(* All runs keep their part.                                                *)
LEMMA AllKeep ==
  ASSUME HooksInv, NEW r \in Runs, Alone(r)
  PROVE  /\ run' \in [Runs -> Process] /\ \A q \in Runs : RunInv(q)'
         /\ \A q \in Runs : run[q].case # None => run'[q].case = run[q].case
<1>1. \A q \in Runs : RunInv(q)'
  <2>1. ASSUME NEW q \in Runs PROVE RunInv(q)'
    BY OthersKeep DEF HooksInv, Alone, OwnStep
  <2> QED
    BY <2>1
<1> QED
  BY <1>1 DEF HooksInv, Shape, Alone, OwnStep

LEMMA FromStays ==
  ASSUME HooksInv, NEW r \in Runs, Alone(r), NEW t, NEW client, From(t, client)
  PROVE  From(t, client)'
BY AllKeep DEF From, Of, Alone

(* What a run delivers is its text, for its client.                         *)
LEMMA OwnText ==
  ASSUME HooksInv, NEW r \in Runs, run[r].pc = "deliver"
  PROVE  /\ run[r].case.agent \in Clients /\ Dir(r) = run[r].case.agent
         /\ Of(r, run[r].case.agent) /\ run[r].text \in Text
         /\ From(run[r].text, run[r].case.agent)
<1>1. run[r].case.agent \in Clients /\ Dir(r) = run[r].case.agent
  BY HasCase DEF HooksInv
<1>2. Of(r, run[r].case.agent) /\ run[r].text = AppendSpecs(r, run[r].case.names)
  BY DEF HooksInv, RunInv, Progress, Of
<1>3. run[r].text \in Text
  BY DEF HooksInv, Shape, Process, RunInv, Progress
<1> QED
  BY <1>1, <1>2, <1>3 DEF From

(* Steps that neither write the cache nor begin or end a save.              *)
LEMMA QuietStep ==
  ASSUME HooksInv, NEW r \in Runs, Alone(r), UNCHANGED <<cache, mixed>>,
         clipboard' = clipboard \/ (run[r].pc = "deliver" /\ clipboard' = run[r].text),
         ~Must(r, "preview") \/ run[r].case.agent \in mixed, ~Must(r, "preview")',
         run[r].pc # "done"
  PROVE  HooksInv'
<1>1. Shape' /\ \A q \in Runs : RunInv(q)'
  BY AllKeep, OwnText DEF HooksInv, Shape, Alone
<1>2. ASSUME NEW client \in Clients
      PROVE  /\ (cache[client].prompt # None => From(cache[client].prompt, client))'
             /\ (cache[client].preview # None => From(cache[client].preview, client))'
  BY FromStays DEF HooksInv, CacheInv
<1>3. (clipboard # None => \E client \in Clients : From(clipboard, client))'
  <2>1. CASE clipboard' = clipboard
    BY <2>1, FromStays DEF HooksInv, CacheInv
  <2>2. CASE run[r].pc = "deliver" /\ clipboard' = run[r].text
    BY <2>2, OwnText, FromStays
  <2> QED
    BY <2>1, <2>2
<1>4. ASSUME NEW q \in Runs, Must(q, "preview")'
      PROVE  (cache[Dir(q)].prompt = run[q].text \/ run[q].case.agent \in mixed)'
  <2>1. q # r /\ run'[q] = run[q] /\ Must(q, "preview")
    BY <1>4 DEF Alone, Must
  <2> QED
    BY <2>1 DEF HooksInv, CacheInv, Dir, cacheDir
<1>5. ASSUME NEW client \in Clients, cache[client].prompt # cache[client].preview,
             client \notin mixed
      PROVE  (\E q \in Runs : Of(q, client) /\ (Must(q, "preview") \/ run[q].out = Lost))'
  <2>1. PICK q \in Runs : Of(q, client) /\ (Must(q, "preview") \/ run[q].out = Lost)
    BY <1>5 DEF HooksInv, CacheInv
  <2>2. q # r
    BY <1>5, <2>1, NotNone, Exits DEF HooksInv, RunInv, Progress, Of, Lost
  <2>3. run'[q] = run[q]
    BY <2>2 DEF Alone
  <2> QED
    BY <2>1, <2>3 DEF Of, Must
<1>6. CacheInv'
  BY <1>2, <1>3, <1>4, <1>5 DEF CacheInv
<1> QED
  BY <1>1, <1>6 DEF HooksInv

LEMMA SavePromptKeeps ==
  ASSUME HooksInv, NEW r \in Runs, SavePrompt(r), Alone(r)
  PROVE  HooksInv'
<1> DEFINE agent == run[r].case.agent
           text == run[r].text
<1>0. /\ agent \in Clients /\ Dir(r) = agent /\ text \in Text /\ From(text, agent)
      /\ Of(r, agent)
  BY OwnText DEF SavePrompt, Must
<1>1. /\ cache' \in [Clients -> [prompt : Text \cup {None}, preview : Text \cup {None}]]
      /\ \A d \in Clients : /\ cache'[d].prompt = IF d = agent THEN text ELSE cache[d].prompt
                            /\ cache'[d].preview = cache[d].preview
  BY <1>0 DEF SavePrompt, HooksInv, Shape
<1>2. /\ Must(r, "preview")' /\ run'[r].text = text /\ run'[r].case = run[r].case
      /\ mixed \subseteq mixed' /\ mixed' \subseteq mixed \cup {agent}
  BY <1>0, SavePromptStep DEF HooksInv, SavePrompt, OwnStep, Of
<1>3. Shape' /\ \A q \in Runs : RunInv(q)'
  BY <1>0, <1>1, <1>2, AllKeep DEF HooksInv, Shape, Alone, SavePrompt
<1>4. ASSUME NEW client \in Clients
      PROVE  /\ (cache[client].prompt # None => From(cache[client].prompt, client))'
             /\ (cache[client].preview # None => From(cache[client].preview, client))'
  BY <1>0, <1>1, FromStays DEF HooksInv, CacheInv
<1>5. (clipboard # None => \E client \in Clients : From(clipboard, client))'
  BY FromStays DEF HooksInv, CacheInv, SavePrompt
<1>6. ASSUME NEW q \in Runs, Must(q, "preview")'
      PROVE  (cache[Dir(q)].prompt = run[q].text \/ run[q].case.agent \in mixed)'
  <2>1. CASE q = r
    BY <1>0, <1>1, <1>2, <2>1 DEF Dir, cacheDir
  <2>2. CASE q # r
    <3>1. run'[q] = run[q] /\ Must(q, "preview")
      BY <1>6, <2>2 DEF Alone, Must
    <3>2. run[q].case.agent \in Clients /\ Dir(q) = run[q].case.agent
      BY <3>1, OwnText DEF Must
    <3>3. CASE Dir(q) = Dir(r)
      <4>1. Overlaps(r)
        BY <2>2, <3>1, <3>3 DEF Overlaps
      <4>2. run[q].case.agent = agent
        BY <1>0, <3>2, <3>3
      <4> QED
        BY <3>1, <4>1, <4>2 DEF SavePrompt
    <3>4. CASE Dir(q) # Dir(r)
      BY <1>0, <1>1, <1>2, <3>1, <3>2, <3>4 DEF HooksInv, CacheInv, Dir, cacheDir
    <3> QED
      BY <3>3, <3>4
  <2> QED
    BY <2>1, <2>2
<1>7. ASSUME NEW client \in Clients, cache'[client].prompt # cache'[client].preview,
             client \notin mixed'
      PROVE  (\E q \in Runs : Of(q, client) /\ (Must(q, "preview") \/ run[q].out = Lost))'
  <2>1. CASE client = agent
    BY <1>0, <1>2, <2>1 DEF Of
  <2>2. CASE client # agent
    <3>1. PICK q \in Runs : Of(q, client) /\ (Must(q, "preview") \/ run[q].out = Lost)
      BY <1>1, <1>2, <1>7, <2>2 DEF HooksInv, CacheInv
    <3>2. run'[q] = run[q]
      BY <2>2, <3>1 DEF Alone, Of
    <3> QED
      BY <3>1, <3>2 DEF Of, Must
  <2> QED
    BY <2>1, <2>2
<1>8. CacheInv'
  BY <1>4, <1>5, <1>6, <1>7 DEF CacheInv
<1> QED
  BY <1>3, <1>8 DEF HooksInv

LEMMA SavePreviewKeeps ==
  ASSUME HooksInv, NEW r \in Runs, SavePreview(r), Alone(r)
  PROVE  HooksInv'
<1> DEFINE agent == run[r].case.agent
           text == run[r].text
<1>0. /\ agent \in Clients /\ Dir(r) = agent /\ text \in Text /\ From(text, agent)
      /\ Of(r, agent) /\ Must(r, "preview")
  BY OwnText DEF SavePreview, Must
<1>1. /\ cache' \in [Clients -> [prompt : Text \cup {None}, preview : Text \cup {None}]]
      /\ \A d \in Clients : /\ cache'[d].prompt = cache[d].prompt
                            /\ cache'[d].preview = IF d = agent THEN text ELSE cache[d].preview
  BY <1>0 DEF SavePreview, HooksInv, Shape
<1>2. ~Must(r, "preview")' /\ mixed' = mixed /\ clipboard' = clipboard
  BY SavePreviewStep DEF HooksInv, SavePreview
<1>3. Shape' /\ \A q \in Runs : RunInv(q)'
  BY <1>1, <1>2, AllKeep DEF HooksInv, Shape, Alone
<1>4. ASSUME NEW client \in Clients
      PROVE  /\ (cache[client].prompt # None => From(cache[client].prompt, client))'
             /\ (cache[client].preview # None => From(cache[client].preview, client))'
  BY <1>0, <1>1, FromStays DEF HooksInv, CacheInv
<1>5. (clipboard # None => \E client \in Clients : From(clipboard, client))'
  BY <1>2, FromStays DEF HooksInv, CacheInv
<1>6. ASSUME NEW q \in Runs, Must(q, "preview")'
      PROVE  (cache[Dir(q)].prompt = run[q].text \/ run[q].case.agent \in mixed)'
  <2>1. q # r /\ run'[q] = run[q] /\ Must(q, "preview")
    BY <1>2, <1>6 DEF Alone, Must
  <2>2. run[q].case.agent \in Clients /\ Dir(q) = run[q].case.agent
    BY <2>1, OwnText DEF Must
  <2> QED
    BY <1>1, <1>2, <2>1, <2>2 DEF HooksInv, CacheInv, Dir, cacheDir
<1>7. ASSUME NEW client \in Clients, cache'[client].prompt # cache'[client].preview,
             client \notin mixed'
      PROVE  (\E q \in Runs : Of(q, client) /\ (Must(q, "preview") \/ run[q].out = Lost))'
  <2>1. client # agent
    BY <1>0, <1>1, <1>2, <1>7 DEF HooksInv, CacheInv
  <2>2. PICK q \in Runs : Of(q, client) /\ (Must(q, "preview") \/ run[q].out = Lost)
    BY <1>1, <1>2, <1>7, <2>1 DEF HooksInv, CacheInv
  <2>3. run'[q] = run[q]
    BY <2>1, <2>2 DEF Alone, Of
  <2> QED
    BY <2>2, <2>3 DEF Of, Must
<1>8. CacheInv'
  BY <1>4, <1>5, <1>6, <1>7 DEF CacheInv
<1> QED
  BY <1>3, <1>8 DEF HooksInv

(* A save that fails after its first file, an output that is lost.          *)
LEMMA BreaksOff ==
  ASSUME HooksInv, NEW r \in Runs, Alone(r), UNCHANGED <<cache, clipboard>>,
         run[r].pc # "done", run[r].case # None, ~Must(r, "preview")',
         mixed' \subseteq Clients, mixed \subseteq mixed',
         run[r].case.agent \in mixed' \/ run'[r].out = Lost
  PROVE  HooksInv'
<1>1. Shape' /\ \A q \in Runs : RunInv(q)'
  BY AllKeep DEF HooksInv, Shape, Alone
<1>2. ASSUME NEW client \in Clients
      PROVE  /\ (cache[client].prompt # None => From(cache[client].prompt, client))'
             /\ (cache[client].preview # None => From(cache[client].preview, client))'
  BY FromStays DEF HooksInv, CacheInv
<1>3. (clipboard # None => \E client \in Clients : From(clipboard, client))'
  BY FromStays DEF HooksInv, CacheInv
<1>4. ASSUME NEW q \in Runs, Must(q, "preview")'
      PROVE  (cache[Dir(q)].prompt = run[q].text \/ run[q].case.agent \in mixed)'
  <2>1. q # r /\ run'[q] = run[q] /\ Must(q, "preview")
    BY <1>4 DEF Alone, Must
  <2> QED
    BY <2>1 DEF HooksInv, CacheInv, Dir, cacheDir
<1>5. ASSUME NEW client \in Clients, cache[client].prompt # cache[client].preview,
             client \notin mixed'
      PROVE  (\E q \in Runs : Of(q, client) /\ (Must(q, "preview") \/ run[q].out = Lost))'
  <2>1. PICK q \in Runs : Of(q, client) /\ (Must(q, "preview") \/ run[q].out = Lost)
    BY <1>5 DEF HooksInv, CacheInv
  <2>2. CASE q = r
    <3>1. run'[r].case = run[r].case
      BY DEF Alone, OwnStep
    <3> QED
      BY <1>5, <2>1, <2>2, <3>1 DEF Of
  <2>3. CASE q # r
    BY <2>1, <2>3 DEF Alone, Of, Must
  <2> QED
    BY <2>2, <2>3
<1>6. CacheInv'
  BY <1>2, <1>3, <1>4, <1>5 DEF CacheInv
<1> QED
  BY <1>1, <1>6 DEF HooksInv

-----------------------------------------------------------------------------
(* The invariant.                                                           *)
LEMMA InitHooks == Init => HooksInv
<1> SUFFICES ASSUME Init PROVE HooksInv
  OBVIOUS
<1>1. Shape
  BY HooksAssumption DEF Init, Shape, Idle, Process, cacheDir
<1>2. ASSUME NEW r \in Runs PROVE RunInv(r) /\ ~Must(r, "preview")
  <2>1. run[r] = Idle
    BY DEF Init
  <2>2. /\ Idle.pc = "idle" /\ Idle.case = None /\ Idle.out = None /\ Idle.todo = <<>>
        /\ Idle.wrote = {} /\ Idle.copy = None /\ Idle.text = None /\ Idle.cached = FALSE
    BY DEF Idle
  <2>3. Progress(r) /\ Must(r, "preview") = FALSE
    BY <2>1, <2>2 DEF Progress, Must
  <2>4. Written(r)
    BY <2>1, <2>2, <2>3, PlansOrdered DEF Written
  <2>5. Told(r) /\ Yields(r)
    BY <2>1, <2>2 DEF Told, Ran, Spoke, Yields, Of
  <2> QED
    BY <2>3, <2>4, <2>5 DEF RunInv
<1>3. CacheInv
  BY <1>2 DEF Init, CacheInv, cacheDir
<1> QED
  BY <1>1, <1>2, <1>3 DEF HooksInv

LEMMA StepKeeps ==
  ASSUME HooksInv, NEW r \in Runs, Step(r)
  PROVE  HooksInv'
<1>0. Shape /\ RunInv(r) /\ run = [q \in Runs |-> run[q]] /\ run[r] \in Process
  BY DEF HooksInv, Shape
<1> DEFINE Moves == /\ run' = [q \in Runs |-> run'[q]]
                    /\ \A q \in Runs \ {r} : run'[q] = run[q]
                    /\ UNCHANGED <<specs, userHook, knownHook>> /\ faults' \in 0..MaxFaults
<1>1. ASSUME NEW c \in Cases, PrepareCodex(r, c) \/ PrepareClaude(r, c) \/ PrepareWindsurf(r, c)
      PROVE  HooksInv'
  <2>1. /\ run[r].pc = "idle"
        /\ UNCHANGED <<specs, userHook, knownHook, cache, clipboard, mixed, faults>>
    BY <1>1 DEF PrepareCodex, PrepareClaude, PrepareWindsurf, Starts
  <2>2. PICK out : EndAtOnce(r, c, out) \/ Begin(r, c)
    BY <1>1 DEF PrepareCodex, PrepareClaude, PrepareWindsurf
  <2>3. run'[r].pc \in {"done", "configure"} /\ Moves
    <3>1. CASE EndAtOnce(r, c, out)
      BY <1>0, <2>1, <3>1 DEF EndAtOnce, Process, Shape
    <3>2. CASE Begin(r, c)
      BY <1>0, <2>1, <3>2 DEF Begin, Process, Shape
    <3> QED
      BY <2>2, <3>1, <3>2
  <2>4. Alone(r)
    BY <1>0, <1>1, <2>3, PrepareStep DEF Alone
  <2> QED
    BY <2>1, <2>3, <2>4, QuietStep DEF Must
<1>2. ASSUME Configure(r) \/ ResolveSpecs(r) \/ EnhanceFails(r)
      PROVE  HooksInv'
  <2>1. /\ run[r].pc \in {"configure", "specs", "enhance"}
        /\ UNCHANGED <<specs, userHook, knownHook, cache, clipboard, mixed, faults>>
    BY <1>2 DEF Configure, ResolveSpecs, EnhanceFails
  <2>2. run'[r].pc \in {"done", "specs", "enhance"} /\ Moves
    BY <1>0, <1>2, <2>1 DEF Configure, ResolveSpecs, EnhanceFails, Finish, Process, Shape
  <2>3. Alone(r)
    BY <1>0, <1>2, <2>2, ConfigureStep, ResolveStep, EnhanceFailsStep DEF Alone
  <2> QED
    BY <2>1, <2>2, <2>3, QuietStep DEF Must
<1>3. ASSUME HandleCodex(r) \/ HandleClaude(r) \/ HandleWindsurf(r)
      PROVE  HooksInv'
  <2>1. PICK todo \in {Save, Copying, Twice} : Enhanced(r, todo)
    BY <1>3 DEF HandleCodex, HandleClaude, HandleWindsurf, Copying, Twice
  <2>2. Head(todo) = "prompt"
    BY Lists
  <2>3. run'[r].todo = todo /\ Moves
    BY <1>0, <2>1 DEF Enhanced, Process, Shape
  <2>4. Alone(r)
    BY <1>0, <1>3, <2>3, HandleStep DEF Alone
  <2> QED
    BY <2>1, <2>2, <2>3, <2>4, QuietStep DEF Must, Enhanced
<1>4. ASSUME SavePrompt(r) PROVE HooksInv'
  <2>1. Moves
    BY <1>0, <1>4 DEF SavePrompt, Shape
  <2> QED
    BY <1>0, <1>4, <2>1, SavePromptStep, SavePromptKeeps DEF Alone
<1>5. ASSUME SavePreview(r) PROVE HooksInv'
  <2>1. Moves
    BY <1>0, <1>5 DEF SavePreview, Shape
  <2> QED
    BY <1>0, <1>5, <2>1, SavePreviewStep, SavePreviewKeeps DEF Alone
<1>6. ASSUME SaveFails(r) PROVE HooksInv'
  <2>1. Moves /\ UNCHANGED <<cache, clipboard>>
    BY <1>0, <1>6, HooksAssumption DEF SaveFails, Shape
  <2>2. Alone(r) /\ ~Must(r, "preview")'
    BY <1>0, <1>6, <2>1, SaveFailsStep DEF Alone
  <2>3. run[r].pc = "deliver"
    BY <1>6 DEF SaveFails, Must
  <2>4. CASE Must(r, "preview")
    <3>1. mixed' = mixed \cup {run[r].case.agent} /\ run[r].case # None
      BY <1>6, <2>3, <2>4, OwnText DEF SaveFails, Of
    <3> QED
      BY <2>1, <2>2, <2>3, <3>1, OwnText, BreaksOff DEF HooksInv, Shape
  <2>5. CASE ~Must(r, "preview")
    BY <1>6, <2>1, <2>2, <2>3, <2>5, QuietStep DEF SaveFails
  <2> QED
    BY <2>4, <2>5
<1>7. ASSUME Copy(r) PROVE HooksInv'
  <2>1. Moves /\ UNCHANGED <<cache, mixed>> /\ clipboard' \in {clipboard, run[r].text}
    BY <1>0, <1>7 DEF Copy, Shape
  <2>2. Alone(r) /\ ~Must(r, "preview")'
    BY <1>0, <1>7, <2>1, CopyStep DEF Alone
  <2> QED
    BY <1>7, <2>1, <2>2, QuietStep DEF Copy, Must
<1>8. ASSUME \/ emitCodexHookExecution(r) \/ emitClaudeHookOutput(r)
             \/ emitWindsurfHookOutput(r)
      PROVE  HooksInv'
  <2>1. PICK out : Emits(r, out)
    BY <1>8 DEF emitCodexHookExecution, emitClaudeHookOutput, emitWindsurfHookOutput
  <2>2. Moves /\ UNCHANGED <<cache, mixed, clipboard>> /\ run'[r].pc = "done"
    BY <1>0, <2>1 DEF Emits, Finish, Process, Shape
  <2>3. Alone(r)
    BY <1>0, <1>8, <2>2, EmitStep DEF Alone
  <2> QED
    BY <2>1, <2>2, <2>3, QuietStep DEF Emits, Must
<1>9. ASSUME LoseOutput(r) PROVE HooksInv'
  <2>1. Moves /\ UNCHANGED <<cache, mixed, clipboard>> /\ run'[r].pc = "done"
    <3>1. PICK out : Finish(r, out)
      BY <1>9 DEF LoseOutput
    <3>2. faults' \in 0..MaxFaults /\ UNCHANGED <<specs, userHook, knownHook>>
      BY <1>0, <1>9, HooksAssumption DEF LoseOutput, Shape
    <3> QED
      BY <1>0, <1>9, <3>1, <3>2 DEF LoseOutput, Finish, Process
  <2>2. Alone(r) /\ run'[r].out = Lost
    BY <1>0, <1>9, <2>1, LoseStep DEF Alone
  <2>3. run[r].case # None /\ run[r].pc # "done"
    BY <1>0, <1>9 DEF LoseOutput, RunInv, Progress
  <2> QED
    BY <1>0, <2>1, <2>2, <2>3, BreaksOff DEF Must, Shape
<1> QED
  BY <1>1, <1>2, <1>3, <1>4, <1>5, <1>6, <1>7, <1>8, <1>9 DEF Step

(* The user changes the configuration in the middle of the session.         *)
LEMMA ConfigKeeps ==
  ASSUME HooksInv, UserConfigChanges
  PROVE  HooksInv'
<1>1. /\ UNCHANGED <<specs, knownHook, run, cache, clipboard, mixed>>
      /\ userHook' \in BOOLEAN /\ userHook' # knownHook' /\ faults' \in 0..MaxFaults
  BY HooksAssumption DEF UserConfigChanges, HooksInv, Shape
<1>2. ASSUME NEW r \in Runs PROVE RunInv(r)'
  <2>1. Progress(r)' /\ Written(r)'
    BY <1>1 DEF HooksInv, RunInv, Progress, Written, Must
  <2>2. Told(r)'
    BY <1>1 DEF HooksInv, RunInv, Told, Spoke, Ran, Agrees
  <2>3. Yields(r)'
    BY <1>1 DEF HooksInv, RunInv, Yields, Of, Ran
  <2> QED
    BY <2>1, <2>2, <2>3 DEF RunInv
<1>3. CacheInv'
  BY <1>1 DEF HooksInv, CacheInv, From, Of, Must, Dir, cacheDir
<1> QED
  BY <1>1, <1>2, <1>3 DEF HooksInv, Shape

LEMMA Inductive == HooksInv /\ [Next]_vars => HooksInv'
<1> SUFFICES ASSUME HooksInv, [Next]_vars PROVE HooksInv'
  OBVIOUS
<1>1. CASE \E r \in Runs : Step(r)
  BY <1>1, StepKeeps
<1>2. CASE UserConfigChanges
  BY <1>2, ConfigKeeps
<1>3. CASE UNCHANGED vars
  <2>1. UNCHANGED <<specs, userHook, knownHook, run, cache, clipboard, mixed, faults>>
    BY <1>3 DEF vars
  <2> QED
    BY <2>1 DEF HooksInv, Shape, RunInv, Progress, Written, Must, Agrees, Told, Spoke, Ran,
                Yields, Of, CacheInv, From, Dir, cacheDir
<1> QED
  BY <1>1, <1>2, <1>3 DEF Next, Ended

-----------------------------------------------------------------------------
(* What the runs check.                                                     *)
LEMMA TextsBelong ==
  ASSUME HooksInv
  PROVE  \A t \in Texts :
           \E r \in Runs : run[r].case # None /\ t = AppendSpecs(r, run[r].case.names)
<1>1. ASSUME NEW t \in Texts
      PROVE  \E r \in Runs : run[r].case # None /\ t = AppendSpecs(r, run[r].case.names)
  <2>1. t # None /\ DOMAIN cache = Clients
    BY DEF Texts, HooksInv, Shape
  <2>2. CASE \E client \in Clients : t \in {cache[client].prompt, cache[client].preview}
    <3>1. \E client \in Clients : From(t, client)
      BY <2>1, <2>2 DEF HooksInv, CacheInv
    <3> QED
      BY <3>1 DEF From, Of
  <2>3. CASE t = clipboard
    BY <2>1, <2>3 DEF HooksInv, CacheInv, From, Of
  <2> DEFINE Cached == UNION {{cache[d].prompt, cache[d].preview} : d \in DOMAIN cache}
             Contexts == {run[r].out.context : r \in {q \in Runs : Spoke(q)}}
  <2>4. CASE t \in Contexts
    <3>1. PICK r \in Runs : Spoke(r) /\ t = run[r].out.context
      BY <2>4
    <3>2. run[r].text = t
      BY <2>1, <3>1 DEF HooksInv, RunInv, Told
    <3>3. run[r].case # None /\ t = AppendSpecs(r, run[r].case.names)
      BY <2>1, <3>1, <3>2 DEF HooksInv, RunInv, Progress, Spoke, Ran
    <3> QED
      BY <3>3
  <2>5. CASE t \in Cached
    BY <2>1, <2>2, <2>5
  <2>6. t \in {clipboard} \cup Cached \cup Contexts
    BY DEF Texts
  <2> HIDE DEF Cached, Contexts
  <2> QED
    BY <2>3, <2>4, <2>5, <2>6
<1> QED
  BY <1>1

LEMMA NamesOf ==
  ASSUME NEW r, NEW texts
  PROVE  AppendSpecs(r, texts).of = r /\ AppendSpecs(r, texts).specs = texts
BY DEF AppendSpecs

LEMMA Delivery == HooksInv => DeliveryInv
<1> SUFFICES ASSUME HooksInv PROVE DeliveryInv
  OBVIOUS
<1>1. TypeOK
  <2>1. ASSUME NEW r \in Runs
        PROVE  /\ run[r].pc \in {"idle", "configure", "specs", "enhance", "deliver", "done"}
               /\ (run[r].pc = "idle") = (run[r].case = None)
               /\ Ran(r) = (run[r].out # None)
               /\ run[r].wrote \subseteq {"prompt", "preview", "clipboard"}
    BY DEF HooksInv, Shape, Process, RunInv, Progress, Ran
  <2>2. \A t \in Texts : t.of \in Runs
    BY TextsBelong, NamesOf
  <2> QED
    BY <2>1, <2>2 DEF HooksInv, Shape, TypeOK
<1>2. SpecsNeverDropped
  BY TextsBelong, NamesOf DEF SpecsNeverDropped
<1>3. CachePairsBelong
  <2>1. ASSUME NEW client \in Clients
        PROVE  /\ runDeliveryLast(client, TRUE) = cache[client].prompt
               /\ runDeliveryLast(client, FALSE) = cache[client].preview
    BY DEF runDeliveryLast, cacheDir
  <2>2. ASSUME NEW client \in Clients,
               NEW t \in {cache[client].prompt, cache[client].preview} \ {None}
        PROVE  Of(t.of, client)
    <3>1. From(t, client)
      BY <2>2 DEF HooksInv, CacheInv
    <3> QED
      BY <3>1, NamesOf DEF From
  <2> QED
    BY <2>1, <2>2 DEF CachePairsBelong, HooksInv, CacheInv
<1> QED
  BY <1>1, <1>2, <1>3 DEF DeliveryInv

\* What a hook process delivers stays together, for any runs, cases and specs:
\* every text in the clipboard, in a cache or in the model's context carries the
\* specs its user named, in order (specs.go:52); every cache holds texts of its
\* own client, and its prompt and preview belong together unless two saves
\* overlapped or one broke off (delivery.go:72).
THEOREM DeliveryHolds == Spec => []DeliveryInv
<1>1. HooksInv /\ [Next]_vars => HooksInv'
  BY Inductive
<1> QED
  BY <1>1, InitHooks, Delivery, PTL DEF Spec

LEMMA Closed == HooksInv => FailClosed
BY DEF HooksInv, RunInv, Told, ProjectHook, FailClosed

\* A prompt the user marked never reaches the model as it is, whichever step
\* of whichever client fails, but for a project hook of Codex that leaves it to
\* the user's hook and for an output that is lost (codex_hook.go:264).
THEOREM FailClosedHolds == Spec => []FailClosed
<1>1. HooksInv /\ [Next]_vars => HooksInv'
  BY Inductive
<1> QED
  BY <1>1, InitHooks, Closed, PTL DEF Spec

LEMMA Truth == HooksInv => MessageIsTrue
BY DEF HooksInv, RunInv, Told, Agrees, MessageIsTrue

\* The message a run leaves says of the clipboard and the cache what the run
\* did: true of every sequence of saves and copies, also of those of which some
\* fail (delivery.go:128-186).
THEOREM MessageIsTrueHolds == Spec => []MessageIsTrue
<1>1. HooksInv /\ [Next]_vars => HooksInv'
  BY Inductive
<1> QED
  BY <1>1, InitHooks, Truth, PTL DEF Spec

LEMMA Bounded == HooksInv => CopyIsBounded
<1>1. \A result \in Results : result.t <= Budget + WaitDelay
  BY DEF Results
<1> QED
  BY <1>1 DEF HooksInv, Shape, Process, CopyIsBounded

\* However many clipboard helpers a machine has, and whichever hang or leave
\* children behind, copying ends within the budget and one wait (clipboard.go:21).
THEOREM CopyIsBoundedHolds == Spec => []CopyIsBounded
<1>1. HooksInv /\ [Next]_vars => HooksInv'
  BY Inductive
<1> QED
  BY <1>1, InitHooks, Bounded, PTL DEF Spec

LEMMA OneActs == HooksInv => OneCodexHookActs
<1> SUFFICES ASSUME HooksInv, userHook = knownHook, NEW q \in Runs, NEW r \in Runs,
                    q # r, Of(q, "codex"), Of(r, "codex"), Ran(q), Ran(r),
                    {run[q].case.scope, run[r].case.scope} = {"user", "project"}
             PROVE  /\ run[q].text = None \/ run[r].text = None
                    /\ Manual(run[q].case) /\ Manual(run[r].case)
                         => "bare" # Effect(run[q].out) \/ "bare" # Effect(run[r].out)
  BY DEF OneCodexHookActs
<1>1. ASSUME NEW u \in Runs, NEW p \in Runs, Of(u, "codex"), Of(p, "codex"), Ran(u),
             run[u].case.scope = "user", run[p].case.scope = "project"
      PROVE  /\ run[p].text = None
             /\ Manual(run[u].case) => Effect(run[u].out) # "bare"
  <2>1. knownHook
    BY <1>1 DEF HooksInv, RunInv, Yields
  <2>2. ProjectHook(run[p].case) /\ run[p].case # None /\ ~ProjectHook(run[u].case)
    BY <1>1 DEF ProjectHook, Of
  <2>3. run[p].text = None
    BY <2>1, <2>2 DEF HooksInv, RunInv, Yields
  <2> QED
    BY <1>1, <2>2, <2>3 DEF HooksInv, RunInv, Told
<1>2. \/ run[q].case.scope = "user" /\ run[r].case.scope = "project"
      \/ run[r].case.scope = "user" /\ run[q].case.scope = "project"
  BY DEF Of
<1> QED
  BY <1>1, <1>2

\* Of the user's hook and the project's hook of Codex one takes the prompt:
\* they never both enhance it, and a marked prompt never passes both untouched,
\* as long as the user's configuration is the one the session began with
\* (codex/install.go:100).
THEOREM OneCodexHookHolds == Spec => []OneCodexHookActs
<1>1. HooksInv /\ [Next]_vars => HooksInv'
  BY Inductive
<1> QED
  BY <1>1, InitHooks, OneActs, PTL DEF Spec
=============================================================================
