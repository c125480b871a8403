--------------------------- MODULE MCAgentHooks ---------------------------
\* AgentHooks with two processes.
EXTENDS AgentHooks

Case(agent, prompt, names) ==
  [agent |-> agent, prompt |-> prompt, names |-> names, auto |-> FALSE, copy |-> FALSE,
   inject |-> FALSE, blockOutput |-> "json", scope |-> "user", projectEnv |-> FALSE,
   cwd |-> TRUE, fallback |-> FALSE]
Project(c) == [c EXCEPT !.scope = "project"]

MCCases ==
  { Case("codex", "task", <<>>), Project(Case("codex", "task", <<"a", "b">>)),
    [Case("codex", "task", <<"b">>) EXCEPT !.copy = TRUE, !.blockOutput = "stderr"],
    [Case("codex", "plain", <<>>) EXCEPT !.auto = TRUE],
    Project([Case("codex", "plain", <<>>) EXCEPT !.auto = TRUE, !.cwd = FALSE]),
    [Case("codex", "task", <<>>) EXCEPT !.scope = "", !.projectEnv = TRUE, !.inject = TRUE],
    [Case("codex", "trigger", <<>>) EXCEPT !.scope = "", !.blockOutput = "stderr"],
    [Case("codex", "task", <<>>) EXCEPT !.cwd = FALSE, !.blockOutput = "stderr"],
    [Case("codex", "task", <<>>) EXCEPT !.blockOutput = "bogus", !.copy = TRUE],
    [Case("claude", "task", <<"a", "b">>) EXCEPT !.fallback = TRUE],
    [Case("claude", "task", <<"b", "a">>) EXCEPT !.inject = TRUE],
    [Case("claude", "task", <<>>) EXCEPT !.cwd = FALSE],
    Case("claude", "blank", <<>>), Case("claude", "trigger", <<>>),
    Case("windsurf", "task", <<"a">>), Case("windsurf", "plain", <<>>),
    [Case("windsurf", "task", <<>>) EXCEPT !.cwd = FALSE] }

MCMachines ==
  LET Machine(command, candidates, osc52) ==
        [command |-> command, candidates |-> candidates, osc52 |-> osc52]
  IN  { Machine(None, <<"missing", "forks">>, TRUE),
        Machine(None, <<"fails", "hangs", "copies">>, FALSE),
        Machine(None, <<"missing", "fails">>, TRUE),
        Machine("forks", <<>>, FALSE), Machine("hangs", <<"copies">>, TRUE) }
=============================================================================
