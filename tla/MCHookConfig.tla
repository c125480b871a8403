--------------------------- MODULE MCHookConfig ---------------------------
\* HookConfig with two commands.  Devin's user file has an alias, so two
\* commands may reach one file by different names; `loop` is a link to itself.
EXTENDS HookConfig

Option(agent, scope, path, timeout) ==
  [agent |-> agent, scope |-> scope, path |-> path, env |-> None,
   timeout |-> timeout, dryRun |-> FALSE]

MCOptions ==
  { Option("devin", "user", None, 4), Option("codex", "project", "alias", 300),
    Option("windsurf", "project", "codexProject", 6), Option("devin", "user", "loop", 120),
    Option("codex", "machine", None, 120),
    [Option("claude", "user", "alias", 6) EXCEPT !.dryRun = TRUE] }

MCPaths == {"devinUser", "codexProject", "alias", "loop"}
MCLinks == [p \in {"alias", "loop"} |-> IF p = "alias" THEN "devinUser" ELSE "loop"]

Other(tool, group) == [tool |-> tool, group |-> group]
Old(group) == [tool |-> "devin", group |-> group, scope |-> "user", env |-> "homeEnv",
               timeout |-> 30000, deadline |-> 25000]

File(form, misfit, hooks) == [form |-> form, misfit |-> misfit, hooks |-> hooks]

\* Three copies of openPE's hook, one alone in its group, among the hooks of two
\* other tools; entries outside the groups; values of another kind.
MCLayouts ==
  { File("handmade", None,
         << Other("linter", "first"), Old("first"), Old("second"), Old("third"),
            Other("tracer", "third") >>),
    File("canonical", None,
         << Other("linter", "empty"), Old("first"), Other("tracer", "raw"),
            Other("linter", "flat") >>),
    File("wide", "list", << Other("linter", "flat") >>),
    File("canonical", "hooks", <<>>) }
=============================================================================
