---------------------------- MODULE MCEnhancer ----------------------------
\* Enhancer on layouts of every style around their budgets, and on services
\* with retrieval, guard and warnings.
EXTENDS Enhancer

Text(han, latin, numbers, actions) ==
  [han |-> han, kana |-> 0, hangul |-> 0, latin |-> latin, other |-> 0,
   numbers |-> numbers, actions |-> actions]
English == Text(0, 9, {}, {})
MCTexts ==
  { English, Text(3, 1, {7}, {}), Text(0, 9, {3}, {"push"}), Text(2, 8, {}, {"push"}),
    [Text(0, 1, {}, {}) EXCEPT !.kana = 3] }

Turn(role, length) == [role |-> role, length |-> length, repeats |-> FALSE]
Repeats == [Turn("user", 2) EXCEPT !.repeats = TRUE]

Base ==
  [prompt |-> 2, target |-> 1, rules |-> 0, guidelines |-> 0, files |-> 0, retrieval |-> 0,
   history |-> <<>>, budget |-> 0, style |-> "flatten", provider |-> "openai",
   configured |-> TRUE, openace |-> FALSE, cwd |-> TRUE, found |-> 2, retries |-> 2,
   guard |-> FALSE, reanchor |-> FALSE, warnings |-> FALSE, text |-> English,
   numbers |-> {3}]

Histories ==
  { <<>>, << Turn("assistant", 2) >>, << Turn("user", 3), Turn("assistant", 5) >>,
    << Turn("user", 1), Turn("system", 2), Turn("assistant", 1), Repeats >>,
    << Turn("assistant", 0), Turn("user", 2), Turn("user", 1) >> }
Contexts ==
  { [rules |-> 0, guidelines |-> 0, files |-> 0, retrieval |-> 0],
    [rules |-> 2, guidelines |-> 0, files |-> 0, retrieval |-> 0],
    [rules |-> 1, guidelines |-> 2, files |-> 0, retrieval |-> 3],
    [rules |-> 0, guidelines |-> 0, files |-> 4, retrieval |-> 0] }

Layouts ==
  { [Base EXCEPT !.style = s, !.budget = b, !.history = h, !.rules = c.rules,
       !.guidelines = c.guidelines, !.files = c.files, !.retrieval = c.retrieval,
       !.provider = p] :
      s \in Styles, b \in {0, 1, 2, 3, 4, 5, 9, 17}, h \in Histories, c \in Contexts,
      p \in {"openai", "anthropic"} }

Services ==
  { [Base EXCEPT !.openace = o, !.guard = g, !.reanchor = r, !.warnings = w, !.text = t,
       !.style = "structured", !.budget = b, !.rules = 1] :
      o \in BOOLEAN, g \in BOOLEAN, r \in BOOLEAN, w \in BOOLEAN, t \in MCTexts, b \in {0, 4} }

MCCases ==
  Layouts \cup Services \cup
  { [Base EXCEPT !.configured = FALSE], [Base EXCEPT !.prompt = 0], [Base EXCEPT !.budget = -1],
    [Base EXCEPT !.openace = TRUE, !.cwd = FALSE], [Base EXCEPT !.openace = TRUE, !.retries = 0] }
=============================================================================
