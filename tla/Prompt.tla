------------------------------ MODULE Prompt ------------------------------
(***************************************************************************)
(* How the enhancer lays out a request for a provider: the sections of a   *)
(* prompt, the budget they share, the three message styles and the form    *)
(* Anthropic wants.  A text is its length in characters; a message keeps   *)
(* the names of the sections in it.                                        *)
(***************************************************************************)
EXTENDS Integers, Sequences, FiniteSets, SequencesExt

CONSTANTS
  MaxInt,           \* the largest int
  CharsPerToken,
  SystemLength,     \* of the system prompt
  FramingLength,    \* of hybridFraming and zoneFraming
  HeaderLength,     \* of referenceBlockHeader
  MaxTurn           \* maxHybridTurnChars

ASSUME PromptAssumption ==
  /\ {MaxInt, CharsPerToken, SystemLength, FramingLength, HeaderLength, MaxTurn} \subseteq Nat \ {0}

Styles == {"flatten", "hybrid", "structured"}
NoLimit == -1
Total(lengths) ==
  LET upTo[n \in 0..Len(lengths)] == IF n = 0 THEN 0 ELSE upTo[n - 1] + lengths[n]
  IN  upTo[Len(lengths)]
\* The elements of list at the given positions, in their order.
Chosen(list, at) ==
  LET upTo[n \in 0..Len(list)] ==
        IF n = 0 THEN <<>> ELSE IF n \in at THEN Append(upTo[n - 1], list[n]) ELSE upTo[n - 1]
  IN  upTo[Len(list)]
AtLeast(low, n) == IF n < low THEN low ELSE n
AtMost(high, n) == IF n > high THEN high ELSE n

-----------------------------------------------------------------------------
\* Broken: the product wraps around.
CharLimitWraps(tokens) ==
  LET width == 2 * (MaxInt + 1)
  IN  IF tokens <= 0 THEN NoLimit
      ELSE ((tokens * CharsPerToken + MaxInt + 1) % width) - (MaxInt + 1)

\* charLimitFor: no budget is no limit, a huge one is the largest int.
CharLimit(tokens) ==
  IF tokens <= 0 THEN NoLimit
  ELSE IF tokens > MaxInt \div CharsPerToken THEN MaxInt
  ELSE tokens * CharsPerToken

\* remainingChars: never below zero, which means "drop what is optional".
Remaining(limit, spent) == IF limit < 0 THEN NoLimit ELSE AtLeast(0, limit - spent)

\* A section that is empty is left out: it adds nothing to a text.
Section(name, length, required) == [name |-> name, length |-> length, required |-> required]
Lengths(list) == [n \in DOMAIN list |-> list[n].length]

\* formatHistory: a heading, and a role before every message that is not blank.
FormatHistory(history) ==
  LET lines == Total([n \in DOMAIN history |->
                        IF history[n].length > 0 THEN 1 + history[n].length ELSE 0])
  IN  IF lines = 0 THEN 0 ELSE 1 + lines

\* taskSections: the prompt, client, mode, workspace and contract, and the last
\* instruction.
Task(q) ==
  << Section("original_prompt", q.prompt, TRUE), Section("enhancement_contract", q.target, TRUE) >>
Instruction == << Section("final_instruction", 1, TRUE) >>

\* referenceSections, with the history between them where it is text.
Reference(q, history) ==
  << Section("rules", q.rules, FALSE), Section("guidelines", q.guidelines, FALSE),
     Section("history", history, FALSE), Section("context.files", q.files, FALSE),
     Section("context.retrieval", q.retrieval, FALSE) >>

PromptSections(q, includeHistory) ==
  Task(q) \o Reference(q, IF includeHistory THEN FormatHistory(q.history) ELSE 0)
    \o Instruction

\* assemblePrompt: required sections are kept whole; what they leave goes to the
\* optional ones in their order, the first that does not fit is cut and those
\* after it are dropped.
Assemble(sections, limit) ==
  LET required == {k \in DOMAIN sections : sections[k].required}
      taken(at) == Total([k \in DOMAIN sections |-> IF k \in at THEN sections[k].length ELSE 0])
      room(k) == limit - taken(required \cup 1..(k - 1))
      kept == [k \in DOMAIN sections |->
                 IF limit < 0 \/ k \in required THEN sections[k].length
                 ELSE AtLeast(0, AtMost(sections[k].length, room(k)))]
  IN  [length |-> Total(kept),
       parts |-> {sections[k].name : k \in {j \in DOMAIN sections : kept[j] > 0}},
       warnings |-> IF kept # Lengths(sections) THEN {"context"} ELSE {}]

\* usedContexts: the optional sections of which anything is left.
UsedContexts(parts) ==
  parts \ {"original_prompt", "enhancement_contract", "final_instruction"}

-----------------------------------------------------------------------------
Message(role, length, parts) == [role |-> role, length |-> length, parts |-> parts]

\* hybridHistoryTurns: turns of the user and the assistant with content, each
\* cut to MaxTurn; a last one that repeats the prompt goes.
HistoryTurns(q) ==
  LET said == Chosen(q.history, {n \in DOMAIN q.history :
                       q.history[n].length > 0 /\ q.history[n].role \in {"user", "assistant"}})
      turns == [n \in DOMAIN said |->
                  Message(said[n].role, AtMost(MaxTurn, said[n].length), {"history"})]
  IN  IF said # <<>> /\ Last(said).role = "user" /\ Last(said).repeats
           /\ Last(said).length <= MaxTurn
      THEN Front(turns) ELSE turns

\* trimTurnsToChars drops the oldest turns until the others fit.
TrimTurns(turns, limit) ==
  LET fitting == {k \in 0..Len(turns) :
                    Total(Lengths(SubSeq(turns, k + 1, Len(turns)))) <= limit}
  IN  IF limit < 0 THEN turns
      ELSE LET dropped == CHOOSE k \in fitting : \A j \in fitting : k <= j
           IN  SubSeq(turns, dropped + 1, Len(turns))

Layout(system, messages, used, warnings) ==
  [system |-> system, messages |-> messages, used |-> used, warnings |-> warnings]
Size(layout) == layout.system + Total(Lengths(layout.messages))

\* Broken: history is reported before it is trimmed.
HistoryUsedAnyway(turns, kept) == IF turns = <<>> THEN {} ELSE {"history"}
HistoryUsed(turns, kept) == IF kept = <<>> THEN {} ELSE {"history"}

HistoryCut(turns, kept) == IF kept = turns THEN {} ELSE {"history"}

\* StyleFlatten: one user message with the history as text.
Flatten(q, limit) ==
  LET user == Assemble(PromptSections(q, TRUE), Remaining(limit, SystemLength))
  IN  Layout(SystemLength, << Message("user", user.length, user.parts) >>,
             UsedContexts(user.parts), user.warnings)

\* StyleHybrid: the history as turns before the task, in what the task leaves.
Hybrid(q, limit) ==
  LET system == SystemLength + FramingLength
      room == Remaining(limit, system)
      task == Assemble(PromptSections(q, FALSE), room)
      turns == HistoryTurns(q)
      kept == TrimTurns(turns, Remaining(room, task.length))
  IN  Layout(system, Append(kept, Message("user", task.length, task.parts)),
             UsedContexts(task.parts) \cup HistoryUsed(turns, kept),
             task.warnings \cup HistoryCut(turns, kept))

\* buildStructuredPrompt: the reference block is what the task leaves of the
\* budget after its header; a block of one character is only a line break.
ReferenceBlock(q, task, room) ==
  LET body == Assemble(Reference(q, 0), Remaining(room, task.length + HeaderLength))
  IN  [blank |-> body.length <= 1, length |-> HeaderLength + body.length,
       parts |-> body.parts, warnings |-> body.warnings]

\* StyleStructured: the reference block, the turns, the task alone.
Structured(q, limit) ==
  LET system == SystemLength + FramingLength
      room == Remaining(limit, system)
      task == Assemble(Task(q) \o Instruction, room)
      block == ReferenceBlock(q, task, room)
      shown == IF block.blank THEN <<>> ELSE << Message("user", block.length, block.parts) >>
      turns == HistoryTurns(q)
      kept == TrimTurns(turns, Remaining(room, task.length + Total(Lengths(shown))))
  IN  Layout(system, shown \o kept \o << Message("user", task.length, task.parts) >>,
             (IF block.blank THEN {} ELSE block.parts) \cup HistoryUsed(turns, kept),
             task.warnings \cup block.warnings \cup HistoryCut(turns, kept))

LayoutOf(q, style, limit) ==
  CASE style = "flatten" -> Flatten(q, limit)
    [] style = "hybrid" -> Hybrid(q, limit)
    [] style = "structured" -> Structured(q, limit)

-----------------------------------------------------------------------------
\* openai.Complete sends the messages as they are.
OpenAIMessages(messages) == messages

\* Broken: turns of one role in a row stay apart.
AnthropicUnmerged(messages) == messages

\* toAnthropicMessages: leading turns of the assistant go, turns of one role in
\* a row become one, with a blank line between them.
AnthropicMessages(messages) ==
  LET first == CHOOSE n \in DOMAIN messages :
                 /\ messages[n].role = "user"
                 /\ \A k \in 1..(n - 1) : messages[k].role # "user"
      rest == SubSeq(messages, first, Len(messages))
      Merge(merged, m) ==
        IF merged # <<>> /\ Last(merged).role = m.role
        THEN Append(Front(merged), Message(m.role, Last(merged).length + 2 + m.length,
                                           Last(merged).parts \cup m.parts))
        ELSE Append(merged, m)
      upTo[n \in 0..Len(rest)] == IF n = 0 THEN <<>> ELSE Merge(upTo[n - 1], rest[n])
  IN  upTo[Len(rest)]

Wire(provider, messages) ==
  IF provider = "anthropic" THEN AnthropicMessages(messages) ELSE OpenAIMessages(messages)
=============================================================================
