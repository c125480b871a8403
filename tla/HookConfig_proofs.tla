------------------------- MODULE HookConfig_proofs -------------------------
(***************************************************************************)
(* HookConfig for any commands, options, links, layouts and hosts.  The    *)
(* merge is the pure part: it keeps the entries of other tools but for     *)
(* empty groups, leaves one hook of its own, and none that the host would  *)
(* outrun unless its timeout overflows a duration (MergeKeeps).  Around it *)
(* goes the protocol: a command that works on a file holds its lock        *)
(* (LockInv), its merge is of what it read, and every attempt it has lost  *)
(* somebody else has spoiled (RunInv).  What a file owes to its host and   *)
(* to the last install follows (FileInv).                                  *)
(***************************************************************************)
EXTENDS HookConfig, WellFoundedInduction, SequenceTheorems, TLAPS

Entries == Foreign \cup Own \cup {None}

(* Every set of naturals that is not empty has a least member.              *)
LEMMA LeastNumber ==
  ASSUME NEW T \in SUBSET Nat, T # {}
  PROVE  \E n \in T : \A m \in T : n <= m
<1>1. PICK n \in T : \A m \in T : <<m, n>> \notin OpToRel(<, Nat)
  BY NatLessThanWellFounded, WFMin
<1>2. \A m \in T : ~(m < n)
  BY <1>1 DEF OpToRel
<1> QED
  BY <1>2

-----------------------------------------------------------------------------
(* The merge.                                                               *)

\* A hook as an install writes it, but for its group.
Like(hook, new) == \E g \in Groups : hook = [new EXCEPT !.group = g]

LEMMA LikeNew ==
  ASSUME NEW new \in Own, NEW hook, Like(hook, new)
  PROVE  /\ hook \in Own /\ hook # None /\ hook.tool = new.tool
         /\ hook.deadline = new.deadline /\ hook.timeout = new.timeout
         /\ [hook EXCEPT !.group = new.group] = new
<1>1. PICK g \in Groups : hook = [new EXCEPT !.group = g]
  BY DEF Like
<1>2. hook \in Own
  BY <1>1 DEF Own
<1>3. /\ hook.tool = new.tool /\ hook.scope = new.scope /\ hook.env = new.env
      /\ hook.timeout = new.timeout /\ hook.deadline = new.deadline
  BY <1>1 DEF Own
<1>4. [hook EXCEPT !.group = new.group] = new
  BY <1>2, <1>3 DEF Own
<1> QED
  BY <1>2, <1>3, <1>4, NoneAssumption

\* A deadline that comes before the host's, unless the timeout is too large.
InTime(hook) == Timely(hook) \/ Overflown(hook)

\* What a list of hooks holds of others, and where it is in time.
OfOther(hook) == hook # None /\ hook.tool \notin Agents /\ hook.group \notin {"empty"}
OthersIn(hooks) == {<<n, hooks[n]>> : n \in {m \in DOMAIN hooks : OfOther(hooks[m])}}
AllInTimeIn(hooks) == \A n \in Places(hooks, Agents) : InTime(hooks[n])

\* hooks is now old with new as its only hook of that tool.
Merged(hooks, old, new) ==
  /\ hooks \in Seq(Entries) /\ OthersIn(hooks) = OthersIn(old)
  /\ AllInTimeIn(old) /\ InTime(new) => AllInTimeIn(hooks)
  /\ \E n : Places(hooks, {new.tool}) = {n} /\ Like(hooks[n], new)

LEMMA InTimeOfNew ==
  ASSUME NEW new \in Own, InTime(new), NEW hook, Like(hook, new)
  PROVE  InTime(hook)
BY LikeNew DEF InTime, Timely, Overflown

LEMMA MergeAdds ==
  ASSUME NEW hooks \in Seq(Entries), NEW new \in Own, InPlace(new),
         Places(hooks, {new.tool}) = {}
  PROVE  Merged(Append(hooks, new), hooks, new)
<1>1. PICK list, k : /\ list = Append(hooks, new) /\ k = Len(hooks) + 1 /\ k \in Nat
                     /\ list \in Seq(Entries) /\ list[k] = new
                     /\ DOMAIN list = 1..k /\ DOMAIN hooks = 1..(k - 1)
                     /\ \A n \in 1..(k - 1) : list[n] = hooks[n]
  <2>1. new \in Entries
    BY DEF Entries
  <2>2. PICK list : list = Append(hooks, new)
    OBVIOUS
  <2>3. list \in Seq(Entries) /\ Len(list) = Len(hooks) + 1
    BY <2>1, <2>2, AppendProperties
  <2>4. list[Len(hooks) + 1] = new /\ \A n \in 1..Len(hooks) : list[n] = hooks[n]
    BY <2>1, <2>2, AppendProperties
  <2>5. Len(hooks) \in Nat /\ DOMAIN hooks = 1..Len(hooks) /\ DOMAIN list = 1..Len(list)
    BY <2>3, LenProperties
  <2> QED
    BY <2>2, <2>3, <2>4, <2>5
<1>2. /\ \A n \in DOMAIN list : n \in DOMAIN hooks \/ n = k
      /\ \A n \in DOMAIN hooks : n \in DOMAIN list /\ list[n] = hooks[n]
      /\ k \in DOMAIN list /\ k \notin DOMAIN hooks
  BY <1>1
<1>3. new # None /\ new.tool \in Agents
  BY NoneAssumption DEF Own
<1>4. OthersIn(list) = OthersIn(hooks)
  <2>1. \A n \in DOMAIN list : OfOther(list[n]) <=> n \in DOMAIN hooks /\ OfOther(hooks[n])
    BY <1>1, <1>2, <1>3 DEF OfOther
  <2>2. {m \in DOMAIN list : OfOther(list[m])} = {m \in DOMAIN hooks : OfOther(hooks[m])}
    BY <1>2, <2>1
  <2> QED
    BY <1>2, <2>2 DEF OthersIn
<1>5. ASSUME AllInTimeIn(hooks), InTime(new) PROVE AllInTimeIn(list)
  BY <1>1, <1>2, <1>5 DEF AllInTimeIn, Places
<1>6. Places(list, {new.tool}) = {k} /\ Like(list[k], new)
  <2>1. Places(list, {new.tool}) = {k}
    BY <1>1, <1>2, <1>3 DEF Places
  <2>2. new.group \in Groups /\ [new EXCEPT !.group = new.group] = new
    BY DEF Own
  <2> QED
    BY <1>1, <2>1, <2>2 DEF Like
<1> QED
  BY <1>1, <1>4, <1>5, <1>6 DEF Merged

LEMMA MergeReplaces ==
  ASSUME NEW hooks \in Seq(Entries), NEW new \in Own, NEW own,
         own = Places(hooks, {new.tool}), own # {}
  PROVE  Merged([n \in DOMAIN hooks |->
                   IF n \notin own THEN hooks[n]
                   ELSE IF \A m \in own : n <= m THEN [new EXCEPT !.group = hooks[n].group]
                   ELSE None], hooks, new)
<1>1. PICK k \in own : \A m \in own : k <= m
  <2>1. own \subseteq Nat
    BY DEF Places
  <2> QED
    BY <2>1, LeastNumber
<1>2. own \subseteq DOMAIN hooks /\ own \subseteq Nat /\ k \in DOMAIN hooks
  BY <1>1 DEF Places
<1>3. ASSUME NEW n \in own PROVE (\A m \in own : n <= m) <=> n = k
  <2>1. n \in Nat /\ k \in Nat /\ k <= n
    BY <1>1, <1>2
  <2>2. ASSUME \A m \in own : n <= m PROVE n = k
    <3>1. n <= k
      BY <2>2
    <3> QED
      BY <2>1, <3>1
  <2> QED
    BY <1>1, <2>2
<1>4. PICK mine : mine = [new EXCEPT !.group = hooks[k].group] /\ Like(mine, new)
  <2>1. hooks[k] \in Foreign \cup Own
    BY <1>1, <1>2, ElementOfSeq DEF Entries, Places
  <2>2. hooks[k].group \in Groups
    BY <2>1 DEF Own, Groups
  <2> QED
    BY <2>2 DEF Like
<1>5. mine \in Own /\ mine # None /\ mine.tool = new.tool /\ mine.tool \in Agents
      /\ InPlace(mine)
  <2>1. InPlace(hooks[k]) /\ hooks[k].tool = new.tool
    BY <1>1 DEF Places
  <2>2. mine.group = hooks[k].group /\ mine.tool = new.tool
    BY <1>4 DEF Own
  <2>3. InPlace(mine)
    BY <2>1, <2>2 DEF InPlace
  <2> QED
    BY <1>4, <2>3, LikeNew DEF Own
<1>6. PICK list : list = [n \in DOMAIN hooks |->
                            IF n \notin own THEN hooks[n] ELSE IF n = k THEN mine ELSE None]
  OBVIOUS
<1>7. /\ DOMAIN list = DOMAIN hooks /\ list[k] = mine
      /\ \A n \in DOMAIN hooks \ own : list[n] = hooks[n]
      /\ \A n \in own : n # k => list[n] = None
  BY <1>1, <1>2, <1>6
<1>8. list \in Seq(Entries)
  <2>1. \A n \in DOMAIN hooks : list[n] \in Entries
    <3>1. ASSUME NEW n \in DOMAIN hooks PROVE hooks[n] \in Entries
      BY LenProperties
    <3>2. mine \in Entries /\ None \in Entries
      BY <1>5 DEF Entries
    <3> QED
      BY <1>6, <3>1, <3>2
  <2>2. list \in [1..Len(hooks) -> Entries] /\ Len(hooks) \in Nat
    BY <1>6, <2>1, LenProperties
  <2> QED
    BY <2>2, IsASeq
<1>9. OthersIn(list) = OthersIn(hooks)
  <2>1. \A n \in own : hooks[n].tool \in Agents
    BY DEF Places, Own
  <2>2. \A n \in DOMAIN hooks : OfOther(list[n]) <=> OfOther(hooks[n])
    BY <1>5, <1>7, <2>1 DEF OfOther
  <2>3. \A n \in DOMAIN hooks : OfOther(hooks[n]) => list[n] = hooks[n]
    BY <1>7, <2>1 DEF OfOther
  <2> DEFINE at == {m \in DOMAIN hooks : OfOther(hooks[m])}
  <2>4. {m \in DOMAIN list : OfOther(list[m])} = at
    BY <1>7, <2>2
  <2>5. \A n \in at : list[n] = hooks[n]
    BY <2>3
  <2>6. OthersIn(list) = {<<n, list[n]>> : n \in at} /\ OthersIn(hooks) = {<<n, hooks[n]>> : n \in at}
    BY <2>4 DEF OthersIn
  <2> HIDE DEF at
  <2> QED
    BY <2>5, <2>6
<1>10. ASSUME AllInTimeIn(hooks), InTime(new) PROVE AllInTimeIn(list)
  <2>1. InTime(mine)
    BY <1>4, <1>10, InTimeOfNew
  <2> QED
    BY <1>7, <1>10, <2>1 DEF AllInTimeIn, Places
<1>11. Places(list, {new.tool}) = {k} /\ Like(list[k], new)
  <2>1. \A n \in DOMAIN hooks : n \notin own =>
          ~(hooks[n] # None /\ hooks[n].tool \in {new.tool} /\ InPlace(hooks[n]))
    BY DEF Places
  <2>2. \A n \in DOMAIN list :
          list[n] # None /\ list[n].tool \in {new.tool} /\ InPlace(list[n]) <=> n = k
    BY <1>2, <1>5, <1>7, <2>1
  <2> QED
    BY <1>2, <1>4, <1>7, <2>2 DEF Places
<1>12. list = [n \in DOMAIN hooks |->
                 IF n \notin own THEN hooks[n]
                 ELSE IF \A m \in own : n <= m THEN [new EXCEPT !.group = hooks[n].group]
                 ELSE None]
  BY <1>3, <1>4, <1>6
<1> QED
  BY <1>8, <1>9, <1>10, <1>11, <1>12 DEF Merged

LEMMA UpsertMerges ==
  ASSUME NEW hooks \in Seq(Entries), NEW new \in Own, InPlace(new)
  PROVE  Merged(Upsert(hooks, new), hooks, new)
BY MergeAdds, MergeReplaces DEF Upsert

(* The groups that go because they are empty take no hook with them that    *)
(* was in place.                                                            *)
LEMMA WithoutEmptyKeeps ==
  ASSUME NEW hooks, NEW old, NEW new, Merged(hooks, old, new)
  PROVE  Merged(WithoutEmpty(hooks), old, new)
<1>1. PICK list : list = WithoutEmpty(hooks)
  OBVIOUS
<1>2. hooks \in Seq(Entries) /\ DOMAIN list = DOMAIN hooks
  BY <1>1 DEF Merged, WithoutEmpty
<1>3. \A n \in DOMAIN hooks :
        list[n] = IF hooks[n] # None /\ hooks[n].group = "empty" THEN None ELSE hooks[n]
  BY <1>1 DEF WithoutEmpty
<1>4. list \in Seq(Entries)
  <2>1. ASSUME NEW n \in DOMAIN hooks PROVE list[n] \in Entries
    <3>1. hooks[n] \in Entries
      BY <1>2, LenProperties
    <3> QED
      BY <1>3, <3>1 DEF Entries
  <2>2. list = [n \in DOMAIN hooks |-> list[n]]
    BY <1>1 DEF WithoutEmpty
  <2>3. list \in [1..Len(hooks) -> Entries] /\ Len(hooks) \in Nat
    BY <1>2, <2>1, <2>2, LenProperties
  <2> QED
    BY <2>3, IsASeq
<1>5. OthersIn(list) = OthersIn(hooks)
  <2>1. \A n \in DOMAIN hooks : OfOther(list[n]) <=> OfOther(hooks[n])
    BY <1>3 DEF OfOther
  <2>2. \A n \in DOMAIN hooks : OfOther(hooks[n]) => list[n] = hooks[n]
    BY <1>3 DEF OfOther
  <2> DEFINE at == {m \in DOMAIN hooks : OfOther(hooks[m])}
  <2>3. {m \in DOMAIN list : OfOther(list[m])} = at
    BY <1>2, <2>1
  <2>4. \A n \in at : list[n] = hooks[n]
    BY <2>2
  <2>5. OthersIn(list) = {<<n, list[n]>> : n \in at} /\ OthersIn(hooks) = {<<n, hooks[n]>> : n \in at}
    BY <2>3 DEF OthersIn
  <2> HIDE DEF at
  <2> QED
    BY <2>4, <2>5
<1>6. ASSUME NEW tools
      PROVE  /\ Places(list, tools) = Places(hooks, tools)
             /\ \A n \in Places(hooks, tools) : list[n] = hooks[n]
  <2>1. ASSUME NEW n \in DOMAIN hooks, hooks[n] # None, InPlace(hooks[n])
        PROVE  list[n] = hooks[n]
    BY <1>3, <2>1 DEF InPlace
  <2>2. ASSUME NEW n \in DOMAIN hooks, list[n] # None PROVE list[n] = hooks[n]
    BY <1>3, <2>2
  <2> QED
    BY <1>2, <2>1, <2>2 DEF Places
<1>7. AllInTimeIn(hooks) => AllInTimeIn(list)
  BY <1>6 DEF AllInTimeIn
<1>8. \E n : Places(list, {new.tool}) = {n} /\ Like(list[n], new)
  <2>1. PICK n : Places(hooks, {new.tool}) = {n} /\ Like(hooks[n], new)
    BY DEF Merged
  <2> QED
    BY <1>6, <2>1
<1> QED
  BY <1>1, <1>4, <1>5, <1>7, <1>8 DEF Merged

\* new is the only hook of its tool in content, in whatever group.
Stands(content, new) ==
  \E n \in Ours(content, {new.tool}) :
    /\ Ours(content, {new.tool}) = {n}
    /\ [content.hooks[n] EXCEPT !.group = new.group] = new

AllInTime(content) == \A n \in Ours(content, Agents) : InTime(content.hooks[n])

\* What an install writes for content, whichever the kind of file.
Kept(merged, content, new) ==
  /\ merged \in Config /\ OfHost(merged) = OfHost(content)
  /\ AllInTime(content) /\ InTime(new) => AllInTime(merged)
  /\ Stands(merged, new)

LEMMA OfConfig ==
  ASSUME NEW content \in Config
  PROVE  /\ content \notin {Missing, Broken} /\ content.hooks \in Seq(Entries)
         /\ OfHost(content) = [rest |-> content.rest, hooks |-> OthersIn(content.hooks)]
         /\ \A tools : Ours(content, tools) = Places(content.hooks, tools)
<1>1. content \notin {Missing, Broken}
  BY NoneAssumption
<1>2. content.hooks \in Seq(Entries)
  BY DEF Config, Entries
<1>3. OfHost(content) = [rest |-> content.rest, hooks |-> OthersIn(content.hooks)]
  BY <1>1 DEF OfHost, OthersIn, OfOther
<1> QED
  BY <1>1, <1>2, <1>3 DEF Ours

(* What the file is when there is something to parse.                       *)
LEMMA ParsedIs ==
  ASSUME NEW content \in Contents, content # Broken
  PROVE  /\ Parsed(content) \in Config /\ OfHost(Parsed(content)) = OfHost(content)
         /\ AllInTime(content) => AllInTime(Parsed(content))
<1>1. CASE content = Missing
  <2>1. PICK empty \in Seq(Foreign \cup Own \cup {None}) : empty = <<>>
    BY EmptySeq
  <2>2. PICK parsed : parsed = [rest |-> None, form |-> "canonical", misfit |-> None, hooks |-> empty]
    OBVIOUS
  <2>3. Parsed(content) = parsed
    BY <1>1, <2>1, <2>2 DEF Parsed
  <2>4. parsed \in Config /\ parsed.rest = None /\ parsed.hooks = <<>>
    BY <2>1, <2>2 DEF Config, Forms, Misfits
  <2>5. OthersIn(<<>>) = {} /\ Places(<<>>, Agents) = {}
    BY DEF OthersIn, Places
  <2>6. OfHost(parsed) = [rest |-> None, hooks |-> {}] /\ Ours(parsed, Agents) = {}
    BY <2>4, <2>5, OfConfig
  <2>7. OfHost(content) = [rest |-> None, hooks |-> {}]
    BY <1>1, NoneAssumption DEF OfHost
  <2> QED
    BY <2>3, <2>4, <2>6, <2>7 DEF AllInTime
<1>2. CASE content # Missing
  BY <1>2 DEF Parsed, Contents
<1> QED
  BY <1>1, <1>2

(* A file with a merged list is an installed file.                          *)
LEMMA ListKeeps ==
  ASSUME NEW content \in Contents, content # Broken, NEW new \in Own, NEW group \in Groups,
         NEW mine, mine = [new EXCEPT !.group = group],
         NEW parsed \in Config, parsed = Parsed(content),
         NEW hooks, Merged(hooks, parsed.hooks, mine),
         NEW misfit \in Misfits, NEW form \in Forms
  PROVE  Kept([parsed EXCEPT !.hooks = hooks, !.misfit = misfit, !.form = form], content, new)
<1>1. PICK merged : merged = [parsed EXCEPT !.hooks = hooks, !.misfit = misfit, !.form = form]
  OBVIOUS
<1>2. merged \in Config /\ merged.hooks = hooks /\ merged.rest = parsed.rest
  BY <1>1 DEF Merged, Config, Entries
<1>3. Like(mine, new) /\ mine \in Own /\ mine.tool = new.tool
  <2>1. Like(mine, new)
    BY DEF Like
  <2> QED
    BY <2>1, LikeNew
<1>4. OfHost(merged) = OfHost(content)
  BY <1>2, OfConfig, ParsedIs DEF Merged
<1>5. AllInTime(content) /\ InTime(new) => AllInTime(merged)
  <2>1. ASSUME AllInTime(content), InTime(new) PROVE AllInTimeIn(hooks)
    <3>1. AllInTimeIn(parsed.hooks)
      BY <2>1, OfConfig, ParsedIs DEF AllInTime, AllInTimeIn
    <3>2. InTime(mine)
      BY <1>3, <2>1, InTimeOfNew
    <3> QED
      BY <3>1, <3>2 DEF Merged
  <2> QED
    BY <1>2, <2>1, OfConfig DEF AllInTime, AllInTimeIn
<1>6. ASSUME NEW hook, Like(hook, mine)
      PROVE  [hook EXCEPT !.group = new.group] = new
  <2>1. PICK g \in Groups : hook = [mine EXCEPT !.group = g]
    BY <1>6 DEF Like
  <2>2. hook = [new EXCEPT !.group = g]
    BY <2>1 DEF Own
  <2>3. Like(hook, new)
    BY <2>2 DEF Like
  <2> QED
    BY <2>3, LikeNew
<1>7. Stands(merged, new)
  <2>1. PICK n : Places(hooks, {mine.tool}) = {n} /\ Like(hooks[n], mine)
    BY DEF Merged
  <2>2. [hooks[n] EXCEPT !.group = new.group] = new
    BY <1>6, <2>1
  <2>3. Ours(merged, {new.tool}) = {n}
    BY <1>2, <1>3, <2>1, OfConfig
  <2> QED
    BY <1>2, <2>2, <2>3 DEF Stands
<1> QED
  BY <1>1, <1>2, <1>4, <1>5, <1>7 DEF Kept

LEMMA GroupsKeep ==
  ASSUME NEW content \in Contents, content # Broken, NEW new \in Own, new.tool # "windsurf",
         NEW group \in {"bare", "matchAll"}
  PROVE  Kept(MergeGroups(content, [new EXCEPT !.group = group]), content, new)
<1>1. PICK mine : mine = [new EXCEPT !.group = group]
  OBVIOUS
<1>2. group \in Groups
  BY DEF Groups
<1>3. mine \in Own /\ InPlace(mine)
  BY <1>1, <1>2 DEF Own, InPlace
<1>4. PICK parsed \in Config : parsed = Parsed(content)
  BY ParsedIs
<1>5. PICK hooks : hooks = mergeUserPromptSubmit(parsed.hooks, mine)
  OBVIOUS
<1>6. Merged(hooks, parsed.hooks, mine)
  BY <1>3, <1>4, <1>5, OfConfig, UpsertMerges, WithoutEmptyKeeps DEF mergeUserPromptSubmit
<1>7. PICK form \in Forms : form = Marshalled(parsed.form)
  BY DEF Marshalled, Forms
<1>8. None \in Misfits
  BY DEF Misfits
<1>9. MergeGroups(content, mine) = [parsed EXCEPT !.hooks = hooks, !.misfit = None, !.form = form]
  BY <1>4, <1>5, <1>7 DEF MergeGroups, Config
<1>10. Kept([parsed EXCEPT !.hooks = hooks, !.misfit = None, !.form = form], content, new)
  BY <1>1, <1>2, <1>4, <1>6, <1>8, ListKeeps
<1> QED
  BY <1>1, <1>9, <1>10

LEMMA WindsurfKeeps ==
  ASSUME NEW content \in Contents, content # Broken, NEW new \in Own, new.tool = "windsurf"
  PROVE  Kept(MergeWindsurfHooks(content, new), content, new)
<1>1. PICK mine : mine = [new EXCEPT !.group = "flat"]
  OBVIOUS
<1>2. PICK group \in Groups : group = "flat"
  BY DEF Groups
<1>3. mine \in Own /\ InPlace(mine)
  BY <1>1, <1>2 DEF Own, InPlace
<1>4. PICK parsed \in Config : parsed = Parsed(content)
  BY ParsedIs
<1>5. PICK hooks : hooks = Upsert(parsed.hooks, mine)
  OBVIOUS
<1>6. Merged(hooks, parsed.hooks, mine)
  BY <1>3, <1>4, <1>5, OfConfig, UpsertMerges
<1>7. PICK form \in Forms : form = Marshalled(parsed.form)
  BY DEF Marshalled, Forms
<1>8. PICK misfit \in Misfits : misfit = IF parsed.misfit = "hooks" THEN None ELSE parsed.misfit
  BY <1>4 DEF Misfits, Config
<1>9. MergeWindsurfHooks(content, new)
        = [parsed EXCEPT !.hooks = hooks, !.misfit = misfit, !.form = form]
  BY <1>1, <1>4, <1>5, <1>7, <1>8 DEF MergeWindsurfHooks, Config
<1>10. Kept([parsed EXCEPT !.hooks = hooks, !.misfit = misfit, !.form = form], content, new)
  BY <1>1, <1>2, <1>4, <1>6, ListKeeps
<1> QED
  BY <1>9, <1>10

LEMMA MergeKeeps ==
  ASSUME NEW content \in Contents, content # Broken, NEW new \in Own
  PROVE  Kept(Merge(content, new), content, new)
<1>1. new.tool \in Agents
  BY DEF Own
<1> QED
  BY <1>1, GroupsKeep, WindsurfKeeps
  DEF Merge, MergeCodexHooks, MergeSettings, MergeDevinHooks, Agents

-----------------------------------------------------------------------------
(* The hook of a command line.                                              *)

(* The margin is positive and leaves a positive deadline, also where it is  *)
(* a fifth of the time; a timeout no duration holds has some deadline.      *)
LEMMA DeadlineInTime ==
  ASSUME NEW seconds \in Int, seconds > 0
  PROVE  /\ hookDeadlineForTimeout(seconds) \in Int
         /\ seconds * 1000 <= MaxDuration =>
              /\ hookDeadlineForTimeout(seconds) > 0
              /\ hookDeadlineForTimeout(seconds) < seconds * 1000
<1>1. PICK max \in Nat : max = MaxDuration /\ max >= 20000
  BY InstallAssumption
<1>2. \A d \in Int : -max - 1 <= d /\ d <= max => Wrap(d) = d
  BY <1>1 DEF Wrap
<1>3. ASSUME NEW d \in Int PROVE Wrap(d) \in Int
  <2>1. PICK size \in Nat : size = 2 * (max + 1) /\ size > 0
    BY <1>1
  <2>2. (d + max + 1) % size \in Int
    BY <2>1
  <2>3. Wrap(d) = IF -max - 1 <= d /\ d <= max THEN d ELSE ((d + max + 1) % size) - max - 1
    BY <1>1, <2>1 DEF Wrap
  <2> QED
    BY <2>2, <2>3
<1>4. \A d \in Int : Fifth(d) \in Int
  BY DEF Fifth
<1>5. PICK total \in Int : total = Wrap(seconds * 1000)
  BY <1>3
<1>6. hookDeadlineForTimeout(seconds)
        = IF total <= 5000 THEN Fifth(Wrap(total * 4)) ELSE total - 5000
  BY <1>5 DEF hookDeadlineForTimeout
<1>7. Wrap(total * 4) \in Int
  BY <1>3
<1>8. hookDeadlineForTimeout(seconds) \in Int
  BY <1>4, <1>6, <1>7
<1>9. ASSUME seconds * 1000 <= max
      PROVE  hookDeadlineForTimeout(seconds) > 0 /\ hookDeadlineForTimeout(seconds) < seconds * 1000
  <2>1. total = seconds * 1000 /\ total >= 1000
    BY <1>2, <1>5, <1>9
  <2>2. CASE total <= 5000
    <3>1. Wrap(total * 4) = total * 4
      BY <1>1, <1>2, <2>1, <2>2
    <3>2. hookDeadlineForTimeout(seconds) = (total * 4) \div 5
      BY <1>6, <2>1, <2>2, <3>1 DEF Fifth
    <3> QED
      BY <2>1, <3>2
  <2>3. CASE total > 5000
    BY <1>6, <2>1, <2>3
  <2> QED
    BY <2>2, <2>3
<1> QED
  BY <1>1, <1>8, <1>9

Envs == {o.env : o \in Options} \cup {"homeEnv", "projectEnv", None}

LEMMA HookInTime ==
  ASSUME NEW o \in Options, o.timeout > 0, NEW env \in Envs
  PROVE  HookOf([o EXCEPT !.env = env]) \in Own /\ InTime(HookOf([o EXCEPT !.env = env]))
<1>1. PICK p : /\ p = [o EXCEPT !.env = env] /\ p.agent \in Agents /\ p.scope = o.scope
               /\ p.env = env /\ p.timeout = o.timeout /\ p.timeout \in Int
  <2>1. PICK S, P, E : o \in [agent : Agents, scope : S, path : P, env : E, timeout : Int,
                              dryRun : BOOLEAN]
    BY OptionsAssumption
  <2>2. o.agent \in Agents /\ o.timeout \in Int
    BY <2>1
  <2>3. /\ [o EXCEPT !.env = env].agent = o.agent /\ [o EXCEPT !.env = env].scope = o.scope
        /\ [o EXCEPT !.env = env].env = env /\ [o EXCEPT !.env = env].timeout = o.timeout
    BY <2>1
  <2> HIDE <2>1
  <2> QED
    BY <2>2, <2>3
<1>2. PICK deadline \in Int :
        /\ deadline = hookDeadlineForTimeout(p.timeout)
        /\ p.timeout * 1000 <= MaxDuration => deadline > 0 /\ deadline < p.timeout * 1000
  BY <1>1, DeadlineInTime
<1>3. PICK timeout \in Int \cup {None} :
        /\ timeout = (IF p.agent = "windsurf" THEN None ELSE p.timeout * 1000)
        /\ p.timeout * 1000 <= MaxDuration => (timeout # None => deadline < timeout)
  BY <1>1, <1>2
<1>4. PICK scope \in {q.scope : q \in Options} \cup {None} :
        scope = IF p.agent \in {"codex", "devin"} THEN p.scope ELSE None
  BY <1>1
<1>5. HookOf(p) = [tool |-> p.agent, group |-> None, scope |-> scope, env |-> p.env,
                   timeout |-> timeout, deadline |-> deadline]
  BY <1>2, <1>3, <1>4 DEF HookOf
<1>6. HookOf(p) \in Own
  BY <1>1, <1>5 DEF Own, Groups, Envs
<1>7. HookOf(p).deadline = deadline /\ HookOf(p).timeout = timeout
  BY <1>5
<1>8. CASE p.timeout * 1000 <= MaxDuration
  BY <1>1, <1>2, <1>3, <1>6, <1>7, <1>8 DEF InTime, Timely
<1>9. CASE ~(p.timeout * 1000 <= MaxDuration)
  <2>1. o.timeout * 1000 > MaxDuration
    BY <1>1, <1>9, InstallAssumption
  <2>2. Overflown(HookOf(p))
    BY <1>1, <1>2, <1>3, <1>7, <2>1 DEF Overflown
  <2> QED
    BY <1>1, <1>6, <2>2 DEF InTime
<1> QED
  BY <1>8, <1>9

-----------------------------------------------------------------------------
(* The protocol.                                                            *)
Working == {"read", "compare", "temp", "rename"}
Replacing == {"compare", "temp", "rename"}

PathNames ==
  {o.path : o \in Options} \cup
  {"codexProject", "codexUser", "claudeUser", "windsurfProject", "windsurfUser",
   "devinProject", "devinUser", None}

Results == {None, "usage", "badPath", "unparsable", "printed", "already", "keptChanging",
            "installed", "killed"}

Run ==
  [pc : {"ready", "lock", "done"} \cup Working, path : PathNames, new : Own \cup {None},
   existing : Contents \cup {None}, merged : Contents \cup {None},
   attempt : 0..2, disturbed : Nat,
   result : Results]

Shape ==
  /\ file \in [Files -> Contents] /\ wanted \in [Files -> Contents]
  /\ last \in [Files -> Own \cup {None}] /\ lock \in [Files -> Installers \cup {None}]
  /\ run \in [Installers -> Run]
  /\ raced \subseteq Files /\ hostWrites \in 0..MaxHostWrites /\ faults \in 0..MaxFaults

\* What a command holds and remembers, and who spoiled its attempts.
RunInv(i) ==
  LET p == run[i] IN
  /\ p.pc \in {"lock"} \cup Working => FileOf(i) \in Files /\ p.new \in Own /\ InTime(p.new)
  /\ p.pc = "lock" => p.attempt = 0
  /\ p.pc \in Working => lock[FileOf(i)] = i /\ p.disturbed >= p.attempt
  /\ p.pc \in Replacing =>
       /\ p.existing \in Contents /\ p.existing # Broken /\ AllInTime(p.existing)
       /\ p.merged = Merge(p.existing, p.new)
       /\ file[FileOf(i)] = p.existing \/ p.disturbed > p.attempt
  /\ p.pc = "rename" => file[FileOf(i)] = p.existing \/ FileOf(i) \in raced
  /\ p.result = "keptChanging" => p.disturbed >= 3

\* A lock is held by a command that works on its file.
LockInv ==
  \A f \in Files : lock[f] # None => run[lock[f]].pc \in Working /\ FileOf(lock[f]) = f

FileInv(f) ==
  /\ f \in raced \/ OfHost(file[f]) = OfHost(wanted[f])
  /\ AllInTime(file[f])
  /\ last[f] # None => Stands(file[f], last[f])

ConfigInv ==
  Shape /\ (\A i \in Installers : RunInv(i)) /\ LockInv /\ (\A f \in Files : FileInv(f))

-----------------------------------------------------------------------------
\* A step of command i: the other commands and the host's part stay.
Alone(i) ==
  /\ run' = [j \in Installers |-> run'[j]] /\ run'[i] \in Run
  /\ \A j \in Installers \ {i} : run'[j] = run[j]
  /\ UNCHANGED <<wanted, raced, hostWrites>> /\ faults' \in 0..MaxFaults

LEMMA RunsKeep ==
  ASSUME ConfigInv, NEW i \in Installers, Alone(i), RunInv(i)',
         \A j \in Installers \ {i} : run[j].pc \in Working =>
           lock'[FileOf(j)] = lock[FileOf(j)] /\ file'[FileOf(j)] = file[FileOf(j)]
  PROVE  run' \in [Installers -> Run] /\ \A j \in Installers : RunInv(j)'
<1>1. run' \in [Installers -> Run]
  BY DEF ConfigInv, Shape, Alone
<1>2. ASSUME NEW j \in Installers, j # i PROVE RunInv(j)'
  BY <1>2 DEF ConfigInv, RunInv, Alone, FileOf, Working, Replacing
<1> QED
  BY <1>1, <1>2

(* A step that leaves the files and the locks.                              *)
LEMMA LocalKeeps ==
  ASSUME ConfigInv, NEW i \in Installers, Alone(i), RunInv(i)', UNCHANGED <<file, lock, last>>,
         run[i].pc \in Working => run'[i].pc \in Working /\ run'[i].path = run[i].path
  PROVE  ConfigInv'
<1>1. run' \in [Installers -> Run] /\ \A j \in Installers : RunInv(j)'
  BY RunsKeep
<1>2. Shape'
  BY <1>1 DEF ConfigInv, Shape, Alone
<1>3. LockInv'
  <2>1. ASSUME NEW f \in Files, lock[f] # None
        PROVE  run'[lock[f]].pc \in Working /\ ResolvePath(run'[lock[f]].path) = f
    <3>1. PICK j \in Installers : j = lock[f]
      BY <2>1 DEF ConfigInv, Shape
    <3>2. run[j].pc \in Working /\ FileOf(j) = f
      BY <2>1, <3>1 DEF ConfigInv, LockInv
    <3> QED
      BY <3>1, <3>2 DEF Alone, FileOf
  <2> QED
    BY <2>1 DEF LockInv, FileOf
<1>4. \A f \in Files : FileInv(f)'
  BY DEF ConfigInv, FileInv, Alone
<1> QED
  BY <1>1, <1>2, <1>3, <1>4 DEF ConfigInv

(* A command leaves the file it worked on, and its lock.                    *)
LEMMA LeavesKeeps ==
  ASSUME ConfigInv, NEW i \in Installers, Alone(i), RunInv(i)',
         run[i].pc \in Working, run'[i].pc = "done",
         NEW f, f = FileOf(i), lock' = [lock EXCEPT ![f] = None],
         NEW content \in Contents, file' = [file EXCEPT ![f] = content],
         NEW hook \in Own \cup {None}, last' = [last EXCEPT ![f] = hook],
         FileInv(f)'
  PROVE  ConfigInv'
<1>0. f \in Files /\ lock[f] = i
  BY DEF ConfigInv, RunInv
<1>1. ASSUME NEW g \in Files, g # f
      PROVE  lock'[g] = lock[g] /\ file'[g] = file[g] /\ last'[g] = last[g]
  BY <1>1 DEF ConfigInv, Shape
<1>2. ASSUME NEW j \in Installers \ {i}, run[j].pc \in Working
      PROVE  FileOf(j) \in Files /\ FileOf(j) # f
  BY <1>0, <1>2 DEF ConfigInv, RunInv
<1>3. run' \in [Installers -> Run] /\ \A j \in Installers : RunInv(j)'
  BY <1>1, <1>2, RunsKeep
<1>4. Shape'
  BY <1>0, <1>3 DEF ConfigInv, Shape, Alone
<1>5. LockInv'
  <2>1. lock'[f] = None
    BY <1>0 DEF ConfigInv, Shape
  <2>2. ASSUME NEW g \in Files, lock'[g] # None
        PROVE  run'[lock'[g]].pc \in Working /\ ResolvePath(run'[lock'[g]].path) = g
    <3>1. g # f /\ lock'[g] = lock[g]
      BY <1>1, <2>1, <2>2
    <3>2. PICK j \in Installers : j = lock[g]
      BY <2>2, <3>1 DEF ConfigInv, Shape
    <3>3. run[j].pc \in Working /\ FileOf(j) = g
      BY <2>2, <3>1, <3>2 DEF ConfigInv, LockInv
    <3>4. j # i
      BY <3>1, <3>3
    <3> QED
      BY <3>1, <3>2, <3>3, <3>4 DEF Alone, FileOf
  <2> QED
    BY <2>2 DEF LockInv, FileOf
<1>6. \A g \in Files : FileInv(g)'
  <2>1. ASSUME NEW g \in Files, g # f PROVE FileInv(g)'
    BY <1>1, <2>1 DEF ConfigInv, FileInv, Alone
  <2> QED
    BY <2>1
<1> QED
  BY <1>3, <1>4, <1>5, <1>6 DEF ConfigInv

-----------------------------------------------------------------------------
(* The steps of a command.                                                  *)
EndsAs(p, d, result) ==
  /\ p = [Ready EXCEPT !.pc = "done", !.disturbed = d, !.result = result]
  /\ p \in Run /\ p.pc = "done" /\ p.disturbed = d /\ p.result = result

LEMMA EndedRun ==
  ASSUME NEW d \in Nat, NEW result \in Results
  PROVE  \E p : EndsAs(p, d, result)
<1>1. Ready \in Run
  BY DEF Ready, Run, PathNames, Results
<1>2. [Ready EXCEPT !.pc = "done", !.disturbed = d, !.result = result] \in Run
  BY <1>1 DEF Run
<1>3. PICK p \in Run :
        /\ p = [Ready EXCEPT !.pc = "done", !.disturbed = d, !.result = result]
        /\ p.pc = "done" /\ p.disturbed = d /\ p.result = result
  BY <1>1, <1>2 DEF Run
<1> QED
  BY <1>3 DEF EndsAs

(* A command that ends has given up only for a reason.                      *)
LEMMA Ends ==
  ASSUME ConfigInv, NEW i \in Installers, NEW p \in Run, run' = [run EXCEPT ![i] = p],
         p.pc = "done", p.result = "keptChanging" => p.disturbed >= 3,
         UNCHANGED <<wanted, raced, hostWrites>>, faults' \in 0..MaxFaults
  PROVE  Alone(i) /\ RunInv(i)' /\ run'[i].pc = "done"
<1>1. run \in [Installers -> Run]
  BY DEF ConfigInv, Shape
<1>2. run'[i] = p /\ Alone(i)
  BY <1>1 DEF Alone
<1>3. RunInv(i)'
  BY <1>2 DEF RunInv, Working, Replacing
<1> QED
  BY <1>2, <1>3

LEMMA DoneEnds ==
  ASSUME ConfigInv, NEW i \in Installers, NEW result \in Results \ {"keptChanging"},
         Done(i, result),
         UNCHANGED <<wanted, raced, hostWrites>>, faults' \in 0..MaxFaults
  PROVE  Alone(i) /\ RunInv(i)' /\ run'[i].pc = "done"
<1>1. PICK d \in Nat : d = run[i].disturbed
  BY DEF ConfigInv, Shape, Run
<1>2. PICK p : EndsAs(p, d, result)
  BY EndedRun
<1>3. run' = [run EXCEPT ![i] = p] /\ p \in Run /\ p.pc = "done" /\ p.result # "keptChanging"
  BY <1>1, <1>2 DEF Done, Ended, EndsAs
<1> QED
  BY <1>3, Ends

(* The commands begin.                                                      *)
LEMMA BeginKeeps ==
  ASSUME ConfigInv, NEW i \in Installers, NEW o \in Options, NEW path \in PathNames,
         NEW env \in Envs, Begin(i, o, path, env)
  PROVE  ConfigInv'
<1>1. /\ UNCHANGED <<file, lock, hostWrites, faults, wanted, raced, last>>
      /\ faults' \in 0..MaxFaults /\ run[i].pc = "ready" /\ run \in [Installers -> Run]
      /\ run[i].pc \notin Working
  BY DEF Begin, ConfigInv, Shape, Working
<1>2. ASSUME NEW result \in Results \ {"keptChanging"}, Done(i, result)
      PROVE  ConfigInv'
  BY <1>1, <1>2, DoneEnds, LocalKeeps
<1>3. ASSUME o.timeout > 0, ResolvePath(path) \in Files,
             run' = [run EXCEPT ![i] = [Ready EXCEPT
               !.pc = "lock", !.path = path, !.new = HookOf([o EXCEPT !.env = env])]]
      PROVE  ConfigInv'
  <2>1. PICK hook \in Own : hook = HookOf([o EXCEPT !.env = env]) /\ InTime(hook)
    BY <1>3, HookInTime
  <2>2. PICK p \in Run : /\ p = [Ready EXCEPT !.pc = "lock", !.path = path, !.new = hook]
                         /\ p.pc = "lock" /\ p.path = path /\ p.new = hook
                         /\ p.attempt = 0 /\ p.result = None
    <3>1. Ready \in Run /\ Ready.attempt = 0 /\ Ready.result = None
      BY DEF Ready, Run, PathNames, Results
    <3>2. [Ready EXCEPT !.pc = "lock", !.path = path, !.new = hook] \in Run
      BY <3>1 DEF Run
    <3> QED
      BY <3>1, <3>2 DEF Run
  <2>3. run'[i] = p /\ Alone(i)
    BY <1>1, <1>3, <2>1, <2>2 DEF Alone
  <2>4. RunInv(i)'
    <3>1. FileOf(i)' \in Files
      BY <1>3, <2>2, <2>3 DEF FileOf
    <3>2. p.result # "keptChanging"
      BY <2>2, NoneAssumption
    <3>3. /\ p.pc \notin Working /\ p.pc \notin Replacing /\ p.pc # "rename"
          /\ p.new \in Own /\ InTime(p.new)
      BY <2>1, <2>2 DEF Working, Replacing
    <3> QED
      BY <2>2, <2>3, <3>1, <3>2, <3>3 DEF RunInv
  <2> QED
    BY <1>1, <2>3, <2>4, LocalKeeps
<1> QED
  BY <1>2, <1>3, NoneAssumption DEF Begin, DryRun, Results

LEMMA InstallKeeps ==
  ASSUME ConfigInv, NEW i \in Installers, Install(i)
  PROVE  ConfigInv'
<1>1. ASSUME NEW o \in Options
      PROVE  /\ {codexHooksPath(o), claudeSettingsPath(o), windsurfHooksPath(o),
                 devinHooksPath(o)} \subseteq PathNames
             /\ {codexHookEnvFile(o), claudeHookEnvFile(o), windsurfHookEnvFile(o),
                 devinHookEnvFile(o)} \subseteq Envs
  BY DEF codexHooksPath, claudeSettingsPath, windsurfHooksPath, devinHooksPath, ScopePath,
         codexHookEnvFile, claudeHookEnvFile, windsurfHookEnvFile, devinHookEnvFile,
         ScopeEnvFile, PathNames, Envs
<1> QED
  BY <1>1, BeginKeeps DEF Install, runCodexHookInstall, runClaudeHookInstall,
                          runWindsurfHookInstall, runDevinHookInstall

LEMMA LockKeeps ==
  ASSUME ConfigInv, NEW i \in Installers, Lock(i)
  PROVE  ConfigInv'
<1> DEFINE f == FileOf(i)
<1>1. /\ run[i].pc = "lock" /\ f \in Files /\ lock[f] = None /\ lock' = [lock EXCEPT ![f] = i]
      /\ run' = [run EXCEPT ![i].pc = "read"] /\ run \in [Installers -> Run]
      /\ UNCHANGED <<file, hostWrites, faults, wanted, raced, last>>
  BY DEF Lock, LockName, FileOf, ConfigInv, RunInv, Shape
<1>2. PICK p \in Run : /\ run'[i] = p /\ p.pc = "read" /\ p.path = run[i].path
                       /\ p.new = run[i].new /\ p.attempt = run[i].attempt
                       /\ p.disturbed = run[i].disturbed /\ p.result = run[i].result
  <2>1. run[i] \in Run /\ [run[i] EXCEPT !.pc = "read"] \in Run
        /\ run'[i] = [run[i] EXCEPT !.pc = "read"]
    BY <1>1 DEF Run, Working
  <2> QED
    BY <2>1 DEF Run
<1>3. Alone(i)
  BY <1>1, <1>2 DEF Alone, ConfigInv, Shape
<1>4. lock'[f] = i /\ \A g \in Files : g # f => lock'[g] = lock[g]
  BY <1>1 DEF ConfigInv, Shape
<1>5. RunInv(i)'
  <2>1. run[i].attempt = 0 /\ run[i].disturbed \in Nat
    BY <1>1 DEF ConfigInv, RunInv, Shape, Run
  <2>2. FileOf(i)' = f
    BY <1>2 DEF FileOf
  <2> QED
    BY <1>1, <1>2, <1>4, <2>1, <2>2 DEF ConfigInv, RunInv, Working, Replacing
<1>6. ASSUME NEW j \in Installers \ {i}, run[j].pc \in Working
      PROVE  FileOf(j) \in Files /\ FileOf(j) # f
  BY <1>1, <1>6, NoneAssumption DEF ConfigInv, RunInv
<1>7. run' \in [Installers -> Run] /\ \A j \in Installers : RunInv(j)'
  BY <1>1, <1>3, <1>4, <1>5, <1>6, RunsKeep
<1>8. Shape'
  BY <1>1, <1>3, <1>7 DEF ConfigInv, Shape, Alone
<1>9. LockInv'
  <2>1. ASSUME NEW g \in Files, lock'[g] # None
        PROVE  run'[lock'[g]].pc \in Working /\ ResolvePath(run'[lock'[g]].path) = g
    <3>1. CASE g = f
      BY <1>1, <1>2, <1>4, <3>1 DEF FileOf, Working
    <3>2. CASE g # f
      <4>1. PICK j \in Installers : j = lock[g] /\ lock'[g] = j
        BY <1>4, <2>1, <3>2 DEF ConfigInv, Shape
      <4>2. run[j].pc \in Working /\ FileOf(j) = g
        BY <1>4, <2>1, <3>2, <4>1 DEF ConfigInv, LockInv
      <4>3. j # i
        BY <1>1, <4>2 DEF Working
      <4> QED
        BY <1>3, <4>1, <4>2, <4>3 DEF Alone, FileOf
    <3> QED
      BY <3>1, <3>2
  <2> QED
    BY <2>1 DEF LockInv, FileOf
<1>10. \A g \in Files : FileInv(g)'
  BY <1>1 DEF ConfigInv, FileInv
<1> QED
  BY <1>7, <1>8, <1>9, <1>10 DEF ConfigInv

(* A command that ends as it finds the file leaves the rest as it was.      *)
LEMMA StopsKeeps ==
  ASSUME ConfigInv, NEW i \in Installers, Alone(i), RunInv(i)', run[i].pc \in Working,
         run'[i].pc = "done", Unlock(i), UNCHANGED <<file, last>>
  PROVE  ConfigInv'
<1>1. PICK f \in Files : f = FileOf(i)
  BY DEF ConfigInv, RunInv
<1>2. PICK content \in Contents : content = file[f]
  BY DEF ConfigInv, Shape
<1>3. PICK hook \in Own \cup {None} : hook = last[f]
  BY DEF ConfigInv, Shape
<1>4. /\ lock' = [lock EXCEPT ![f] = None] /\ file' = [file EXCEPT ![f] = content]
      /\ last' = [last EXCEPT ![f] = hook]
  BY <1>1, <1>2, <1>3 DEF Unlock, LockName, FileOf, ConfigInv, Shape
<1>5. FileInv(f)'
  BY DEF ConfigInv, FileInv, Alone
<1> QED
  BY <1>1, <1>4, <1>5, LeavesKeeps

(* A command that goes back to reading still holds its lock.                *)
LEMMA RereadsKeeps ==
  ASSUME ConfigInv, NEW i \in Installers, run[i].pc \in Working,
         NEW p \in Run, run' = [run EXCEPT ![i] = p],
         p.pc = "read", p.path = run[i].path, p.new = run[i].new, p.result = run[i].result,
         p.disturbed >= p.attempt, p.disturbed >= run[i].disturbed,
         UNCHANGED <<file, lock, hostWrites, wanted, raced, last>>, faults' \in 0..MaxFaults
  PROVE  ConfigInv'
<1>1. run \in [Installers -> Run]
  BY DEF ConfigInv, Shape
<1>2. run'[i] = p /\ Alone(i)
  BY <1>1 DEF Alone
<1>3. FileOf(i)' = FileOf(i)
  BY <1>2 DEF FileOf
<1>4. p.result = "keptChanging" => p.disturbed >= 3
  <2>1. run[i].disturbed \in Nat /\ p.disturbed \in Nat
    BY <1>1 DEF Run
  <2>2. p.result = "keptChanging" => run[i].disturbed >= 3
    BY DEF ConfigInv, RunInv
  <2> QED
    BY <2>1, <2>2
<1>5. RunInv(i)'
  BY <1>2, <1>3, <1>4 DEF ConfigInv, RunInv, Working, Replacing
<1> QED
  BY <1>2, <1>5, LocalKeeps DEF Working

(* The third attempt is the last, and it was spoiled like the two before.   *)
LEMMA RetryKeeps ==
  ASSUME ConfigInv, NEW i \in Installers, run[i].pc \in Replacing, Retry(i),
         run[i].disturbed > run[i].attempt,
         UNCHANGED <<file, hostWrites, faults, wanted, raced, last>>
  PROVE  ConfigInv'
<1>1. /\ run \in [Installers -> Run] /\ run[i] \in Run /\ run[i].pc \in Working
      /\ run[i].attempt \in 0..2 /\ run[i].disturbed \in Nat /\ faults' \in 0..MaxFaults
  BY DEF ConfigInv, Shape, Run, Working, Replacing
<1>2. CASE run[i].attempt = 2
  <2>1. PICK d \in Nat : d = run[i].disturbed /\ d >= 3
    BY <1>1, <1>2
  <2>2. PICK result \in Results : result = "keptChanging"
    BY DEF Results
  <2>3. PICK p : EndsAs(p, d, result)
    BY EndedRun
  <2>4. /\ run' = [run EXCEPT ![i] = p] /\ p \in Run /\ p.pc = "done" /\ p.disturbed >= 3
        /\ Unlock(i)
    BY <1>2, <2>1, <2>2, <2>3 DEF Retry, Done, Ended, EndsAs
  <2>5. Alone(i) /\ RunInv(i)' /\ run'[i].pc = "done"
    BY <1>1, <2>4, Ends
  <2> QED
    BY <1>1, <2>4, <2>5, StopsKeeps
<1>3. CASE run[i].attempt # 2
  <2>1. PICK a \in 0..2 : a = run[i].attempt + 1 /\ run[i].disturbed >= a
    BY <1>1, <1>3
  <2>2. PICK p \in Run : /\ p = [run[i] EXCEPT !.pc = "read", !.attempt = a]
                         /\ p.pc = "read" /\ p.path = run[i].path /\ p.new = run[i].new
                         /\ p.result = run[i].result /\ p.attempt = a
                         /\ p.disturbed = run[i].disturbed
    <3>1. PICK q \in Run : q = run[i]
      BY <1>1
    <3>2. [q EXCEPT !.pc = "read", !.attempt = a] \in Run
      BY DEF Run, Working
    <3> QED
      BY <3>1, <3>2 DEF Run
  <2>3. run' = [run EXCEPT ![i] = p] /\ UNCHANGED lock
    BY <1>1, <1>3, <2>1, <2>2 DEF Retry
  <2>4. p.disturbed >= p.attempt /\ p.disturbed >= run[i].disturbed
    BY <1>1, <2>1, <2>2
  <2>5. UNCHANGED <<file, lock, hostWrites, wanted, raced, last>>
    BY <2>3
  <2> QED
    BY <1>1, <2>2, <2>3, <2>4, <2>5, RereadsKeeps
<1> QED
  BY <1>2, <1>3

(* The file is as it was read, or somebody spoiled the attempt: the command *)
(* goes on to its next step or tries again.                                 *)
LEMMA ComparesKeeps ==
  ASSUME ConfigInv, NEW i \in Installers, run[i].pc \in Replacing,
         NEW pc \in {"temp", "rename"}, file[FileOf(i)] = run[i].existing,
         run' = [run EXCEPT ![i].pc = pc],
         UNCHANGED <<file, lock, hostWrites, faults, wanted, raced, last>>
  PROVE  ConfigInv'
<1>1. run \in [Installers -> Run] /\ run[i] \in Run /\ faults' \in 0..MaxFaults
  BY DEF ConfigInv, Shape
<1>2. PICK p \in Run : /\ p = [run[i] EXCEPT !.pc = pc] /\ p.pc = pc
                       /\ p.path = run[i].path /\ p.new = run[i].new
                       /\ p.existing = run[i].existing /\ p.merged = run[i].merged
                       /\ p.attempt = run[i].attempt /\ p.disturbed = run[i].disturbed
                       /\ p.result = run[i].result
  <2>1. PICK q \in Run : q = run[i]
    BY <1>1
  <2>2. [q EXCEPT !.pc = pc] \in Run
    BY DEF Run, Working
  <2> QED
    BY <2>1, <2>2 DEF Run
<1>3. run'[i] = p /\ Alone(i)
  BY <1>1, <1>2 DEF Alone
<1>4. FileOf(i)' = FileOf(i)
  BY <1>2, <1>3 DEF FileOf
<1>5. RunInv(i)'
  BY <1>2, <1>3, <1>4 DEF ConfigInv, RunInv, Working, Replacing
<1> QED
  BY <1>2, <1>3, <1>5, LocalKeeps DEF Working

LEMMA CompareKeeps ==
  ASSUME ConfigInv, NEW i \in Installers, Compare(i) \/ Recheck(i)
  PROVE  ConfigInv'
<1>1. /\ UNCHANGED <<file, hostWrites, faults, wanted, raced, last>>
      /\ run[i].pc \in Replacing
  BY DEF Compare, Recheck, Replacing
<1>2. CASE file[FileOf(i)] = run[i].existing
  <2>1. PICK pc \in {"temp", "rename"} : run' = [run EXCEPT ![i].pc = pc] /\ UNCHANGED lock
    BY <1>2 DEF Compare, Recheck
  <2> QED
    BY <1>1, <1>2, <2>1, ComparesKeeps
<1>3. CASE file[FileOf(i)] # run[i].existing
  <2>1. Retry(i) /\ run[i].disturbed > run[i].attempt
    BY <1>1, <1>3 DEF Compare, Recheck, ConfigInv, RunInv
  <2> QED
    BY <1>1, <2>1, RetryKeeps
<1> QED
  BY <1>2, <1>3

(* The merge is of what the command read under its lock; a merge that       *)
(* changes nothing says that its hook is already there.                     *)
LEMMA ReadKeeps ==
  ASSUME ConfigInv, NEW i \in Installers, ReadAndMerge(i)
  PROVE  ConfigInv'
<1>1. PICK f \in Files : f = FileOf(i)
  BY DEF ReadAndMerge, ConfigInv, RunInv, Working
<1>2. PICK new \in Own : new = run[i].new /\ InTime(new)
  BY DEF ReadAndMerge, ConfigInv, RunInv, Working
<1>3. /\ run \in [Installers -> Run] /\ run[i] \in Run /\ run[i].pc = "read"
      /\ run[i].pc \in Working /\ faults' \in 0..MaxFaults /\ lock[f] = i
      /\ UNCHANGED <<file, hostWrites, faults, wanted, raced>>
  BY <1>1 DEF ReadAndMerge, ConfigInv, Shape, RunInv, Working
<1>4. PICK old \in Contents : old = file[f] /\ AllInTime(old)
  BY <1>1 DEF ConfigInv, Shape, FileInv
<1>5. CASE Done(i, "unparsable") /\ Unlock(i) /\ UNCHANGED last
  <2>1. Alone(i) /\ RunInv(i)' /\ run'[i].pc = "done"
    BY <1>3, <1>5, DoneEnds DEF Results
  <2> QED
    BY <1>3, <1>5, <2>1, StopsKeeps
<1>6. CASE /\ old # Broken /\ Merge(old, new) = old /\ Done(i, "already") /\ Unlock(i)
           /\ last' = [last EXCEPT ![f] = new]
  <2>1. Alone(i) /\ RunInv(i)' /\ run'[i].pc = "done"
    BY <1>3, <1>6, DoneEnds DEF Results
  <2>2. Stands(old, new)
    BY <1>6, MergeKeeps DEF Kept
  <2>3. file' = [file EXCEPT ![f] = old] /\ lock' = [lock EXCEPT ![f] = None]
    BY <1>1, <1>3, <1>4, <1>6 DEF ConfigInv, Shape, Unlock, LockName, FileOf
  <2>4. last'[f] = new /\ file'[f] = old
    BY <1>3, <1>4, <1>6 DEF ConfigInv, Shape
  <2>5. FileInv(f)'
    <3>1. f \in raced \/ OfHost(file[f]) = OfHost(wanted[f])
      BY DEF ConfigInv, FileInv
    <3> QED
      BY <1>3, <1>4, <2>2, <2>4, <3>1 DEF FileInv
  <2> QED
    BY <1>1, <1>3, <1>6, <2>1, <2>3, <2>5, LeavesKeeps
<1>7. CASE /\ old # Broken
           /\ run' = [run EXCEPT ![i].pc = "compare", ![i].existing = old,
                                 ![i].merged = Merge(old, new)]
           /\ UNCHANGED <<lock, last>>
  <2>1. PICK merged \in Contents : merged = Merge(old, new)
    BY <1>7, MergeKeeps DEF Kept, Contents
  <2>2. PICK p \in Run : /\ p = [run[i] EXCEPT !.pc = "compare", !.existing = old, !.merged = merged]
                         /\ p.pc = "compare" /\ p.path = run[i].path /\ p.new = new
                         /\ p.existing = old /\ p.merged = merged
                         /\ p.attempt = run[i].attempt /\ p.disturbed = run[i].disturbed
                         /\ p.result = run[i].result
    <3>1. PICK q \in Run : q = run[i]
      BY <1>3
    <3>2. [q EXCEPT !.pc = "compare", !.existing = old, !.merged = merged] \in Run
      BY DEF Run, Working
    <3> QED
      BY <1>2, <3>1, <3>2 DEF Run
  <2>3. run'[i] = p /\ Alone(i)
    BY <1>3, <1>7, <2>1, <2>2 DEF Alone
  <2>4. FileOf(i)' = f
    BY <1>1, <2>2, <2>3 DEF FileOf
  <2>5. p.existing # Broken /\ AllInTime(p.existing) /\ p.merged = Merge(p.existing, p.new)
    BY <1>4, <1>7, <2>1, <2>2
  <2>6. RunInv(i)'
    BY <1>2, <1>3, <1>4, <1>7, <2>2, <2>3, <2>4, <2>5 DEF ConfigInv, RunInv, Working, Replacing
  <2> QED
    BY <1>3, <1>7, <2>2, <2>3, <2>6, LocalKeeps DEF Working
<1> QED
  BY <1>1, <1>2, <1>4, <1>5, <1>6, <1>7 DEF ReadAndMerge

(* A failed replacement counts as one that the disk spoiled.                *)
LEMMA ReplaceFailsKeeps ==
  ASSUME ConfigInv, NEW i \in Installers, ReplaceFails(i)
  PROVE  ConfigInv'
<1>1. /\ run \in [Installers -> Run] /\ run[i] \in Run /\ run[i].pc \in Working
      /\ run[i].attempt \in 0..2 /\ run[i].disturbed \in Nat
      /\ UNCHANGED <<file, hostWrites, wanted, raced, last>>
  BY DEF ReplaceFails, ConfigInv, Shape, Run, Working
<1>2. faults' \in 0..MaxFaults
  BY InstallAssumption DEF ReplaceFails, ConfigInv, Shape
<1>3. run[i].disturbed >= run[i].attempt
  BY <1>1 DEF ConfigInv, RunInv
<1>4. PICK d \in Nat : d = run[i].disturbed + 1 /\ d >= run[i].disturbed /\ d >= run[i].attempt + 1
  BY <1>1, <1>3
<1>5. CASE run[i].attempt = 2
  <2>1. PICK result \in Results : result = "keptChanging"
    BY DEF Results
  <2>2. PICK p : EndsAs(p, d, result)
    BY EndedRun
  <2>3. [Ended(i, "keptChanging") EXCEPT !.disturbed = @ + 1] = p
    <3>1. PICK before \in Nat : before = run[i].disturbed /\ d = before + 1
      BY <1>1, <1>4
    <3>2. PICK q : EndsAs(q, before, result)
      BY <3>1, EndedRun
    <3>3. q = Ended(i, "keptChanging") /\ q.disturbed = before
      BY <2>1, <3>1, <3>2 DEF EndsAs, Ended
    <3>4. [q EXCEPT !.disturbed = d] = p
      BY <2>2, <3>2 DEF EndsAs, Ready
    <3> QED
      BY <3>1, <3>3, <3>4
  <2>4. /\ run' = [run EXCEPT ![i] = p] /\ p \in Run /\ p.pc = "done" /\ p.disturbed >= 3
        /\ Unlock(i)
    BY <1>4, <1>5, <2>2, <2>3 DEF ReplaceFails, EndsAs
  <2>5. Alone(i) /\ RunInv(i)' /\ run'[i].pc = "done"
    BY <1>1, <1>2, <2>4, Ends
  <2> QED
    BY <1>1, <2>4, <2>5, StopsKeeps
<1>6. CASE run[i].attempt # 2
  <2>1. PICK a \in 0..2 : a = run[i].attempt + 1
    BY <1>1, <1>6
  <2>2. PICK p \in Run : /\ p = [run[i] EXCEPT !.pc = "read", !.attempt = a, !.disturbed = d]
                         /\ p.pc = "read" /\ p.path = run[i].path /\ p.new = run[i].new
                         /\ p.result = run[i].result /\ p.attempt = a /\ p.disturbed = d
    <3>1. PICK q \in Run : q = run[i]
      BY <1>1
    <3>2. [q EXCEPT !.pc = "read", !.attempt = a, !.disturbed = d] \in Run
      BY DEF Run, Working
    <3> QED
      BY <3>1, <3>2 DEF Run
  <2>3. run' = [run EXCEPT ![i] = p] /\ UNCHANGED lock
    BY <1>1, <1>4, <1>6, <2>1, <2>2 DEF ReplaceFails
  <2>4. p.disturbed >= p.attempt /\ p.disturbed >= run[i].disturbed
    BY <1>1, <1>4, <2>1, <2>2
  <2>5. UNCHANGED <<file, lock, hostWrites, wanted, raced, last>>
    BY <1>1, <2>3
  <2> QED
    BY <1>1, <1>2, <2>2, <2>3, <2>4, <2>5, RereadsKeeps
<1> QED
  BY <1>5, <1>6

(* The rename puts the merge of what the file still held; unless the host   *)
(* wrote after the last comparison, and then the file is one it raced for.  *)
LEMMA RenameKeeps ==
  ASSUME ConfigInv, NEW i \in Installers, Rename(i)
  PROVE  ConfigInv'
<1>1. PICK f \in Files : f = FileOf(i)
  BY DEF Rename, ConfigInv, RunInv, Working
<1>2. PICK new \in Own : new = run[i].new /\ InTime(new)
  BY DEF Rename, ConfigInv, RunInv, Working
<1>3. PICK old \in Contents : /\ old = run[i].existing /\ old # Broken /\ AllInTime(old)
                              /\ run[i].merged = Merge(old, new)
                              /\ file[f] = old \/ f \in raced
  BY <1>1, <1>2 DEF Rename, ConfigInv, RunInv, Replacing
<1>4. PICK merged \in Contents : merged = run[i].merged /\ Kept(merged, old, new)
  BY <1>3, MergeKeeps DEF Kept, Contents
<1>5. /\ run[i].pc \in Working /\ Done(i, "installed") /\ lock' = [lock EXCEPT ![f] = None]
      /\ file' = [file EXCEPT ![f] = merged] /\ last' = [last EXCEPT ![f] = new]
      /\ UNCHANGED <<hostWrites, faults, wanted, raced>> /\ faults' \in 0..MaxFaults
  BY <1>1, <1>2, <1>4 DEF Rename, Unlock, LockName, FileOf, Working, ConfigInv, Shape
<1>6. Alone(i) /\ RunInv(i)' /\ run'[i].pc = "done"
  BY <1>5, DoneEnds DEF Results
<1>7. file'[f] = merged /\ last'[f] = new
  BY <1>5 DEF ConfigInv, Shape
<1>8. FileInv(f)'
  <2>1. f \in raced \/ OfHost(merged) = OfHost(wanted[f])
    BY <1>3, <1>4 DEF ConfigInv, FileInv, Kept
  <2>2. AllInTime(merged) /\ Stands(merged, new)
    BY <1>2, <1>3, <1>4 DEF Kept
  <2> QED
    BY <1>5, <1>7, <2>1, <2>2 DEF FileInv
<1> QED
  BY <1>1, <1>5, <1>6, <1>8, LeavesKeeps

LEMMA CrashKeeps ==
  ASSUME ConfigInv, NEW i \in Installers, Crash(i)
  PROVE  ConfigInv'
<1>1. /\ run \in [Installers -> Run] /\ UNCHANGED <<file, hostWrites, wanted, raced, last>>
      /\ run[i].pc \in {"lock"} \cup Working
      /\ lock' = [f \in Files |-> IF lock[f] = i THEN None ELSE lock[f]]
  BY DEF Crash, ConfigInv, Shape, Run
<1>2. faults' \in 0..MaxFaults
  BY InstallAssumption DEF Crash, ConfigInv, Shape
<1>3. Alone(i) /\ RunInv(i)' /\ run'[i].pc = "done"
  BY <1>1, <1>2, DoneEnds DEF Crash, Results
<1>4. ASSUME NEW f \in Files, lock[f] = i
      PROVE  run[i].pc \in Working /\ f = FileOf(i)
  BY <1>4, NoneAssumption DEF ConfigInv, LockInv
<1>5. CASE run[i].pc \in Working
  <2>1. PICK f \in Files : f = FileOf(i) /\ lock[f] = i
    BY <1>5 DEF ConfigInv, RunInv
  <2>2. Unlock(i)
    <3>1. LockName(run[i].path) = f
      BY <2>1 DEF LockName, FileOf
    <3>2. lock \in [Files -> Installers \cup {None}]
      BY DEF ConfigInv, Shape
    <3>3. ASSUME NEW g \in Files PROVE lock[g] = i <=> g = f
      BY <1>4, <2>1
    <3>4. lock' = [lock EXCEPT ![f] = None]
      BY <1>1, <3>2, <3>3
    <3> QED
      BY <3>1, <3>4 DEF Unlock
  <2> QED
    BY <1>1, <1>3, <1>5, <2>2, StopsKeeps
<1>6. CASE run[i].pc \notin Working
  <2>1. UNCHANGED lock
    BY <1>1, <1>4, <1>6 DEF ConfigInv, Shape
  <2> QED
    BY <1>1, <1>3, <1>6, <2>1, LocalKeeps
<1> QED
  BY <1>5, <1>6

(* The host spoils every replacement of the file that is under way.         *)
LEMMA HostWritesKeeps ==
  ASSUME ConfigInv, NEW f \in Files, NEW content \in Contents, AllInTime(content),
         HostWrites(f, content)
  PROVE  ConfigInv'
<1>1. /\ run \in [Installers -> Run] /\ UNCHANGED <<lock, faults>>
      /\ file' = [file EXCEPT ![f] = content] /\ wanted' = [wanted EXCEPT ![f] = content]
      /\ last' = [last EXCEPT ![f] = None]
      /\ f \in raced' \/ \A i \in Installers : ~(run[i].pc = "rename" /\ FileOf(i) = f)
      /\ raced' \ {f} = raced \ {f} /\ raced' \subseteq Files
  BY DEF HostWrites, ConfigInv, Shape
<1>2. hostWrites' \in 0..MaxHostWrites
  BY InstallAssumption DEF HostWrites, ConfigInv, Shape
<1>3. ASSUME NEW i \in Installers
      PROVE  /\ run'[i] \in Run /\ run'[i].disturbed >= run[i].disturbed
             /\ run[i].pc \in Replacing /\ FileOf(i) = f
                  => run'[i].disturbed = run[i].disturbed + 1
             /\ run'[i].pc = run[i].pc /\ run'[i].path = run[i].path
             /\ run'[i].new = run[i].new /\ run'[i].existing = run[i].existing
             /\ run'[i].merged = run[i].merged /\ run'[i].attempt = run[i].attempt
             /\ run'[i].result = run[i].result
  <2>1. PICK p \in Run : p = run[i] /\ p.disturbed \in Nat
    BY <1>1 DEF Run
  <2>2. PICK d \in Nat : d = p.disturbed + 1 /\ d >= p.disturbed /\ p.disturbed >= p.disturbed
    BY <2>1
  <2>3. PICK q \in Run : /\ q = [p EXCEPT !.disturbed = d] /\ q.disturbed = d
                         /\ q.pc = p.pc /\ q.path = p.path /\ q.new = p.new
                         /\ q.existing = p.existing /\ q.merged = p.merged
                         /\ q.attempt = p.attempt /\ q.result = p.result
    <3>1. [p EXCEPT !.disturbed = d] \in Run
      BY DEF Run
    <3> QED
      BY <3>1 DEF Run
  <2>4. run'[i] = IF p.pc \in Replacing /\ FileOf(i) = f THEN q ELSE p
    BY <2>1, <2>2, <2>3 DEF HostWrites, Replacing
  <2> QED
    BY <2>1, <2>2, <2>3, <2>4
<1>4. run' \in [Installers -> Run]
  <2>1. run' = [i \in Installers |-> run'[i]]
    BY DEF HostWrites
  <2> QED
    BY <1>3, <2>1
<1>5. Shape'
  BY <1>1, <1>2, <1>4 DEF ConfigInv, Shape
<1>6. file'[f] = content /\ \A g \in Files : g # f => file'[g] = file[g]
  BY <1>1 DEF ConfigInv, Shape
<1>7. ASSUME NEW i \in Installers PROVE RunInv(i)'
  <2>1. FileOf(i)' = FileOf(i)
    BY <1>3 DEF FileOf
  <2>2. run[i].disturbed \in Nat /\ run'[i].disturbed \in Nat /\ run[i].attempt \in 0..2
    BY <1>1, <1>3 DEF Run
  <2>3. run'[i].disturbed >= 3 \/ ~(run[i].disturbed >= 3)
    BY <1>3, <2>2
  <2>4. run[i].pc \in Working => run[i].disturbed >= run[i].attempt
    BY DEF ConfigInv, RunInv
  <2>5. run[i].pc \in Working => run'[i].disturbed >= run[i].attempt
    BY <1>3, <2>2, <2>4
  <2>6. ASSUME run[i].pc \in Replacing
        PROVE  file'[FileOf(i)] = run[i].existing \/ run'[i].disturbed > run[i].attempt
    <3>1. FileOf(i) \in Files /\ run[i].disturbed >= run[i].attempt
      BY <2>6 DEF ConfigInv, RunInv, Working, Replacing
    <3>2. CASE FileOf(i) = f
      BY <1>3, <2>2, <2>6, <3>1, <3>2
    <3>3. CASE FileOf(i) # f
      <4>1. file[FileOf(i)] = run[i].existing \/ run[i].disturbed > run[i].attempt
        BY <2>6 DEF ConfigInv, RunInv
      <4> QED
        BY <1>3, <1>6, <2>2, <3>1, <3>3, <4>1
    <3> QED
      BY <3>2, <3>3
  <2>7. ASSUME run[i].pc = "rename"
        PROVE  file'[FileOf(i)] = run[i].existing \/ FileOf(i) \in raced'
    <3>1. FileOf(i) \in Files /\ (file[FileOf(i)] = run[i].existing \/ FileOf(i) \in raced)
      BY <2>7 DEF ConfigInv, RunInv, Working
    <3> QED
      BY <1>1, <1>6, <2>7, <3>1
  <2>8. RunInv(i)
    BY DEF ConfigInv
  <2> QED
    BY <1>1, <1>3, <2>1, <2>3, <2>5, <2>6, <2>7, <2>8 DEF RunInv
<1>8. LockInv'
  <2>1. ASSUME NEW g \in Files, lock[g] # None
        PROVE  run'[lock[g]].pc \in Working /\ ResolvePath(run'[lock[g]].path) = g
    <3>1. PICK i \in Installers : i = lock[g]
      BY <2>1 DEF ConfigInv, Shape
    <3> QED
      BY <1>3, <2>1, <3>1 DEF ConfigInv, LockInv, FileOf
  <2> QED
    BY <1>1, <2>1 DEF LockInv, FileOf
<1>9. ASSUME NEW g \in Files PROVE FileInv(g)'
  <2>1. CASE g = f
    <3>1. wanted'[f] = content /\ last'[f] = None
      BY <1>1 DEF ConfigInv, Shape
    <3> QED
      BY <1>6, <2>1, <3>1 DEF FileInv
  <2>2. CASE g # f
    <3>1. wanted'[g] = wanted[g] /\ last'[g] = last[g] /\ (g \in raced' <=> g \in raced)
      BY <1>1, <2>2 DEF ConfigInv, Shape
    <3> QED
      BY <1>6, <2>2, <3>1 DEF ConfigInv, FileInv
  <2> QED
    BY <2>1, <2>2
<1> QED
  BY <1>4, <1>5, <1>7, <1>8, <1>9 DEF ConfigInv

LEMMA HostKeeps ==
  ASSUME ConfigInv, NEW f \in Files, NEW content \in HostContents, HostWrites(f, content)
  PROVE  ConfigInv'
<1>1. CASE content \in {Missing, Broken}
  BY <1>1, HostWritesKeeps DEF Contents, AllInTime, Ours
<1>2. CASE content \notin {Missing, Broken}
  <2>1. PICK l \in Layouts :
          content = [rest |-> hostWrites + 1, form |-> l.form, misfit |-> l.misfit,
                     hooks |-> l.hooks]
    BY <1>2 DEF HostContents
  <2>2. PICK hooks : /\ hooks = l.hooks /\ hooks \in Seq({hooks[n] : n \in DOMAIN hooks})
                     /\ l.form \in Forms /\ l.misfit \in Misfits
                     /\ \A n \in DOMAIN hooks : hooks[n].tool \in Agents => Timely(hooks[n])
    BY LayoutsAssumption
  <2>3. hooks \in Seq(Foreign)
    <3>1. PICK T : T = {hooks[n] : n \in DOMAIN hooks}
      OBVIOUS
    <3>2. T \subseteq Foreign
      BY <2>2, <3>1 DEF Foreign
    <3>3. hooks \in Seq(T)
      BY <2>2, <3>1
    <3>4. hooks \in [1..Len(hooks) -> T] /\ Len(hooks) \in Nat
      BY <3>3, LenProperties
    <3>5. hooks \in [1..Len(hooks) -> Foreign]
      BY <3>2, <3>4
    <3> QED
      BY <3>4, <3>5, IsASeq
  <2>4. content \in Config /\ content.hooks = hooks
    <3>1. hooks \in Seq(Foreign \cup Own \cup {None})
      BY <2>3, SeqMonotonic
    <3>2. hostWrites + 1 \in Nat
      BY DEF ConfigInv, Shape
    <3> QED
      BY <2>1, <2>2, <3>1, <3>2 DEF Config
  <2>5. AllInTime(content)
    <3>1. Ours(content, Agents) = Places(hooks, Agents)
      BY <2>4, OfConfig
    <3>2. ASSUME NEW n \in Places(hooks, Agents) PROVE Timely(hooks[n])
      BY <2>2 DEF Places
    <3> QED
      BY <2>4, <3>1, <3>2 DEF AllInTime, InTime
  <2> QED
    BY <2>4, <2>5, HostWritesKeeps DEF Contents
<1> QED
  BY <1>1, <1>2

-----------------------------------------------------------------------------
LEMMA InitHolds == Init => ConfigInv
<1> SUFFICES ASSUME Init PROVE ConfigInv
  OBVIOUS
<1>1. Ready \in Run
  BY DEF Ready, Run, PathNames, Results
<1>2. Missing \in Contents
  BY DEF Contents
<1>3. Shape
  BY <1>1, <1>2, InstallAssumption DEF Init, Shape
<1>4. ASSUME NEW i \in Installers PROVE RunInv(i)
  BY NoneAssumption DEF Init, RunInv, Ready, Working, Replacing
<1>5. LockInv
  BY DEF Init, LockInv
<1>6. ASSUME NEW f \in Files PROVE FileInv(f)
  BY DEF Init, FileInv, AllInTime, Ours
<1> QED
  BY <1>3, <1>4, <1>5, <1>6 DEF ConfigInv

LEMMA Inductive == ConfigInv /\ [Next]_vars => ConfigInv'
<1> SUFFICES ASSUME ConfigInv, [Next]_vars PROVE ConfigInv'
  OBVIOUS
<1>1. ASSUME NEW i \in Installers, Install(i) \/ Write(i) \/ ReplaceFails(i) \/ Crash(i)
      PROVE  ConfigInv'
  BY <1>1, InstallKeeps, LockKeeps, ReadKeeps, CompareKeeps, RenameKeeps,
     ReplaceFailsKeeps, CrashKeeps DEF Write
<1>2. CASE Host
  BY <1>2, HostKeeps DEF Host
<1>3. CASE UNCHANGED vars
  BY <1>3 DEF vars, ConfigInv, Shape, RunInv, FileOf, LockInv, FileInv
<1> QED
  BY <1>1, <1>2, <1>3 DEF Next, AllDone

LEMMA ConfigInvHolds == Spec => []ConfigInv
BY InitHolds, Inductive, PTL DEF Spec

LEMMA FilesFollow == ConfigInv => FilesInv
<1> SUFFICES ASSUME ConfigInv PROVE FilesInv
  OBVIOUS
<1>1. ASSUME NEW i \in Installers
      PROVE  /\ run[i].pc \in {"ready", "lock", "read", "compare", "temp", "rename", "done"}
             /\ run[i].attempt \in 0..2
             /\ run[i].pc \in {"read", "compare", "temp", "rename"}
                  <=> \E f \in Files : lock[f] = i
  <2>1. run[i].pc \in {"ready", "lock", "read", "compare", "temp", "rename", "done"}
        /\ run[i].attempt \in 0..2
    BY DEF ConfigInv, Shape, Run, Working
  <2>2. run[i].pc \in Working <=> \E f \in Files : lock[f] = i
    <3>1. ASSUME run[i].pc \in Working PROVE \E f \in Files : lock[f] = i
      BY <3>1 DEF ConfigInv, RunInv
    <3>2. ASSUME NEW f \in Files, lock[f] = i PROVE run[i].pc \in Working
      BY <3>2, NoneAssumption DEF ConfigInv, LockInv
    <3> QED
      BY <3>1, <3>2
  <2> QED
    BY <2>1, <2>2 DEF Working
<1>2. TypeOK
  BY <1>1 DEF ConfigInv, Shape, TypeOK
<1>3. HostConfigKept
  BY DEF ConfigInv, FileInv, HostConfigKept, OfHost
<1>4. DeadlineUnderTimeout
  BY DEF ConfigInv, FileInv, AllInTime, InTime, DeadlineUnderTimeout
<1> QED
  BY <1>2, <1>3, <1>4 DEF FilesInv

LEMMA SuccessFollows == ConfigInv => SuccessStands
BY DEF ConfigInv, FileInv, Stands, SuccessStands

LEMMA GivesUpFollows == ConfigInv => GivesUpOnlyWhenSpoiled
BY DEF ConfigInv, RunInv, GivesUpOnlyWhenSpoiled

-----------------------------------------------------------------------------
(* Whatever the agents, other tools and other commands do, what the host    *)
(* last made of a file is kept, but for the window before the rename and    *)
(* for what a merge takes from a file at rest (objects without hooks in the *)
(* list of groups, values in the place of the list, digits beyond 53 bits); *)
(* every openPE deadline in it can be met unless its timeout overflows; and *)
(* its lock is where it belongs.                                            *)
THEOREM FilesHold == Spec => []FilesInv
BY ConfigInvHolds, FilesFollow, PTL

(* A command that reported success has its hook in the file, alone, until   *)
(* somebody changes the file.                                               *)
THEOREM SuccessHolds == Spec => []SuccessStands
BY ConfigInvHolds, SuccessFollows, PTL

(* A command gives up as "kept changing" only after three spoiled           *)
(* replacements, for any number of commands at work on any files.           *)
THEOREM GivesUpHolds == Spec => []GivesUpOnlyWhenSpoiled
BY ConfigInvHolds, GivesUpFollows, PTL
=============================================================================
