---------------------------- MODULE ToolSurface ----------------------------
(***************************************************************************)
(* The tool surface of a cobra command tree (schema.go, commandtree.go)    *)
(* and what a tools/call on it runs (jsonrpc.go, grouphelp.go, runner.go). *)
(*                                                                         *)
(* A command is a number larger than its parent's; 0 is the root.  The     *)
(* tree is fixed once the server is built.  What is not fixed is cobra's   *)
(* own flag bookkeeping: cmd.Flags() holds a persistent flag (of the       *)
(* command or of an ancestor) only once some call on the command has       *)
(* merged it in, and Find, LocalFlags and InheritedFlags all do so.        *)
(*                                                                         *)
(* Dashed words among args, aliases and prefix matching are left out.      *)
(***************************************************************************)
EXTENDS Naturals, Sequences, FiniteSetsExt

CONSTANTS
  N,               \* bound: commands below the root
  MaxArgs,         \* bound: words in the args of a call
  Profiles,        \* the kinds of commands in the tree: a subset of Attributes
  SkipGroups,      \* may a command with subcommands be hidden or Skip'd?
  RunnableGroups   \* may a command with subcommands be runnable itself?

ASSUME NAssumption == N \in Nat /\ MaxArgs \in Nat

Command == 1..N
Word == N + 1  \* a word of args that names no command
Help == N + 2  \* the word "help"
Attributes == [excluded : BOOLEAN, runnable : BOOLEAN, exposed : BOOLEAN,
               yes : {"none", "local", "persistent"}, destructive : BOOLEAN]

ASSUME ProfilesAssumption == Profiles \subseteq Attributes

Args == UNION {[1..k -> Command \cup {Help, Word}] : k \in 0..MaxArgs}

VARIABLES
  parent, attr,  \* the command tree
  serving,       \* has newServer built the tool list?
  tools,
  merged,        \* commands whose Flags() include the persistent flags
  last           \* what the last call did

vars == <<parent, attr, serving, tools, merged, last>>

HasSubs(c) == \E d \in Command : parent[d] = c

Ancestors(c) ==
  LET up[d \in 0..N] == IF d = 0 THEN {} ELSE {parent[d]} \cup up[parent[d]]
  IN  up[c]

Tool == [cmd : Command, group : BOOLEAN, hint : BOOLEAN]
NoCall == [kind |-> "none"]
HelpShown(t) == [kind |-> "help", tool |-> t]
Ran(t, target, found, confirm) ==
  [kind |-> "run", tool |-> t, target |-> target, found |-> found, confirm |-> confirm]

TypeOK ==
  /\ parent \in [Command -> 0..N] /\ attr \in [Command -> Attributes]
  /\ serving \in BOOLEAN /\ tools \subseteq Tool /\ merged \subseteq Command
  /\ \/ last = NoCall
     \/ \E t \in tools : last = HelpShown(t)
     \/ \E t \in tools, c, d \in Command, b \in BOOLEAN :
           last = Ran(t, c, d, b) /\ attr[c].runnable

\* A command's own --yes and mcp.destructive matter where it is runnable, a
\* persistent --yes where it has subcommands.
Init ==
  /\ parent \in {p \in [Command -> 0..N] : \A c \in Command : p[c] < c}
  /\ attr \in [Command -> Profiles]
  /\ \A c \in Command :
       /\ HasSubs(c) => /\ attr[c].excluded => SkipGroups
                        /\ attr[c].runnable => RunnableGroups
       /\ ~ attr[c].runnable => attr[c].yes # "local" /\ ~ attr[c].destructive
       /\ attr[c].yes = "persistent" => HasSubs(c)
  /\ serving = FALSE /\ tools = {} /\ merged = {} /\ last = NoCall

-----------------------------------------------------------------------------
(***************************************************************************)
(* commandtree.go                                                          *)
(***************************************************************************)

\* What anyCommand reaches from c: descendants with no excluded command on the
\* way, themselves included.
Reach(c) ==
  {d \in Command : c \in Ancestors(d) /\
     \A x \in {d} \cup Ancestors(d) : c \in Ancestors(x) => ~ attr[x].excluded}

AnyExposed == \E c \in Reach(0) : attr[c].exposed

HasRunnableSub(c) == \E d \in Reach(c) : attr[d].runnable

\* commandConfirms: cmd.Flags().Lookup("yes"), given the commands in m merged.
Confirms(c, m) ==
  \/ attr[c].yes = "local"
  \/ c \in m /\ \E a \in ({c} \cup Ancestors(c)) \ {0} : attr[a].yes = "persistent"

Destructive(c, m) == Confirms(c, m) \/ attr[c].destructive

-----------------------------------------------------------------------------
(***************************************************************************)
(* schema.go: buildTools                                                   *)
(***************************************************************************)

\* toolFor merges the command's flags (visitFlags) before it reads the hint.
ToolFor(c) == [cmd |-> c, group |-> FALSE, hint |-> Destructive(c, {c})]

\* Mutant of ToolForGroup: only the immediate subcommands are asked.
ToolForGroupShallow(c) ==
  [cmd |-> c, group |-> TRUE,
   hint |-> \E d \in Reach(c) : parent[d] = c /\ Destructive(d, {})]

ToolForGroup(c) ==
  [cmd |-> c, group |-> TRUE, hint |-> \E d \in Reach(c) : Destructive(d, {})]

LegacyTools == {ToolFor(c) : c \in {d \in Reach(0) : attr[d].runnable}}

\* Mutant of Boundaries: the walk descends into exposed nodes.
BoundariesNested == {c \in Reach(0) : attr[c].exposed}

\* The exposed commands the walk meets: it does not descend into one.
Boundaries ==
  {c \in Reach(0) : attr[c].exposed /\ \A a \in Ancestors(c) \ {0} : ~ attr[a].exposed}

ExposedTools ==
  {ToolForGroup(c) : c \in {d \in Boundaries : HasRunnableSub(d)}}
    \cup {ToolFor(c) : c \in {d \in Boundaries : attr[d].runnable /\ ~ HasRunnableSub(d)}}

\* Mutant of BuildTools: nothing exposed below the root's own subcommands
\* counts, so the fallback is taken.
BuildToolsFallback ==
  IF \E c \in Boundaries : parent[c] = 0 THEN ExposedTools ELSE LegacyTools

BuildTools == IF AnyExposed THEN ExposedTools ELSE LegacyTools

\* newServer.
Build ==
  /\ ~ serving
  /\ serving' = TRUE
  /\ tools' = BuildTools
  /\ merged' = {t.cmd : t \in {u \in tools' : ~ u.group}}
  /\ UNCHANGED <<parent, attr, last>>

-----------------------------------------------------------------------------
(***************************************************************************)
(* jsonrpc.go: callTool, with cobra's Find                                 *)
(***************************************************************************)

\* Mutant of Listed: sub-groups are listed, what is in them is not.
ListedShallow(g) == {d \in Reach(g) : parent[d] = g}

\* groupHelp: the subcommands listed, descending where something is runnable.
Listed(g) ==
  {d \in Reach(g) :
     \A x \in Ancestors(d) : g \in Ancestors(x) => HasRunnableSub(x)}

\* The flags groupHelp merges: InheritedFlags of the group, LocalFlags of each
\* runnable command listed.
HelpMerges(g) == {g} \cup {d \in Listed(g) : attr[d].runnable}

\* How many words of args Find follows from c, each a subcommand of the last.
Depth(c, args) ==
  Max({k \in 0..Len(args) :
         \A i \in 1..k : /\ args[i] \in Command
                         /\ parent[args[i]] = IF i = 1 THEN c ELSE args[i - 1]})

At(c, args, k) == IF k = 0 THEN c ELSE args[k]

Find(c, args) == At(c, args, Depth(c, args))

\* stripFlags merges the flags of each command it meets with words left.
FindMerges(c, args) ==
  {At(c, args, k) : k \in {i \in 0..Depth(c, args) : i < Len(args)}}

\* Mutant of Dispatchable: excluded subcommands are run.
DispatchableExcluded(g, found) == found # g /\ attr[found].runnable

\* Mutant of Dispatchable: a sub-group without a RunE is run.
DispatchableGroup(g, found) == found # g /\ ~ attr[found].excluded

Dispatchable(g, found) ==
  found # g /\ ~ attr[found].excluded /\ attr[found].runnable

AsksHelp(args) == args = <<>> \/ (args # <<>> /\ args[1] = Help)

\* help, no subcommand, or one that is unknown, excluded or not runnable.
CallHelp(t, args) ==
  /\ serving /\ t.group
  /\ AsksHelp(args) \/ ~ Dispatchable(t.cmd, Find(t.cmd, args))
  /\ merged' = merged \cup HelpMerges(t.cmd)
                      \cup IF AsksHelp(args) THEN {} ELSE FindMerges(t.cmd, args)
  /\ last' = HelpShown(t)
  /\ UNCHANGED <<parent, attr, serving, tools>>

\* A group runs the subcommand Find resolves; --yes is decided on it.
CallGroup(t, args) ==
  LET found == Find(t.cmd, args) IN
  /\ serving /\ t.group /\ ~ AsksHelp(args)
  /\ Dispatchable(t.cmd, found)
  /\ merged' = merged \cup FindMerges(t.cmd, args)
  /\ last' = Ran(t, found, found, Confirms(found, merged'))
  /\ UNCHANGED <<parent, attr, serving, tools>>

\* A leaf runs with --yes decided on itself; the child process gets its path
\* and the args, and cobra resolves that again.
CallLeaf(t, args) ==
  /\ serving /\ ~ t.group
  /\ last' = Ran(t, t.cmd, Find(t.cmd, args), Confirms(t.cmd, merged))
  /\ UNCHANGED <<parent, attr, serving, tools, merged>>

Next ==
  \/ Build
  \/ \E t \in tools, args \in Args :
        CallHelp(t, args) \/ CallGroup(t, args) \/ CallLeaf(t, args)

Spec == Init /\ [][Next]_vars

-----------------------------------------------------------------------------
(***************************************************************************)
(* Properties                                                              *)
(***************************************************************************)

\* design.md: "By the time a tools/call arrives, host confirmation has already
\* happened": --yes is injected only on a tool whose destructiveHint told the
\* host to confirm, whatever calls came before.
ConfirmHasHint == last.kind = "run" /\ last.confirm => last.tool.hint

\* A hidden, plumbing or Skip'd group lies between g and d.
Masked(g, d) == \E x \in Ancestors(d) : g \in Ancestors(x) /\ attr[x].excluded

PersistentYes(d) == \E a \in ({d} \cup Ancestors(d)) \ {0} : attr[a].yes = "persistent"

\* The same for every tree: --yes without the hint is injected only by a group tool,
\* on a command below an excluded group, which the walk behind the hint does not
\* enter, or with a persistent --yes, which that walk does not see.
HintGaps ==
  last.kind = "run" /\ last.confirm /\ ~ last.tool.hint =>
    last.tool.group /\ (Masked(last.tool.cmd, last.found) \/ PersistentYes(last.found))

\* schema.go:46 "Hidden, plumbing, and Skip'd commands are always excluded": no
\* call runs such a command, or one in the subtree it masks, but for a group tool's
\* below an excluded group, and for the subcommands of a runnable group that is a
\* tool of its own.
ExcludedNeverRuns ==
  last.kind = "run" /\ attr[last.found].runnable /\ last.found \notin Reach(0) =>
    IF last.tool.group
      THEN ~ attr[last.found].excluded /\ Masked(last.tool.cmd, last.found)
      ELSE attr[last.tool.cmd].runnable /\ last.tool.cmd \in Ancestors(last.found)

\* grouphelp.go:13 "so an agent can discover the dispatch surface": what a group
\* tool runs, its help lists, but for what is below an excluded group.
HelpIsComplete ==
  last.kind = "run" /\ last.tool.group =>
    last.found \in Listed(last.tool.cmd) \/ Masked(last.tool.cmd, last.found)

\* annotations.go:25 "the agent-facing surface is only what you Expose": one
\* exposed command, not itself hidden nor below an excluded group, and no unexposed
\* one is a tool.
OptInSurface ==
  serving /\ (\E c \in Command : attr[c].exposed /\ ~ attr[c].excluded /\ ~ Masked(0, c))
    => \A t \in tools : attr[t.cmd].exposed

\* schema.go:74 "its subtree is reached through it, not as more tools": with an
\* opt-in surface no tool lies below another.
BoundariesDisjoint ==
  AnyExposed => \A t, u \in tools : t.cmd \notin Ancestors(u.cmd)
=============================================================================
