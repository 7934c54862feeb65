------------------------- MODULE ToolSurfaceProofs -------------------------
(***************************************************************************)
(* The invariants of ToolSurface, for every command tree, profile of       *)
(* commands and sequence of calls.  Hidden or Skip'd commands with         *)
(* subcommands, runnable ones and persistent --yes flags are all allowed:  *)
(* the properties say which calls they affect, and the run                 *)
(* surface_skip_group shows such a call.                                   *)
(***************************************************************************)
EXTENDS ToolSurface, Induction

\* The command tree, as the CLI built it.
Tree ==
  /\ parent \in [Command -> 0..N] /\ \A c \in Command : parent[c] < c
  /\ attr \in [Command -> Profiles]
  /\ \A c \in Command :
       /\ HasSubs(c) => /\ attr[c].excluded => SkipGroups
                        /\ attr[c].runnable => RunnableGroups

-----------------------------------------------------------------------------
(***************************************************************************)
(* Ancestors and Find                                                      *)
(***************************************************************************)

\* f holds the ancestors of the commands up to k.
Up(f, k) == f = [d \in 0..k |-> IF d = 0 THEN {} ELSE {parent[d]} \cup f[parent[d]]]

\* The recursion of Ancestors has a solution, for a parent comes before its
\* children.
LEMMA UpExists ==
  ASSUME Tree PROVE \E f : Up(f, N)
<1> DEFINE G == {k \in Nat : k <= N => \E f : Up(f, k)}
<1>1. 0 \in G
  <2>1. Up([d \in 0..0 |-> {}], 0)
    BY DEF Up
  <2>2. QED
    BY <2>1
<1>2. ASSUME NEW k \in Nat, k \in G PROVE k + 1 \in G
  <2> SUFFICES ASSUME k + 1 <= N PROVE \E f : Up(f, k + 1)
    OBVIOUS
  <2>0. k <= N
    BY NAssumption
  <2>1. PICK f : Up(f, k)
    BY <1>2, <2>0
  <2>2. parent[k + 1] \in 0..k /\ k + 1 \in Command
    BY NAssumption DEF Tree, Command
  <2> DEFINE g == [d \in 0..(k + 1) |-> IF d = k + 1 THEN {parent[k + 1]} \cup f[parent[k + 1]]
                                        ELSE f[d]]
  <2>3. \A d \in 0..k : g[d] = f[d]
    OBVIOUS
  <2>4. g[k + 1] = {parent[k + 1]} \cup f[parent[k + 1]]
    OBVIOUS
  <2>5. g = [d \in 0..(k + 1) |-> g[d]]
    OBVIOUS
  <2> HIDE DEF g
  <2>6. \A d \in 0..(k + 1) : g[d] = IF d = 0 THEN {} ELSE {parent[d]} \cup g[parent[d]]
    <3> SUFFICES ASSUME NEW d \in 0..(k + 1)
                 PROVE  g[d] = IF d = 0 THEN {} ELSE {parent[d]} \cup g[parent[d]]
      OBVIOUS
    <3>1. CASE d = k + 1
      <4>1. d # 0 /\ g[parent[k + 1]] = f[parent[k + 1]]
        BY <2>2, <2>3, <3>1
      <4>2. g[d] = {parent[d]} \cup g[parent[d]]
        BY <2>4, <3>1, <4>1
      <4>3. QED
        BY <4>1, <4>2
    <3>2. CASE d \in 0..k
      <4>1. f[d] = IF d = 0 THEN {} ELSE {parent[d]} \cup f[parent[d]]
        BY <2>1, <3>2, Zenon DEF Up
      <4>2. d # 0 => parent[d] \in 0..k
        BY <3>2, <2>0, NAssumption DEF Tree, Command
      <4>3. QED
        BY <2>3, <3>2, <4>1, <4>2
    <3>3. QED
      BY <3>1, <3>2
  <2>7. Up(g, k + 1)
    BY <2>5, <2>6, Zenon DEF Up
  <2>8. QED
    BY <2>7
<1>3. Nat \subseteq G
  <2> HIDE DEF G
  <2>1. QED
    BY <1>1, <1>2, NatInd
<1>4. QED
  BY <1>3, NAssumption

\* A command's ancestors are its parent and the parent's ancestors.
LEMMA AncestorsUp ==
  ASSUME Tree
  PROVE  /\ Ancestors(0) = {}
         /\ \A c \in Command : Ancestors(c) = {parent[c]} \cup Ancestors(parent[c])
<1> DEFINE up == CHOOSE f : Up(f, N)
<1>1. Up(up, N)
  BY UpExists
<1>2. \A c : Ancestors(c) = up[c]
  BY DEF Ancestors, Up
<1> HIDE DEF up
<1>3. \A d \in 0..N : up[d] = IF d = 0 THEN {} ELSE {parent[d]} \cup up[parent[d]]
  BY <1>1, Zenon DEF Up
<1>4. 0 \in 0..N /\ \A c \in Command : c \in 0..N /\ c # 0
  BY NAssumption DEF Command
<1>5. up[0] = {} /\ \A c \in Command : up[c] = {parent[c]} \cup up[parent[c]]
  BY <1>3, <1>4, Zenon
<1>6. QED
  BY <1>2, <1>5, Zenon

\* Ancestors come before the command, the root is one, each has a subcommand,
\* their ancestors are the command's too, and of two one is above the other.
LEMMA AncestorsFacts ==
  ASSUME Tree, NEW c \in Command
  PROVE  /\ \A a \in Ancestors(c) : a \in 0..N /\ a < c
         /\ 0 \in Ancestors(c)
         /\ \A a \in Ancestors(c) : \E d \in Command : parent[d] = a
         /\ \A b \in Ancestors(c) : Ancestors(b) \subseteq Ancestors(c)
         /\ \A a, b \in Ancestors(c) : a = b \/ a \in Ancestors(b) \/ b \in Ancestors(a)
<1> DEFINE Q(d) == /\ \A a \in Ancestors(d) : a \in 0..N /\ a < d
                   /\ d # 0 => 0 \in Ancestors(d)
                   /\ \A a \in Ancestors(d) : \E e \in Command : parent[e] = a
                   /\ \A b \in Ancestors(d) : Ancestors(b) \subseteq Ancestors(d)
                   /\ \A a, b \in Ancestors(d) :
                        a = b \/ a \in Ancestors(b) \/ b \in Ancestors(a)
           G == {k \in Nat : \A d \in 0..N : d <= k => Q(d)}
<1>1. 0 \in G
  <2>1. Q(0)
    BY AncestorsUp
  <2>2. \A d \in 0..N : d <= 0 => d = 0
    BY NAssumption
  <2> HIDE DEF Q
  <2>3. QED
    BY <2>1, <2>2
<1>2. ASSUME NEW k \in Nat, k \in G PROVE k + 1 \in G
  <2> SUFFICES ASSUME NEW d \in 0..N, d <= k + 1 PROVE Q(d)
    OBVIOUS
  <2>1. CASE d <= k
    BY <1>2, <2>1
  <2>2. CASE d = k + 1
    <3>1. d \in Command /\ parent[d] \in 0..N /\ parent[d] < d /\ parent[d] <= k
      BY <2>2, NAssumption DEF Tree, Command
    <3>2. Q(parent[d])
      BY <1>2, <3>1
    <3>3. Ancestors(d) = {parent[d]} \cup Ancestors(parent[d])
      BY <3>1, AncestorsUp
    <3>4. QED
      BY <3>1, <3>2, <3>3, NAssumption
  <2>3. QED
    BY <2>1, <2>2, NAssumption
<1>3. Nat \subseteq G
  <2> HIDE DEF G
  <2>1. QED
    BY <1>1, <1>2, NatInd
<1>4. Q(c)
  <2> HIDE DEF Q
  <2>1. N \in G /\ c \in 0..N /\ c <= N
    BY <1>3, NAssumption DEF Command
  <2>2. QED
    BY <2>1
<1>5. QED
  BY <1>4, NAssumption DEF Command

\* The words that Find follows lead from each command to one of its
\* subcommands.
LEMMA DepthFacts ==
  ASSUME Tree, NEW c \in Command, NEW args \in Args
  PROVE  /\ Len(args) \in Nat /\ Depth(c, args) \in 0..Len(args)
         /\ \A i \in 1..Depth(c, args) :
              /\ args[i] \in Command
              /\ parent[args[i]] = IF i = 1 THEN c ELSE args[i - 1]
<1> DEFINE S == {k \in 0..Len(args) :
                   \A i \in 1..k : /\ args[i] \in Command
                                   /\ parent[args[i]] = IF i = 1 THEN c ELSE args[i - 1]}
<1>1. Len(args) \in Nat
  <2>1. PICK k \in 0..MaxArgs : args \in [1..k -> Command \cup {Help, Word}]
    BY DEF Args
  <2>2. k \in Nat
    BY NAssumption
  <2>3. QED
    BY <2>1, <2>2
<1>2. 0 \in S /\ S \in SUBSET (0..Len(args))
  BY <1>1
<1>3. Depth(c, args) = Max(S)
  BY DEF Depth
<1>4. Max(S) \in S
  <2> HIDE DEF S
  <2>1. \E x \in S : \A y \in S : x >= y
    BY <1>1, <1>2, Greatest
  <2>2. QED
    BY <2>1 DEF Max
<1>5. Depth(c, args) \in S
  BY <1>3, <1>4
<1>6. QED
  BY <1>1, <1>5

\* Find ends at the command itself or below it, and merges flags of commands.
LEMMA FindFacts ==
  ASSUME Tree, NEW c \in Command, NEW args \in Args
  PROVE  /\ FindMerges(c, args) \subseteq Command
         /\ Find(c, args) \in Command
         /\ Find(c, args) = c \/ c \in Ancestors(Find(c, args))
<1> DEFINE n == Depth(c, args)
           G == {k \in Nat : 1 <= k /\ k <= n => args[k] \in Command /\ c \in Ancestors(args[k])}
<1>1. n \in Nat /\ \A i \in 1..n : /\ args[i] \in Command
                                   /\ parent[args[i]] = IF i = 1 THEN c ELSE args[i - 1]
  BY DepthFacts
<1> HIDE DEF n
<1>2. 0 \in G
  OBVIOUS
<1>3. ASSUME NEW k \in Nat, k \in G PROVE k + 1 \in G
  <2> SUFFICES ASSUME k + 1 <= n PROVE args[k + 1] \in Command /\ c \in Ancestors(args[k + 1])
    OBVIOUS
  <2> DEFINE d == args[k + 1]
  <2>1. d \in Command /\ parent[d] = IF k + 1 = 1 THEN c ELSE args[(k + 1) - 1]
    BY <1>1
  <2>2. Ancestors(d) = {parent[d]} \cup Ancestors(parent[d])
    BY <2>1, AncestorsUp
  <2>3. CASE k = 0
    BY <2>1, <2>2, <2>3
  <2>4. CASE k # 0
    <3>1. c \in Ancestors(args[k]) /\ parent[d] = args[k]
      BY <1>1, <1>3, <2>1, <2>4
    <3>2. QED
      BY <2>1, <2>2, <3>1
  <2>5. QED
    BY <2>3, <2>4
<1>4. Nat \subseteq G
  <2> HIDE DEF G
  <2>1. QED
    BY <1>2, <1>3, NatInd
<1>5. Find(c, args) \in Command /\ (Find(c, args) = c \/ c \in Ancestors(Find(c, args)))
  BY <1>1, <1>4 DEF Find, At, n
<1>6. FindMerges(c, args) \subseteq Command
  BY <1>1 DEF FindMerges, At, n
<1>7. QED
  BY <1>5, <1>6

-----------------------------------------------------------------------------
(***************************************************************************)
(* Tools                                                                   *)
(***************************************************************************)

\* Ancestors, of a given tree.
AncestorsIn(p, c) ==
  LET up[d \in 0..N] == IF d = 0 THEN {} ELSE {p[d]} \cup up[p[d]]
  IN  up[c]

\* What depends on the tree alone never changes.
LEMMA Fixed ==
  ASSUME UNCHANGED <<parent, attr>>
  PROVE  /\ \A c : Ancestors(c)' = Ancestors(c) /\ Reach(c)' = Reach(c)
         /\ \A c, m : Confirms(c, m)' = Confirms(c, m)
         /\ BuildTools' = BuildTools /\ Tree' = Tree
<1>1. \A c : Ancestors(c) = AncestorsIn(parent, c) /\ Ancestors(c)' = AncestorsIn(parent', c)
  BY DEF Ancestors, AncestorsIn
<1>2. \A c : Ancestors(c)' = Ancestors(c)
  BY <1>1
<1>3. \A c : Reach(c)' = Reach(c)
  BY <1>2 DEF Reach
<1>4. \A c, m : Confirms(c, m)' = Confirms(c, m)
  BY <1>2 DEF Confirms
<1>5. \A c : ToolFor(c)' = ToolFor(c) /\ ToolForGroup(c)' = ToolForGroup(c)
  BY <1>3, <1>4 DEF ToolFor, ToolForGroup, Destructive
<1>6. \A c : HasRunnableSub(c)' = HasRunnableSub(c)
  BY <1>3 DEF HasRunnableSub
<1>7. Boundaries' = Boundaries
  BY <1>2, <1>3 DEF Boundaries
<1>8. LegacyTools' = LegacyTools
  BY <1>3, <1>5 DEF LegacyTools
<1>9. ExposedTools' = ExposedTools
  BY <1>5, <1>6, <1>7 DEF ExposedTools
<1>10. AnyExposed' = AnyExposed
  BY <1>3 DEF AnyExposed
<1>11. Tree' = Tree
  BY DEF Tree, HasSubs
<1>12. QED
  BY <1>2, <1>3, <1>4, <1>8, <1>9, <1>10, <1>11 DEF BuildTools

\* A tool stands for a command no excluded one masks, with the hint that schema.go
\* computes; a leaf tool's command is runnable.
Sound(t) ==
  /\ t \in Tool /\ t.cmd \in Reach(0)
  /\ t.group => t = ToolForGroup(t.cmd)
  /\ ~ t.group => t = ToolFor(t.cmd) /\ attr[t.cmd].runnable

\* buildTools makes such tools, on both surfaces.
LEMMA ToolsSound ==
  ASSUME Tree, NEW t \in BuildTools PROVE Sound(t)
<1>1. ASSUME NEW c \in Reach(0), attr[c].runnable PROVE Sound(ToolFor(c))
  <2>1. /\ ToolFor(c).cmd = c /\ ToolFor(c).group = FALSE
        /\ ToolFor(c) = [cmd |-> c, group |-> FALSE, hint |-> Destructive(c, {c})]
    BY DEF ToolFor
  <2>2. Destructive(c, {c}) \in BOOLEAN
    BY Zenon DEF Destructive
  <2>3. c \in Command
    BY DEF Reach
  <2>4. ToolFor(c) \in Tool
    BY <2>1, <2>2, <2>3 DEF Tool
  <2>5. QED
    BY <1>1, <2>1, <2>4 DEF Sound
<1>2. ASSUME NEW c \in Reach(0) PROVE Sound(ToolForGroup(c))
  <2> DEFINE h == \E d \in Reach(c) : Destructive(d, {})
  <2>1. ToolForGroup(c) = [cmd |-> c, group |-> TRUE, hint |-> h]
    BY DEF ToolForGroup
  <2>2. h \in BOOLEAN
    BY Zenon
  <2>3. c \in Command
    BY DEF Reach
  <2> HIDE DEF h
  <2>4. ToolForGroup(c) \in Tool /\ ToolForGroup(c).cmd = c /\ ToolForGroup(c).group = TRUE
    BY <2>1, <2>2, <2>3 DEF Tool
  <2>5. QED
    BY <1>2, <2>4 DEF Sound
<1>3. Boundaries \subseteq Reach(0)
  BY DEF Boundaries
<1>4. QED
  BY <1>1, <1>2, <1>3 DEF BuildTools, ExposedTools, LegacyTools

\* Only an excluded command, or one below an excluded group, is out of reach.
LEMMA Unmasked ==
  ASSUME NEW c \in Command, ~ attr[c].excluded, NEW a \in Ancestors(c), ~ Masked(a, c)
  PROVE  c \in Reach(a)
  BY DEF Reach, Masked

\* What lies between a command below g and that command lies below g.
LEMMA MaskedBelow ==
  ASSUME Tree, NEW c \in Command, NEW g, NEW a \in Ancestors(c), g \in Ancestors(a), Masked(a, c)
  PROVE  Masked(g, c)
<1>1. PICK x \in Ancestors(c) : a \in Ancestors(x) /\ attr[x].excluded
  BY DEF Masked
<1>2. x \in Command
  <2>1. x \in 0..N /\ x # 0
    BY <1>1, AncestorsFacts, AncestorsUp
  <2>2. QED
    BY <2>1, NAssumption DEF Command
<1>3. g \in Ancestors(x)
  BY <1>1, <1>2, AncestorsFacts
<1>4. QED
  BY <1>1, <1>3 DEF Masked

\* With no excluded group in the tree, nothing is masked.
LEMMA NoMask ==
  ASSUME Tree, ~ SkipGroups, NEW c \in Command, NEW g
  PROVE  ~ Masked(g, c)
<1>1. \A x \in Ancestors(c) \ {0} : x \in Command /\ HasSubs(x)
  BY AncestorsFacts, NAssumption DEF Command, HasSubs
<1>2. \A x \in Ancestors(c) \ {0} : ~ attr[x].excluded
  BY <1>1 DEF Tree
<1>3. g \notin Ancestors(0)
  BY AncestorsUp
<1>4. QED
  BY <1>2, <1>3 DEF Masked

-----------------------------------------------------------------------------
(***************************************************************************)
(* The invariant and the theorems                                          *)
(***************************************************************************)

\* The tool list is built once, before any call.
Built ==
  \/ serving = FALSE /\ tools = {} /\ last = NoCall
  \/ serving = TRUE /\ tools = BuildTools

\* What the last call ran: a group's call a command below the group, not excluded
\* and runnable; a leaf's its own command, where cobra may resolve the args to a
\* subcommand.  --yes was decided with some flags merged, whichever.
Called ==
  \/ last = NoCall
  \/ \E t \in tools : last = HelpShown(t)
  \/ \E t \in tools, c, d \in Command, m \in SUBSET Command :
       /\ last = Ran(t, c, d, Confirms(c, m))
       /\ attr[c].runnable /\ c = (IF t.group THEN d ELSE t.cmd)
       /\ t.group => ~ attr[d].excluded /\ t.cmd \in Ancestors(d)
       /\ ~ t.group => d = t.cmd \/ t.cmd \in Ancestors(d)

\* The inductive invariant.
IInv == Tree /\ Built /\ Called /\ merged \subseteq Command

\* It holds before newServer.
LEMMA InitIInv == Init => IInv
<1> SUFFICES ASSUME Init PROVE IInv
  OBVIOUS
<1>1. Tree
  BY DEF Init, Tree
<1>2. QED
  BY <1>1 DEF Init, IInv, Built, Called

\* Every call keeps it.
LEMMA StepIInv == IInv /\ [Next]_vars => IInv'
<1> SUFFICES ASSUME IInv, [Next]_vars PROVE IInv'
  OBVIOUS
<1>0. /\ UNCHANGED <<parent, attr>> /\ Tree /\ Tree' /\ BuildTools' = BuildTools
      /\ \A c : Ancestors(c)' = Ancestors(c)
      /\ \A c, m : Confirms(c, m)' = Confirms(c, m)
  <2>1. UNCHANGED <<parent, attr>>
    BY DEF Next, Build, CallHelp, CallGroup, CallLeaf, vars
  <2>2. QED
    BY <2>1, Fixed DEF IInv
<1>1. CASE Build
  <2>1. tools' = BuildTools /\ serving' = TRUE /\ last' = NoCall
    BY <1>1 DEF Build, IInv, Built
  <2>2. merged' \subseteq Command
    <3>1. \A t \in tools' : t.cmd \in Command
      BY <1>0, <2>1, ToolsSound DEF Sound, Tool
    <3>2. QED
      BY <1>1, <3>1 DEF Build
  <2>3. QED
    BY <1>0, <2>1, <2>2 DEF IInv, Built, Called
<1>2. ASSUME NEW t \in tools
      PROVE  serving = TRUE /\ tools = BuildTools /\ Sound(t) /\ t.cmd \in Command
  <2>1. serving = TRUE /\ tools = BuildTools
    BY <1>2 DEF IInv, Built
  <2>2. QED
    BY <1>0, <1>2, <2>1, ToolsSound DEF Sound, Tool
<1>3. ASSUME NEW t \in tools, NEW args \in Args, CallHelp(t, args) PROVE IInv'
  <2>1. UNCHANGED <<serving, tools>> /\ last' = HelpShown(t)
    BY <1>3 DEF CallHelp
  <2>2. HelpMerges(t.cmd) \subseteq Command /\ FindMerges(t.cmd, args) \subseteq Command
    BY <1>0, <1>2, FindFacts DEF HelpMerges, Listed, Reach
  <2>3. merged' \subseteq Command
    BY <1>3, <2>2 DEF CallHelp, IInv
  <2>4. QED
    BY <1>0, <1>2, <2>1, <2>3 DEF IInv, Built, Called
<1>4. ASSUME NEW t \in tools, NEW args \in Args, CallGroup(t, args) PROVE IInv'
  <2>1. PICK c : c = Find(t.cmd, args)
    OBVIOUS
  <2>2. PICK m : m = merged'
    OBVIOUS
  <2>3. /\ UNCHANGED <<serving, tools>> /\ t.group
        /\ c # t.cmd /\ ~ attr[c].excluded /\ attr[c].runnable
        /\ m = merged \cup FindMerges(t.cmd, args)
        /\ last' = Ran(t, c, c, Confirms(c, m))
    BY <1>4, <2>1, <2>2 DEF CallGroup, Dispatchable
  <2>4. c \in Command /\ t.cmd \in Ancestors(c) /\ FindMerges(t.cmd, args) \subseteq Command
    BY <1>0, <1>2, <2>1, <2>3, FindFacts
  <2>5. m \in SUBSET Command
    BY <2>3, <2>4 DEF IInv
  <2>6. Called'
    BY <1>0, <2>3, <2>4, <2>5 DEF Called
  <2>7. QED
    BY <1>0, <1>2, <2>2, <2>3, <2>5, <2>6 DEF IInv, Built
<1>5. ASSUME NEW t \in tools, NEW args \in Args, CallLeaf(t, args) PROVE IInv'
  <2>1. PICK d : d = Find(t.cmd, args)
    OBVIOUS
  <2>2. PICK m : m = merged
    OBVIOUS
  <2>3. /\ UNCHANGED <<serving, tools, merged>> /\ ~ t.group
        /\ last' = Ran(t, t.cmd, d, Confirms(t.cmd, m))
    BY <1>5, <2>1, <2>2 DEF CallLeaf
  <2>4. /\ d \in Command /\ (d = t.cmd \/ t.cmd \in Ancestors(d)) /\ t.cmd \in Command
        /\ attr[t.cmd].runnable /\ m \in SUBSET Command
    BY <1>0, <1>2, <2>1, <2>2, <2>3, FindFacts DEF Sound, IInv
  <2>5. Called'
    BY <1>0, <2>3, <2>4 DEF Called
  <2>6. QED
    BY <1>0, <1>2, <2>3, <2>5 DEF IInv, Built
<1>6. CASE UNCHANGED vars
  <2>1. Called'
    BY <1>0, <1>6 DEF vars, IInv, Called
  <2>2. QED
    BY <1>0, <1>6, <2>1 DEF vars, IInv, Built
<1>7. QED
  BY <1>1, <1>3, <1>4, <1>5, <1>6 DEF Next

\* It holds in every reachable state.
THEOREM Inductive == Spec => []IInv
  BY InitIInv, StepIInv, PTL DEF Spec

\* Every variable holds a value of its kind, and a call runs a runnable command
\* or shows help.
THEOREM TypeCorrect == Spec => []TypeOK
<1>1. IInv => TypeOK
  <2> SUFFICES ASSUME IInv PROVE TypeOK
    OBVIOUS
  <2>1. tools \subseteq Tool
    BY ToolsSound DEF IInv, Built, Sound
  <2>2. serving \in BOOLEAN
    BY DEF IInv, Built
  <2>3. \A c, m : Confirms(c, m) \in BOOLEAN
    BY Zenon DEF Confirms
  <2>4. \/ last = NoCall
        \/ \E t \in tools : last = HelpShown(t)
        \/ \E t \in tools, c, d \in Command, b \in BOOLEAN :
              last = Ran(t, c, d, b) /\ attr[c].runnable
    BY <2>3 DEF IInv, Called
  <2>5. QED
    BY <2>1, <2>2, <2>4, ProfilesAssumption DEF IInv, Tree, TypeOK
<1>2. QED
  BY <1>1, Inductive, PTL

\* The parts of a call's record.
LEMMA RunFields ==
  /\ NoCall.kind # "run" /\ \A t : HelpShown(t).kind # "run"
  /\ \A t, c, d, b : /\ Ran(t, c, d, b).tool = t /\ Ran(t, c, d, b).found = d
                     /\ Ran(t, c, d, b).confirm = b
  BY DEF NoCall, HelpShown, Ran

\* What a call that ran something ran (from Called).
LEMMA RunOf ==
  ASSUME IInv, last.kind = "run"
  PROVE  LET t == last.tool
             d == last.found
         IN  /\ t \in tools /\ Sound(t) /\ d \in Command
             /\ t.group => ~ attr[d].excluded /\ t.cmd \in Ancestors(d) /\ attr[d].runnable
             /\ ~ t.group => /\ d = t.cmd \/ t.cmd \in Ancestors(d)
                             /\ attr[t.cmd].runnable
             /\ \E m \in SUBSET Command :
                  last.confirm = Confirms(IF t.group THEN d ELSE t.cmd, m)
<1>1. PICK t \in tools, c \in Command, d \in Command, m \in SUBSET Command :
       /\ last = Ran(t, c, d, Confirms(c, m))
       /\ attr[c].runnable /\ c = (IF t.group THEN d ELSE t.cmd)
       /\ t.group => ~ attr[d].excluded /\ t.cmd \in Ancestors(d)
       /\ ~ t.group => d = t.cmd \/ t.cmd \in Ancestors(d)
  BY RunFields DEF IInv, Called
<1>2. last.tool = t /\ last.found = d /\ last.confirm = Confirms(c, m)
  BY <1>1, RunFields
<1>3. Sound(t)
  BY ToolsSound DEF IInv, Built
<1>4. QED
  BY <1>1, <1>2, <1>3

\* What a group tool runs, its help lists (groupHelp, callTool), in every tree, but
\* for what is below an excluded group.
THEOREM HelpIsCompleteCorrect == Spec => []HelpIsComplete
<1>1. IInv => HelpIsComplete
  <2> SUFFICES ASSUME IInv, last.kind = "run", last.tool.group,
                      ~ Masked(last.tool.cmd, last.found)
               PROVE  last.found \in Listed(last.tool.cmd)
    BY DEF HelpIsComplete
  <2> DEFINE d == last.found
             g == last.tool.cmd
  <2>1. d \in Command /\ ~ attr[d].excluded /\ attr[d].runnable /\ g \in Ancestors(d) /\ Tree
    BY RunOf DEF IInv
  <2>2. d \in Reach(g)
    BY <2>1, Unmasked
  <2>3. \A a \in Ancestors(d) : g \in Ancestors(a) => d \in Reach(a)
    BY <2>1, Unmasked, MaskedBelow
  <2>4. QED
    BY <2>1, <2>2, <2>3 DEF Listed, HasRunnableSub
<1>2. QED
  BY <1>1, Inductive, PTL

\* A call runs a hidden, plumbing or Skip'd command, or one below it (schema.go:46),
\* in two cases only: a group tool's command below an excluded group of its own, and
\* what cobra resolves below a tool that is a runnable group.
THEOREM ExcludedNeverRunsCorrect == Spec => []ExcludedNeverRuns
<1>1. IInv => ExcludedNeverRuns
  <2> SUFFICES ASSUME IInv, last.kind = "run", last.found \notin Reach(0)
               PROVE  IF last.tool.group
                        THEN ~ attr[last.found].excluded /\ Masked(last.tool.cmd, last.found)
                        ELSE attr[last.tool.cmd].runnable
                             /\ last.tool.cmd \in Ancestors(last.found)
    BY DEF ExcludedNeverRuns
  <2> DEFINE d == last.found
             t == last.tool
  <2>1. CASE t.group
    <3>1. /\ d \in Command /\ ~ attr[d].excluded /\ Tree
          /\ t.cmd \in Ancestors(d) /\ t.cmd \in Reach(0)
      BY <2>1, RunOf DEF IInv, Sound
    <3>2. 0 \in Ancestors(d)
      BY <3>1, AncestorsFacts
    <3>3. PICK x \in Ancestors(d) : 0 \in Ancestors(x) /\ attr[x].excluded
      BY <3>1, <3>2, Unmasked DEF Masked
    <3>4. x # t.cmd /\ x \notin Ancestors(t.cmd)
      BY <3>1, <3>3 DEF Reach
    <3>5. t.cmd \in Ancestors(x)
      BY <3>1, <3>4, AncestorsFacts
    <3>6. QED
      BY <2>1, <3>1, <3>3, <3>5 DEF Masked
  <2>2. CASE ~ t.group
    <3>1. /\ t.cmd \in Reach(0) /\ attr[t.cmd].runnable
          /\ d = t.cmd \/ t.cmd \in Ancestors(d)
      BY <2>2, RunOf DEF Sound
    <3>2. QED
      BY <2>2, <3>1
  <2>3. QED
    BY <2>1, <2>2
<1>2. QED
  BY <1>1, Inductive, PTL

\* --yes without the hint, whatever calls merged flags before, needs a group tool
\* and an excluded group or a persistent --yes below it.
THEOREM HintGapsCorrect == Spec => []HintGaps
<1>1. IInv => HintGaps
  <2> SUFFICES ASSUME IInv, last.kind = "run", last.confirm, ~ last.tool.hint
               PROVE  /\ last.tool.group
                      /\ Masked(last.tool.cmd, last.found) \/ PersistentYes(last.found)
    BY DEF HintGaps
  <2> DEFINE d == last.found
             t == last.tool
  <2>1. t.group
    <3> SUFFICES ASSUME ~ t.group PROVE t.hint
      OBVIOUS
    <3>1. t = ToolFor(t.cmd) /\ \E m \in SUBSET Command : Confirms(t.cmd, m)
      BY RunOf DEF Sound
    <3>2. Destructive(t.cmd, {t.cmd})
      BY <3>1 DEF Destructive, Confirms
    <3>3. ToolFor(t.cmd).hint
      BY <3>2 DEF ToolFor
    <3>4. QED
      BY <3>1, <3>3
  <2>2. Masked(t.cmd, d) \/ PersistentYes(d)
    <3> SUFFICES ASSUME ~ Masked(t.cmd, d), ~ PersistentYes(d) PROVE t.hint
      OBVIOUS
    <3>1. /\ d \in Command /\ ~ attr[d].excluded /\ t.cmd \in Ancestors(d)
          /\ t = ToolForGroup(t.cmd) /\ \E m \in SUBSET Command : Confirms(d, m)
      BY <2>1, RunOf DEF Sound
    <3>2. attr[d].yes = "local"
      BY <3>1 DEF Confirms, PersistentYes
    <3>3. Destructive(d, {}) /\ d \in Reach(t.cmd)
      BY <3>1, <3>2, Unmasked DEF Destructive, Confirms
    <3>4. ToolForGroup(t.cmd).hint
      BY <3>3 DEF ToolForGroup
    <3>5. QED
      BY <3>1, <3>4
  <2>3. QED
    BY <2>1, <2>2
<1>2. QED
  BY <1>1, Inductive, PTL

\* So --yes is injected only on a tool whose destructiveHint told the host to
\* confirm, in a CLI with neither an excluded group nor a persistent --yes.
THEOREM ConfirmHasHintCorrect ==
  ASSUME ~ SkipGroups, \A a \in Profiles : a.yes # "persistent"
  PROVE  Spec => []ConfirmHasHint
<1>1. IInv /\ HintGaps => ConfirmHasHint
  <2> SUFFICES ASSUME IInv, HintGaps, last.kind = "run", last.confirm, ~ last.tool.hint
               PROVE  FALSE
    BY DEF ConfirmHasHint
  <2> DEFINE d == last.found
  <2>1. d \in Command /\ Tree
    BY RunOf DEF IInv
  <2>2. ~ Masked(last.tool.cmd, d)
    BY <2>1, NoMask
  <2>3. ~ PersistentYes(d)
    <3>1. \A a \in ({d} \cup Ancestors(d)) \ {0} : a \in Command
      BY <2>1, AncestorsFacts, NAssumption DEF Command
    <3>2. QED
      BY <2>1, <3>1 DEF PersistentYes, Tree
  <2>4. QED
    BY <2>2, <2>3 DEF HintGaps
<1>2. QED
  BY <1>1, Inductive, HintGapsCorrect, PTL

\* The tools of an opt-in surface are where the walk stops.
LEMMA ExposedBoundary ==
  ASSUME Tree, AnyExposed, NEW t \in BuildTools
  PROVE  t.cmd \in Boundaries
<1>1. \A c : ToolFor(c).cmd = c /\ ToolForGroup(c).cmd = c
  BY DEF ToolFor, ToolForGroup
<1>2. t \in ExposedTools
  BY DEF BuildTools
<1>3. QED
  BY <1>1, <1>2 DEF ExposedTools

\* On an opt-in surface no tool lies below another (schema.go:74), in every tree.
THEOREM BoundariesDisjointCorrect == Spec => []BoundariesDisjoint
<1>1. IInv => BoundariesDisjoint
  <2> SUFFICES ASSUME IInv, AnyExposed, NEW t \in tools, NEW u \in tools
               PROVE  t.cmd \notin Ancestors(u.cmd)
    BY DEF BoundariesDisjoint
  <2>1. t.cmd \in Boundaries /\ u.cmd \in Boundaries
    BY ExposedBoundary DEF IInv, Built
  <2>2. t.cmd # 0
    BY <2>1, NAssumption DEF Boundaries, Reach, Command
  <2>3. QED
    BY <2>1, <2>2 DEF Boundaries
<1>2. QED
  BY <1>1, Inductive, PTL

\* One exposed command, neither hidden nor below an excluded group, and no
\* unexposed one is a tool (annotations.go:25).
THEOREM OptInSurfaceCorrect == Spec => []OptInSurface
<1>1. IInv => OptInSurface
  <2> SUFFICES ASSUME IInv, NEW c \in Command, attr[c].exposed, ~ attr[c].excluded,
                      ~ Masked(0, c), NEW t \in tools
               PROVE  attr[t.cmd].exposed
    BY DEF OptInSurface
  <2>1. c \in Reach(0)
    BY AncestorsFacts, Unmasked DEF IInv
  <2>2. AnyExposed
    BY <2>1 DEF AnyExposed
  <2>3. t.cmd \in Boundaries
    BY <2>2, ExposedBoundary DEF IInv, Built
  <2>4. QED
    BY <2>3 DEF Boundaries
<1>2. QED
  BY <1>1, Inductive, PTL
=============================================================================
