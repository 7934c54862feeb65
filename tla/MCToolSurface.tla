-------------------------- MODULE MCToolSurface --------------------------
(***************************************************************************)
(* Instances of ToolSurface for TLC.                                       *)
(***************************************************************************)
EXTENDS ToolSurface

Group == [excluded |-> FALSE, runnable |-> FALSE, exposed |-> FALSE,
          yes |-> "none", destructive |-> FALSE]
Leaf == [Group EXCEPT !.runnable = TRUE]

\* Every kind of command, mcp.destructive on plain leaves only.
AnyKind == {a \in Attributes : a.destructive => a = [Leaf EXCEPT !.destructive = TRUE]}

\* A few kinds, for trees of four commands: exposed and Skip'd groups, leaves
\* with and without --yes.
SkippedGroup == {Group, Leaf, [Group EXCEPT !.exposed = TRUE],
                 [Group EXCEPT !.excluded = TRUE], [Leaf EXCEPT !.exposed = TRUE],
                 [Leaf EXCEPT !.yes = "local"]}
=============================================================================
