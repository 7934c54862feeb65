----------------------------- MODULE MCToolCall -----------------------------
(***************************************************************************)
(* Instances of ToolCall: a shared root with a subtree for each of two     *)
(* principals, a link from one subtree into the other, and two requests.   *)
(***************************************************************************)
EXTENDS ToolCall, TLC

CONSTANTS dAll, dA, dB, fA, fB, lA, alice, bob, root, other,
          Big  \* an integer option a client may send

MCEntries == (dAll :> {dA, dB}) @@ (dA :> {fA, lA}) @@ (dB :> {fB})
MCBelow == (dAll :> {dA, dB, fA, fB, lA}) @@ (dA :> {fA, lA}) @@ (dB :> {fB})
MCLinkTo == (lA :> fB)
MCRootDir == (root :> dAll)
MCScope == (alice :> (root :> dA)) @@ (bob :> (root :> dB))
MCConfigs == {[binding |-> TRUE, scope |-> TRUE], [binding |-> FALSE, scope |-> FALSE]}

Fs(verb, r, path) ==
  [tool |-> "fs", verb |-> verb, root |-> r, path |-> path, want |-> {fA, fB}, ok |-> TRUE]
BadFind == [Fs("find", root, NoNode) EXCEPT !.ok = FALSE]
Cmd(opts, args, confirms) == [tool |-> "cmd", opts |-> opts, args |-> args, confirms |-> confirms]
Text(v) == <<"text", v>>
NoOpts == [f \in {} |-> <<"null">>]

FsCalls ==
  {Fs("help", root, NoNode), BadFind, Fs("find", root, NoNode), Fs("find", other, NoNode),
   Fs("ls", root, NoNode), Fs("ls", root, fA), Fs("ls", root, dB), Fs("get", root, NoNode),
   Fs("get", root, fA), Fs("get", root, lA)}
CmdCalls ==
  {Cmd(NoOpts, <<>>, TRUE),
   Cmd([select |-> Text(bob), limit |-> <<"num", Big>>], <<>>, FALSE),
   Cmd([format |-> Text("json"), limit |-> <<"null">>],
       <<Bare("select"), Positional(Plain(bob)), Positional(Plain("w"))>>, TRUE),
   Cmd(NoOpts, <<Flag("format", Plain("json")), Bare("select"), DashDash, Bare("limit")>>, TRUE),
   Cmd([yes |-> Text("false")], <<Bare("select")>>, FALSE),
   Cmd([select |-> <<"list", <<Text(alice), Text(bob)>> >>], <<DashDash>>, TRUE)}
NoTool == [tool |-> "none"]

Call(who, c) ==
  [form |-> "call", size |-> 1, padded |-> FALSE, bearer |-> who, call |-> c]
Other(form, size, padded, who) ==
  [form |-> form, size |-> size, padded |-> padded, bearer |-> who, call |-> NoTool]

Firsts ==
  {Call(who, c) : who \in {alice, NoName}, c \in FsCalls \cup CmdCalls \cup {NoTool}}
  \cup {Other(form, size, padded, who) :
          form \in {"get", "garbage", "notification", "plain"},
          size \in 1..3, padded \in BOOLEAN, who \in {bob, Invalid}}
Seconds == {Call(bob, Fs("get", root, fB)), Other("plain", 1, FALSE, alice)}
BobRuns == Call(bob, Cmd(NoOpts, <<>>, FALSE))
MCMessages == Firsts \cup Seconds \cup {BobRuns}
MCTraffic ==
  {<<a, b>> : a \in Firsts, b \in Seconds}
  \cup {<<Call(alice, Cmd([select |-> Text(bob), limit |-> <<"num", Big>>], <<>>, FALSE)), BobRuns>>}

Line(kind, f, esc) == [kind |-> kind, file |-> f, escaped |-> esc]
MCOutputs ==
  {[exit |-> 0, stdout |-> <<Line("text", NoFile, FALSE), Line("record", fA, FALSE)>>,
    stderr |-> <<"notice">>],
   [exit |-> 0, stdout |-> <<Line("meta", fA, FALSE), Line("record", fA, TRUE), Line("prose", fB, FALSE)>>,
    stderr |-> <<>>],
   [exit |-> 0, stdout |-> <<Line("record", fB, TRUE)>>, stderr |-> <<>>],
   [exit |-> 1, stdout |-> <<Line("record", fB, FALSE)>>,
    stderr |-> <<"notice", "error1", "error2">>]}
MCFlagNames == <<"format", "limit", "select", "yes">>
=============================================================================
