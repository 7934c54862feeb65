------------------------------ MODULE ToolCall ------------------------------
(***************************************************************************)
(* A message on its way through the server: the stdio loop and the HTTP    *)
(* handler (jsonrpc.go, http.go), the caller's identity, the argv and the  *)
(* life of the subprocess (runner.go), and the result (translate.go), with *)
(* the file tool as the one in-process tool (fs.go).                       *)
(*                                                                         *)
(* Which command a tool runs and whether it gets --yes is ToolSurface's    *)
(* subject: here both are part of the call.  cobra's parsing of the child, *)
(* the child itself and the CLI's IdentityBinding are external.            *)
(***************************************************************************)
EXTENDS FileTool, Sequences

CONSTANTS
  Messages,    \* what clients send: see Message below
  Traffic,     \* bound: the inputs considered, functions from Requests to Messages
  Transports,  \* a subset of {"stdio", "http", "oauth"}
  Configs,     \* options of the CLI: [binding, scope : BOOLEAN]
  Outputs,     \* bound: what a command may print and return
  FlagNames,   \* the child's flags, sorted: slices.Sorted(maps.Keys(opts))
  IntFlags,    \* those of an integer type
  BoolFlags,   \* those that take no value: pflag's NoOptDefVal
  MaxLine,     \* 8 MiB: the scanner's limit
  MaxBody,     \* 4 MiB: maxHTTPBody
  Invalid,     \* a bearer token that Protect refuses
  NoFile       \* a line of output without a path

T == INSTANCE Translate

\* A JSON array, or a Go slice.
IsArray(s) == s \in Seq({s[i] : i \in DOMAIN s})

ASSUME CallAssumption ==
  /\ IsFiniteSet(Requests) /\ Requests = 1..Cardinality(Requests)
  /\ Traffic \subseteq [Requests -> Messages]
  /\ Transports \subseteq {"stdio", "http", "oauth"}
  /\ Configs \subseteq [binding : BOOLEAN, scope : BOOLEAN]
  /\ MaxBody \in Nat /\ MaxLine \in Nat /\ IsArray(FlagNames)
  /\ "yes" \in BoolFlags /\ {"format", "select"} \cap BoolFlags = {}
  /\ Outputs \subseteq T!RunResults(Files)
  /\ \A m \in Messages :
       /\ m.form \in {"get", "garbage", "notification", "plain", "call"} /\ m.size \in Nat
       /\ m.padded \in BOOLEAN  \* the JSON text ends before MaxBody, blanks follow
       /\ m.bearer \in Names \cup {NoName, Invalid} /\ m.call.tool \in {"none", "fs", "cmd"}
       /\ m.call.tool = "fs" => /\ m.call.verb \in {"help", "find", "ls", "get"}
                                /\ m.call.path \in Nodes \cup {NoNode}
                                /\ m.call.want \subseteq Files
       /\ m.call.tool = "cmd" =>
            /\ IsArray(m.call.args)
            /\ \A f \in DOMAIN m.call.opts :
                 m.call.opts[f][1] = "list" => IsArray(m.call.opts[f][2])

VARIABLES
  transport, config, msg,  \* chosen at start
  child,                   \* the subprocess of a request
  gone,                    \* has the HTTP client disconnected?
  line,                    \* stdio: the line being handled
  served,                  \* stdio: "open", or how Serve returned
  answers                  \* stdio: the requests answered, in order

startVars == <<transport, config, msg>>
stdioVars == <<line, served, answers>>
vars == <<fileVars, startVars, stdioVars, child, gone>>

-----------------------------------------------------------------------------
(***************************************************************************)
(* Arguments.  A JSON value is <<"num", n>>, <<"text", v>>, <<"list", s>>  *)
(* or <<"null">>; a word of argv is [flag, val]: "--flag=val", a bare      *)
(* "--flag" with val NoWord, or with flag "" any other word, val.          *)
(***************************************************************************)

\* fmt's %v prints a float64, which every JSON number decodes to, with an
\* exponent from 10^6 on.
Sprint(v) == IF v[1] = "num" /\ v[2] >= 1000000 THEN <<"exp", v[2]>> ELSE <<"plain", v[2]>>

NoWord == <<"none", "">>
Flag(name, word) == [flag |-> name, val |-> word]
Bare(name) == [flag |-> name, val |-> NoWord]
Positional(word) == [flag |-> "", val |-> word]
DashDash == [flag |-> "--", val |-> NoWord]

RenderFlag(name, v) ==
  CASE v[1] = "null" -> <<>>
    [] v[1] = "list" -> [i \in DOMAIN v[2] |-> Flag(name, Sprint(v[2][i]))]
    [] OTHER         -> <<Flag(name, Sprint(v))>>

RenderOptions(opts) ==
  LET n == Len(FlagNames)
      rendered == [i \in 1..n |-> IF FlagNames[i] \in DOMAIN opts
                                  THEN RenderFlag(FlagNames[i], opts[FlagNames[i]]) ELSE <<>>]
      upTo[i \in 0..n] == IF i = 0 THEN <<>> ELSE upTo[i - 1] \o rendered[i]
  IN  upTo[n]

Plain(v) == <<"plain", v>>

\* What the client chooses, and what the server appends.
ClientWords(call) == RenderOptions(call.opts) \o call.args
Injected(call) ==
  (IF call.confirms THEN <<Bare("yes")>> ELSE <<>>) \o <<Bare("format"), Positional(Plain("jsonl"))>>

BuildArgv(call) == ClientWords(call) \o Injected(call)

\* pflag in the child reads the words in order: a bare flag that takes a value
\* swallows the next word, whatever it is, and "--" ends the flags.
TakesValue(w) == w.flag \notin BoolFlags \cup {"", "--"} /\ w.val = NoWord
RoleOf(argv, i, before) ==
  IF before \in {"end", "after"} THEN "after"
  ELSE IF before = "flag" /\ TakesValue(argv[i - 1]) THEN "value"
  ELSE IF argv[i] = DashDash THEN "end"
  ELSE IF argv[i].flag = "" THEN "arg" ELSE "flag"
Roles(argv) ==
  LET role[i \in 0..Len(argv)] == IF i = 0 THEN "arg" ELSE RoleOf(argv, i, role[i - 1])
  IN  role

\* A word taken for a value: the text of a flag is no proper value of any flag.
TextOf(w) == IF w.flag = "" THEN w.val ELSE <<"raw", w>>

\* The last occurrence of a flag wins; a bare flag without a value is true.
Given(argv, name) == {i \in DOMAIN argv : Roles(argv)[i] = "flag" /\ argv[i].flag = name}
ValueAt(argv, i) ==
  IF TakesValue(argv[i]) THEN TextOf(argv[i + 1])
  ELSE IF argv[i].val = NoWord THEN Plain("true") ELSE argv[i].val
Value(argv, name) ==
  ValueAt(argv, CHOOSE i \in Given(argv, name) : \A j \in Given(argv, name) : j <= i)

\* A flag that takes a value needs one, and an integer flag does not parse a
\* number with an exponent.
ParseOK(argv) ==
  \A i \in {j \in DOMAIN argv : Roles(argv)[j] = "flag"} :
    /\ TakesValue(argv[i]) => i + 1 \in DOMAIN argv
    /\ argv[i].flag \in IntFlags => ValueAt(argv, i)[1] = "plain"

\* The type of an option in the schema the client is given.
FlagSchema(name) == IF name \in IntFlags THEN "integer" ELSE "string"

-----------------------------------------------------------------------------
(***************************************************************************)
(* Who calls, and as whom the command runs.                                *)
(***************************************************************************)

\* The principal Protect put on the context, or NoName for operator calls.
BoundPrincipal(r) == IF transport = "oauth" THEN msg[r].bearer ELSE NoName

\* The binding of a CLI as options.go describes it: a selector and its value,
\* and a gate in the environment.
IdentityInjection(r) ==
  IF config.binding /\ BoundPrincipal(r) \in Names
  THEN [argv |-> <<Bare("select"), Positional(Plain(BoundPrincipal(r)))>>, gate |-> TRUE]
  ELSE [argv |-> <<>>, gate |-> FALSE]

Roots(r) == EffectiveFileRoots(BoundPrincipal(r), config.scope)
FilesIn(roots) == Files \cap UNION {Below[roots[n]] : n \in DOMAIN roots}

NoChild == [proc |-> "none", argv |-> <<>>, gate |-> FALSE, pipe |-> FALSE,
            out |-> [exit |-> 0, stdout |-> <<>>, stderr |-> <<>>]]
Killed == [exit |-> -1, stdout |-> <<>>, stderr |-> <<>>]
StartFailed == [exit |-> -1, stdout |-> <<>>, stderr |-> <<"notice">>]
UsageError == [exit |-> 1, stdout |-> <<>>, stderr |-> <<"error1">>]

CommandResult(r, out) ==
  [kind |-> "command", result |-> T!Translated(out, FilesIn(Roots(r)))]

\* Mutant of Argv: the injected identity comes first.
ArgvIdentityFirst(r) == IdentityInjection(r).argv \o BuildArgv(msg[r].call)

Argv(r) == BuildArgv(msg[r].call) \o IdentityInjection(r).argv

\* The subprocess of a request: `pipe` says that a descendant holds its stdout.
Children ==
  LET commands == {r \in Requests : msg[r].call.tool = "cmd"}
  IN  [proc : {"none", "running", "exited"}, argv : {<<>>} \cup {Argv(r) : r \in commands},
       gate : BOOLEAN, pipe : BOOLEAN, out : T!RunResults(Files)]

\* cmd.Run starts the subprocess, or fails to.
Run(r) ==
  /\ \/ /\ child' = [child EXCEPT ![r] = [NoChild EXCEPT !.proc = "running", !.argv = Argv(r),
                                                       !.gate = IdentityInjection(r).gate]]
        /\ Go(r, "child", NoWork)
     \/ Finish(r, CommandResult(r, StartFailed)) /\ UNCHANGED child
  /\ UNCHANGED <<fs, writes, touched>>

\* What the command prints and returns: an error when its flags do not parse.
CommandOutputs(r) == IF ParseOK(child[r].argv) THEN Outputs ELSE {UsageError}

\* The child ends by itself; it need not.
ChildExit(r) ==
  /\ child[r].proc = "running"
  /\ \E out \in CommandOutputs(r) :
       child' = [child EXCEPT ![r].proc = "exited", ![r].out = out]
  /\ UNCHANGED <<fileVars, startVars, stdioVars, gone>>

\* The child leaves a descendant that holds its stdout, which may close it.
ChildFork(r) ==
  /\ child[r].proc = "running" /\ ~ child[r].pipe
  /\ child' = [child EXCEPT ![r].pipe = TRUE]
  /\ UNCHANGED <<fileVars, startVars, stdioVars, gone>>
PipeClose(r) ==
  /\ child[r].pipe
  /\ child' = [child EXCEPT ![r].pipe = FALSE]
  /\ UNCHANGED <<fileVars, startVars, stdioVars, gone>>

\* Mutant of Kill: exec.Command without the context.
KillNever(r) == FALSE /\ UNCHANGED vars

\* exec.CommandContext kills the process when the context is cancelled,
\* before it has printed anything or after.
Kill(r) ==
  /\ gone[r] /\ child[r].proc = "running"
  /\ \E out \in {Killed} \cup {[o EXCEPT !.exit = -1] : o \in CommandOutputs(r)} :
       child' = [child EXCEPT ![r].proc = "exited", ![r].out = out]
  /\ UNCHANGED <<fileVars, startVars, stdioVars, gone>>

\* cmd.Run returns once the process is gone and its pipes are closed: there
\* is no WaitDelay.
RunReturn(r) ==
  /\ at[r] = "child" /\ child[r].proc = "exited" /\ ~ child[r].pipe
  /\ Finish(r, CommandResult(r, child[r].out))
  /\ UNCHANGED <<fs, writes, touched, startVars, stdioVars, child, gone>>

-----------------------------------------------------------------------------
(***************************************************************************)
(* Dispatch and the two transports.                                        *)
(***************************************************************************)

CallTool(r) ==
  LET call == msg[r].call
  IN  \/ /\ call.tool = "none"  \* unknown tool or invalid params
         /\ Finish(r, [kind |-> "rpcError"])
         /\ UNCHANGED <<fs, writes, touched, child>>
      \/ call.tool = "fs" /\ HandleFileTool(r, Roots(r), call) /\ UNCHANGED child
      \/ call.tool = "cmd" /\ Run(r)

\* initialize, tools/list, ping and unknown methods answer at once ("plain").
Dispatch(r) ==
  /\ \/ /\ msg[r].form = "plain" /\ Finish(r, [kind |-> "plain"])
        /\ UNCHANGED <<fs, writes, touched, child>>
     \/ msg[r].form = "call" /\ CallTool(r)
  /\ UNCHANGED <<startVars, stdioVars, gone>>

HasID(r) == msg[r].form \in {"plain", "call"}

\* Mutant of StdioSkip: a line too long is skipped like one that does not parse.
StdioSkipLong ==
  /\ transport = "stdio" /\ served = "open" /\ line \in Requests
  /\ msg[line].size > MaxLine \/ ~ HasID(line)
  /\ line' = line + 1
  /\ UNCHANGED <<fileVars, startVars, served, answers, child, gone>>

\* A line that does not parse and a notification are passed over.
StdioSkip ==
  /\ transport = "stdio" /\ served = "open" /\ line \in Requests
  /\ msg[line].size <= MaxLine /\ ~ HasID(line)
  /\ line' = line + 1
  /\ UNCHANGED <<fileVars, startVars, served, answers, child, gone>>

StdioDispatch ==
  /\ transport = "stdio" /\ served = "open" /\ line \in Requests
  /\ at[line] = "idle" /\ msg[line].size <= MaxLine
  /\ Dispatch(line)

StdioWrite ==
  /\ transport = "stdio" /\ line \in Requests /\ at[line] = "done"
  /\ answers' = Append(answers, line) /\ line' = line + 1
  /\ UNCHANGED <<fileVars, startVars, served, child, gone>>

\* Mutant of StdioEnd: the loop does not end on a line over the limit.
StdioEndAtEOF ==
  /\ transport = "stdio" /\ served = "open" /\ line \notin Requests /\ served' = "nil"
  /\ UNCHANGED <<fileVars, startVars, line, answers, child, gone>>

\* Scan fails on a line over the limit, and at the end of the input.
StdioEnd ==
  /\ transport = "stdio" /\ served = "open"
  /\ \/ line \notin Requests /\ served' = "nil"
     \/ line \in Requests /\ msg[line].size > MaxLine /\ served' = "error"
  /\ UNCHANGED <<fileVars, startVars, line, answers, child, gone>>

\* json.Unmarshal of what LimitReader lets through: the blanks after a text
\* that ends before the limit may be cut, the text itself may not.
Unreadable(m) == m.form = "garbage" \/ (m.size > MaxBody /\ ~ m.padded)

\* Protect, then the checks of handleHTTP in their order, then dispatch.
HttpRefuse(r) ==
  LET m == msg[r]
      refused == transport = "oauth" /\ m.bearer = Invalid
      status == IF refused THEN 401
                ELSE IF m.form = "get" THEN 405
                ELSE IF Unreadable(m) THEN 400
                ELSE 202
  IN  /\ transport # "stdio" /\ at[r] = "idle"
      /\ refused \/ Unreadable(m) \/ ~ HasID(r)
      /\ Finish(r, [kind |-> "http", status |-> status])
      /\ UNCHANGED <<fs, writes, touched, startVars, stdioVars, child, gone>>

HttpDispatch(r) ==
  /\ transport # "stdio" /\ at[r] = "idle"
  /\ transport = "oauth" => msg[r].bearer # Invalid
  /\ HasID(r) /\ ~ Unreadable(msg[r])
  /\ Dispatch(r)

\* The client of a request in flight goes away; net/http cancels its context.
Disconnect(r) ==
  /\ transport # "stdio" /\ at[r] \notin {"idle", "done"} /\ ~ gone[r]
  /\ gone' = [gone EXCEPT ![r] = TRUE]
  /\ UNCHANGED <<fileVars, startVars, stdioVars, child>>

-----------------------------------------------------------------------------
Init ==
  /\ FileInit
  /\ transport \in Transports /\ config \in Configs /\ msg \in Traffic
  /\ transport = "stdio" => \A r \in Requests : msg[r].form # "get"
  /\ child = [r \in Requests |-> NoChild]
  /\ gone = [r \in Requests |-> FALSE]
  /\ line = 1 /\ served = "open" /\ answers = <<>>

ServerStep(r) ==
  \/ FileStep(r) /\ UNCHANGED <<startVars, stdioVars, child, gone>>
  \/ Kill(r) \/ RunReturn(r)

Serve == StdioSkip \/ StdioDispatch \/ StdioWrite \/ StdioEnd

\* The input is finite: when it is handled there is nothing left to do.
Quiet ==
  /\ IF transport = "stdio" THEN served # "open" ELSE \A r \in Requests : at[r] = "done"
  /\ UNCHANGED vars

Next ==
  \/ Serve
  \/ \E r \in Requests :
       \/ HttpRefuse(r) \/ HttpDispatch(r) \/ ServerStep(r)
       \/ ChildExit(r) \/ ChildFork(r) \/ PipeClose(r) \/ Disconnect(r)
  \/ WriteFile /\ UNCHANGED <<startVars, stdioVars, child, gone>>
  \/ Quiet

\* The server's own steps are taken; a child need never end, nor a
\* descendant close its pipe, nor a client go away.
Spec == /\ Init /\ [][Next]_vars
        /\ WF_vars(Serve) /\ \A r \in Requests : WF_vars(ServerStep(r))
-----------------------------------------------------------------------------
(***************************************************************************)
(* Properties.                                                             *)
(***************************************************************************)

\* Every variable holds a value of its kind, the results of a request included.
TypeOK ==
  /\ fs \in [Files -> Sizes \cup {Absent}] /\ writes \in 0..MaxWrites
  /\ touched \in [Requests -> SUBSET Files]
  /\ at \in [Requests -> {"idle", "child", "done"} \cup FsVerbs]
  /\ work \in [Requests -> Works]
  /\ transport \in Transports /\ config \in Configs /\ msg \in Traffic
  /\ child \in [Requests -> Children] /\ gone \in [Requests -> BOOLEAN]
  /\ line \in 1..(Cardinality(Requests) + 1) /\ served \in {"open", "nil", "error"}
  /\ answers \in Seq(Requests)
  /\ \A r \in Requests :
       /\ at[r] = "done" <=> reply[r] # NoReply
       /\ reply[r].kind = "data" => /\ reply[r].file \in Files /\ reply[r].size \in Sizes
                                    /\ reply[r].ref \in FileRefs
       /\ reply[r].kind = "files" => reply[r].refs \subseteq FileRefs

\* The client's words end the flags, or end in a flag that still waits for its
\* value and takes the first injected word for it.
Escapes(call) ==
  \E i \in DOMAIN ClientWords(call) : Roles(ClientWords(call))[i] = "end"
Dangles(call) ==
  LET words == ClientWords(call)
      n == Len(words)
  IN  n > 0 /\ Roles(words)[n] = "flag" /\ TakesValue(words[n])

\* Whatever a client puts into options and args, the child of a named principal
\* has the gate, and sees its own selector, --format jsonl and the --yes of a
\* gated command: buildArgv and run append them last.  The exceptions: after a
\* "--" in args the appended flags are positional, and a flag at the end of args
\* without its value swallows --yes or else --format, but never the selector.
ActsAsCaller ==
  \A r \in Requests :
    LET call == msg[r].call
        argv == child[r].argv
        Sees(flag, word) == Given(argv, flag) # {} /\ Value(argv, flag) = Plain(word)
        named == config.binding /\ BoundPrincipal(r) \in Names
    IN  child[r].proc # "none" =>
          /\ named => child[r].gate
          /\ ~ Escapes(call) =>
               /\ named => Sees("select", BoundPrincipal(r))
               /\ ~ Dangles(call) \/ call.confirms => Sees("format", "jsonl")
               /\ ~ Dangles(call) /\ call.confirms => Sees("yes", "true")

\* An option the schema calls an integer, sent as a JSON number, reaches the
\* child as that integer: "options is a typed object ... ints -> integer"
\* (design-docs/design.md), "--limit=5" for float64(5) (runner_test.go).
IntegersArrive ==
  \A r \in {q \in Requests : child[q].proc # "none"} : \A f \in DOMAIN msg[r].call.opts :
    LET v == msg[r].call.opts[f]
    IN  FlagSchema(f) = "integer" /\ v[1] = "num"
          => Value(child[r].argv, f) = Plain(v[2])

\* A named principal's own nodes: those below its scoped roots.
OwnNodes(who) ==
  LET dirs == {Scope[who][n] : n \in RootNames} \ {NoNode}
  IN  IF config.scope THEN dirs \cup UNION {Below[d] : d \in dirs} ELSE {}

\* Contents, references and rewritten paths that a named principal gets lie
\* below its scoped roots, also through links and in the results of commands
\* (effectiveFileRoots, SafeResolve, rewriteFileRefs): what it is handed it
\* can get.
OwnFilesOnly ==
  \A r \in Requests :
    LET own == OwnNodes(BoundPrincipal(r))
        res == reply[r]
    IN  BoundPrincipal(r) \in Names =>
          /\ res.kind = "data" => {res.file, res.ref.node} \subseteq own
          /\ res.kind = "files" => \A f \in res.refs : f.node \in own \cup {NoNode}
          /\ res.kind = "command" =>
               \A i \in DOMAIN res.result.records :
                 res.result.records[i].form = "ref" => res.result.records[i].file \in own

\* The nodes a find or an ls is asked for.
Asked(r) ==
  LET call == msg[r].call
      dir  == Roots(r)[call.root]
  IN  IF call.verb = "find" THEN Below[dir] \cap call.want
      ELSE IF call.path \in Nodes \ Dirs THEN {call.path}
      ELSE Entries[IF call.path = NoNode THEN dir ELSE call.path]

\* No file n was written while the request was in flight.
Stable(r, n) == n \in Files => n \notin touched[r]

\* A find that was not truncated and an ls report every asked-for file that
\* was there all along, and none that never was, whatever other files come
\* and go under the walk (fsFind skips a vanished file and goes on).
ListingComplete ==
  \A r \in Requests :
    LET found == {f.node : f \in reply[r].refs}
    IN  reply[r].kind = "files" =>
          /\ ~ reply[r].truncated =>
               \A n \in Asked(r) : Stable(r, n) /\ StatOK(Resolved(n)) /\ Stable(r, Resolved(n))
                                     => n \in found
          /\ \A n \in found \ {NoNode} : n \in Asked(r) /\ (Stable(r, n) => StatOK(n))

\* get returns more than the inline limit, or a reference whose size is not
\* that of the contents, only when the file changed between Stat and ReadFile.
InlineWithinLimit ==
  \A r \in Requests :
    reply[r].kind = "data" /\ (reply[r].size > InlineLimit \/ reply[r].size # reply[r].ref.size)
      => reply[r].file \in touched[r]

\* Where a record of a result shows a FileRef for a host path, the text block
\* does too: "so it carries no host path either" (translate.go).  The
\* exception: every path below a root is spelled with JSON escapes, which the
\* gate does not recognise.
TextAgrees ==
  \A r \in Requests :
    LET res == reply[r].result
        out == child[r].out.stdout
    IN  reply[r].kind = "command" /\ ~ res.isError =>
          \/ [i \in T!RecordLines(res.text) |-> res.text[i]] = res.records
          \/ \A i \in DOMAIN out : out[i].file \in FilesIn(Roots(r)) => out[i].escaped

\* Serve answers the requests, and only them, in the order of their lines, and
\* nothing else runs meanwhile ("strictly sequential").
StdioInOrder ==
  transport = "stdio" =>
    /\ \A i, j \in DOMAIN answers : i < j => answers[i] < answers[j]
    /\ {answers[i] : i \in DOMAIN answers} = {r \in 1..(line - 1) : HasID(r)}
    /\ \A r \in Requests : r # line => at[r] = IF r < line /\ HasID(r) THEN "done" ELSE "idle"

\* The request of a client that went away ends, though its command would run
\* on, unless a descendant of the command holds the pipe (no WaitDelay).
CancelledEnds == \A r \in Requests : gone[r] ~> (at[r] = "done" \/ child[r].pipe)

\* Serve returns, unless one command, or the pipe it left behind, never ends.
StdioReturns ==
  transport = "stdio" =>
    \/ <>(served # "open")
    \/ <>[](\E r \in Requests : child[r].proc = "running" \/ child[r].pipe)
=============================================================================
