--------------------------- MODULE ToolCallProofs ---------------------------
(***************************************************************************)
(* Every safety invariant of ToolCall, for all constants: any number of    *)
(* requests, any file tree and traffic, any transport and options.         *)
(*                                                                         *)
(* A step concerns the file tool's state of at most one request, or writes *)
(* one file; the views below say so, and the rest of the proof follows one *)
(* request r through its own steps (Own) and the writes of others          *)
(* (Changed).  The inductive invariant is IInv, at the end.                *)
(***************************************************************************)
EXTENDS ToolCall, Induction, FiniteSetTheorems, TLAPS

\* f is a function on the requests.
IsFcn(f) == f = [r \in Requests |-> f[r]]

\* What every step preserves by itself: the types of the variables, except for
\* the contents of work and reply, which depend on the call.
Base ==
  /\ fs \in [Files -> Sizes \cup {Absent}] /\ writes \in 0..MaxWrites
  /\ touched \in [Requests -> SUBSET Files]
  /\ at \in [Requests -> {"idle", "child", "done"} \cup FsVerbs]
  /\ IsFcn(work) /\ IsFcn(reply)
  /\ child \in [Requests -> Children] /\ gone \in [Requests -> BOOLEAN]
  /\ transport \in Transports /\ config \in Configs /\ msg \in Traffic

\* An update keeps a function on the requests one.
LEMMA ExceptFcn ==
  ASSUME NEW f, IsFcn(f), NEW q \in Requests, NEW v
  PROVE  IsFcn([f EXCEPT ![q] = v])
  BY Zenon DEF IsFcn

\* What an update of such a function holds.
LEMMA ExceptAt ==
  ASSUME NEW f, IsFcn(f), NEW q \in Requests, NEW v, NEW r \in Requests
  PROVE  [f EXCEPT ![q] = v][r] = IF r = q THEN v ELSE f[r]
<1>1. DOMAIN f = Requests
  BY DEF IsFcn
<1>2. QED
  BY <1>1

-----------------------------------------------------------------------------
(***************************************************************************)
(* Steps, seen from one request                                            *)
(***************************************************************************)

\* Request r ends with result x.
Ends(r, x) == at'[r] = "done" /\ work'[r] = NoWork /\ reply'[r] = x
\* Request r goes on to stage s with work w.
Goes(r, s, w) == at'[r] = s /\ work'[r] = w /\ reply'[r] = reply[r]
\* Nothing happens to request r.
Same(r) == at'[r] = at[r] /\ work'[r] = work[r] /\ reply'[r] = reply[r]
\* Nothing happens to any other request.
Alone(r) == \A q \in Requests \ {r} : Same(q)

\* Finish ends one request and leaves the others alone.
LEMMA FinishView ==
  ASSUME Base, NEW r \in Requests, NEW x, Finish(r, x)
  PROVE  /\ Ends(r, x) /\ Alone(r) /\ IsFcn(work') /\ IsFcn(reply')
         /\ at' \in [Requests -> {"idle", "child", "done"} \cup FsVerbs]
<1>0. /\ IsFcn(reply) /\ reply' = [reply EXCEPT ![r] = x]
      /\ IsFcn(work) /\ work' = [work EXCEPT ![r] = NoWork]
  BY DEF Finish, Base
<1>1. IsFcn(reply') /\ IsFcn(work')
  BY <1>0, ExceptFcn, Zenon
<1>2. \A q \in Requests : /\ reply'[q] = IF q = r THEN x ELSE reply[q]
                          /\ work'[q] = IF q = r THEN NoWork ELSE work[q]
  BY <1>0, ExceptAt
<1>3. /\ at' \in [Requests -> {"idle", "child", "done"} \cup FsVerbs]
      /\ at'[r] = "done" /\ \A q \in Requests \ {r} : at'[q] = at[q]
  BY DEF Finish, Base
<1>4. QED
  BY <1>1, <1>2, <1>3 DEF Ends, Alone, Same

\* Go moves one request on and leaves the others alone.
LEMMA GoView ==
  ASSUME Base, NEW r \in Requests, NEW s \in {"child"} \cup FsVerbs, NEW w, Go(r, s, w)
  PROVE  /\ Goes(r, s, w) /\ Alone(r) /\ IsFcn(work') /\ IsFcn(reply')
         /\ at' \in [Requests -> {"idle", "child", "done"} \cup FsVerbs]
<1>1. IsFcn(reply') /\ \A q \in Requests : reply'[q] = reply[q]
  BY DEF Go, Base
<1>0. IsFcn(work) /\ work' = [work EXCEPT ![r] = w]
  BY DEF Go, Base
<1>2. IsFcn(work')
  BY <1>0, ExceptFcn, Zenon
<1>5. \A q \in Requests : work'[q] = IF q = r THEN w ELSE work[q]
  BY <1>0, ExceptAt
<1>3. /\ at' \in [Requests -> {"idle", "child", "done"} \cup FsVerbs]
      /\ at'[r] = s /\ \A q \in Requests \ {r} : at'[q] = at[q]
  BY DEF Go, Base
<1>4. QED
  BY <1>1, <1>2, <1>3, <1>5 DEF Goes, Alone, Same

\* The step is one of request r alone.
Framed(r) ==
  /\ Alone(r) /\ IsFcn(work') /\ IsFcn(reply')
  /\ at' \in [Requests -> {"idle", "child", "done"} \cup FsVerbs]

\* The directory of the root that a file call names.
RootOf(r) == Roots(r)[msg[r].call.root]
\* The call is one of the file tool on a root the caller has.
FileCall(r) ==
  msg[r].call.tool = "fs" /\ msg[r].call.root \in DOMAIN Roots(r)

\* A verb has passed its checks and runs: find, ls of a file, ls of a
\* directory, get.
Opened(r) ==
  LET d == RootOf(r)
      call == msg[r].call
      n == IF call.path = NoNode THEN d ELSE call.path
  IN  \/ call.verb = "find" /\ Goes(r, "walk", [NoWork EXCEPT !.todo = {d}, !.want = call.want])
      \/ /\ call.verb = "ls" /\ SafeResolve(d, n) /\ StatOK(Resolved(n)) /\ n \notin Dirs
         /\ Goes(r, "refs", [NoWork EXCEPT !.node = n])
      \/ /\ call.verb = "ls" /\ SafeResolve(d, n) /\ n \in Dirs
         /\ Goes(r, "list", [NoWork EXCEPT !.node = n])
      \/ /\ call.verb = "get" /\ call.path # NoNode /\ SafeResolve(d, call.path)
         /\ call.path \notin Dirs
         /\ StatOK(Resolved(call.path)) /\ fs[Resolved(call.path)] <= InlineLimit
         /\ Goes(r, "get", [NoWork EXCEPT !.node = call.path, !.size = fs[Resolved(call.path)]])

\* The request ends with a result that holds no file and no output.
Brief(r) == \E x : Ends(r, x) /\ x.kind \in {"plain", "rpcError", "help", "error", "http"}

\* dispatch answers at once, fails to start a command, starts one, or opens a
\* verb of the file tool (callTool, handleFileTool).
LEMMA DispatchView ==
  ASSUME Base, NEW r \in Requests, Dispatch(r)
  PROVE  /\ Framed(r) /\ UNCHANGED <<fs, writes, touched>>
         /\ \/ Brief(r) /\ UNCHANGED child
            \/ /\ msg[r].call.tool = "cmd" /\ msg[r].form = "call"
               /\ Ends(r, CommandResult(r, StartFailed)) /\ UNCHANGED child
            \/ /\ msg[r].call.tool = "cmd" /\ Goes(r, "child", NoWork)
               /\ msg[r].form = "call"
               /\ child' = [child EXCEPT ![r] = [NoChild EXCEPT !.proc = "running",
                              !.argv = Argv(r), !.gate = IdentityInjection(r).gate]]
            \/ FileCall(r) /\ Opened(r) /\ UNCHANGED child
<1> USE DEF Framed
<1>0. UNCHANGED <<fs, writes, touched>>
  BY DEF Dispatch, CallTool, Run, HandleFileTool
<1>1. ASSUME NEW x, x.kind \in {"plain", "rpcError", "help", "error"}, Finish(r, x)
      PROVE  Framed(r) /\ Brief(r)
  BY <1>1, FinishView DEF Brief
<1>2. CASE msg[r].form = "plain" /\ Finish(r, [kind |-> "plain"]) /\ UNCHANGED child
  BY <1>0, <1>1, <1>2
<1>3. CASE Finish(r, [kind |-> "rpcError"]) /\ UNCHANGED child
  BY <1>0, <1>1, <1>3
<1>4. CASE msg[r].form = "call" /\ msg[r].call.tool = "cmd" /\ Run(r)
  <2>1. CASE Finish(r, CommandResult(r, StartFailed)) /\ UNCHANGED child
    BY <1>0, <1>4, <2>1, FinishView
  <2>2. CASE /\ child' = [child EXCEPT ![r] = [NoChild EXCEPT !.proc = "running",
                              !.argv = Argv(r), !.gate = IdentityInjection(r).gate]]
             /\ Go(r, "child", NoWork)
    BY <1>0, <1>4, <2>2, GoView
  <2>3. QED
    BY <1>4, <2>1, <2>2 DEF Run
<1>5. CASE msg[r].call.tool = "fs" /\ HandleFileTool(r, Roots(r), msg[r].call) /\ UNCHANGED child
  <2> DEFINE call == msg[r].call
             d == Roots(r)[call.root]
             n == IF call.path = NoNode THEN d ELSE call.path
  <2>1. CASE Finish(r, HelpResult) \/ Finish(r, NativeError)
    BY <1>0, <1>1, <1>5, <2>1 DEF HelpResult, NativeError
  <2>2. CASE /\ call.root \in DOMAIN Roots(r) /\ call.verb = "find"
             /\ Go(r, "walk", [NoWork EXCEPT !.todo = {d}, !.want = call.want])
    BY <1>0, <1>5, <2>2, GoView DEF FsVerbs, FileCall, Opened, RootOf
  <2>3. CASE /\ call.root \in DOMAIN Roots(r) /\ call.verb = "ls"
             /\ SafeResolve(d, n) /\ StatOK(Resolved(n)) /\ n \notin Dirs
             /\ Go(r, "refs", [NoWork EXCEPT !.node = n])
    BY <1>0, <1>5, <2>3, GoView DEF FsVerbs, FileCall, Opened, RootOf
  <2>4. CASE /\ call.root \in DOMAIN Roots(r) /\ call.verb = "ls"
             /\ SafeResolve(d, n) /\ n \in Dirs
             /\ Go(r, "list", [NoWork EXCEPT !.node = n])
    BY <1>0, <1>5, <2>4, GoView DEF FsVerbs, FileCall, Opened, RootOf
  <2>5. CASE /\ call.root \in DOMAIN Roots(r) /\ call.verb = "get" /\ call.path # NoNode
             /\ SafeResolve(d, call.path) /\ call.path \notin Dirs
             /\ StatOK(Resolved(call.path)) /\ fs[Resolved(call.path)] <= InlineLimit
             /\ Go(r, "get", [NoWork EXCEPT !.node = call.path,
                                            !.size = fs[Resolved(call.path)]])
    BY <1>0, <1>5, <2>5, GoView DEF FsVerbs, FileCall, Opened, RootOf
  <2>6. QED
    BY <1>5, <2>1, <2>2, <2>3, <2>4, <2>5 DEF HandleFileTool, FsFind, FsList, FsGet
<1>6. QED
  BY <1>2, <1>3, <1>4, <1>5 DEF Dispatch, CallTool

\* A step of a running verb is one of its request alone and writes no file.
LEMMA FileStepView ==
  ASSUME Base, NEW r \in Requests, FileStep(r)
  PROVE  Framed(r) /\ UNCHANGED <<fs, writes, touched>>
<1> USE DEF Framed
<1>1. CASE FsGetRead(r)
  BY <1>1, FinishView DEF FsGetRead
<1>2. CASE FsReadDir(r)
  BY <1>2, GoView DEF FsReadDir, FsVerbs
<1>3. CASE FsListRefs(r)
  BY <1>3, FinishView DEF FsListRefs
<1>4. CASE WalkDir(r)
  BY <1>4, GoView DEF WalkDir, FsVerbs
<1>5. CASE WalkFile(r)
  BY <1>5, GoView, FinishView DEF WalkFile, FsVerbs
<1>6. CASE FindReturn(r)
  BY <1>6, FinishView DEF FindReturn
<1>7. QED
  BY <1>1, <1>2, <1>3, <1>4, <1>5, <1>6 DEF FileStep

\* The steps that the server takes for request r.
Own(r) ==
  \/ at[r] = "idle" /\ Dispatch(r)
  \/ HttpRefuse(r) \/ FileStep(r) \/ RunReturn(r)

\* One file f is written; a request in flight remembers it.
Changed(r) ==
  \E f \in Files :
    /\ \A g \in Files \ {f} : fs'[g] = fs[g]
    /\ touched'[r] = IF at[r] = "idle" THEN {} ELSE touched[r] \cup {f}

\* What the server does for one request leaves the others and the files alone.
LEMMA OwnView ==
  ASSUME Base, NEW r \in Requests, Own(r)
  PROVE  Framed(r) /\ UNCHANGED <<fs, writes, touched>>
<1>1. CASE Dispatch(r)
  BY <1>1, DispatchView
<1>2. CASE HttpRefuse(r)
  BY <1>2, FinishView DEF Framed, HttpRefuse
<1>3. CASE RunReturn(r)
  BY <1>3, FinishView DEF Framed, RunReturn
<1>4. QED
  BY <1>1, <1>2, <1>3, FileStepView DEF Own

\* Every step is the server's for one request, a write, or leaves the file
\* tool's state alone, and none changes what was chosen at start.
LEMMA NextView ==
  [Next]_vars => /\ UNCHANGED startVars
                 /\ UNCHANGED fileVars \/ WriteFile \/ \E q \in Requests : Own(q)
<1> SUFFICES ASSUME [Next]_vars
             PROVE  /\ UNCHANGED startVars
                    /\ UNCHANGED fileVars \/ WriteFile \/ \E q \in Requests : Own(q)
  OBVIOUS
<1>1. CASE Serve
  BY <1>1 DEF Serve, StdioSkip, StdioDispatch, StdioWrite, StdioEnd, Dispatch, Own
<1>2. ASSUME NEW r \in Requests, HttpRefuse(r) \/ HttpDispatch(r) \/ ServerStep(r)
      PROVE  UNCHANGED startVars /\ (UNCHANGED fileVars \/ Own(r))
  BY <1>2 DEF HttpRefuse, HttpDispatch, Dispatch, ServerStep, Kill, RunReturn, Own
<1>3. ASSUME NEW r \in Requests, ChildExit(r) \/ ChildFork(r) \/ PipeClose(r) \/ Disconnect(r)
      PROVE  UNCHANGED <<startVars, fileVars>>
  BY <1>3 DEF ChildExit, ChildFork, PipeClose, Disconnect
<1>4. CASE WriteFile /\ UNCHANGED <<startVars, stdioVars, child, gone>>
  BY <1>4
<1>5. CASE UNCHANGED vars
  BY <1>5 DEF vars
<1>6. QED
  BY <1>1, <1>2, <1>3, <1>4, <1>5 DEF Next, Quiet

\* What a step may do to request r.
LEMMA StepView ==
  ASSUME Base, [Next]_vars, NEW r \in Requests
  PROVE  \/ Same(r) /\ UNCHANGED <<fs, touched>>
         \/ Same(r) /\ Changed(r)
         \/ Own(r) /\ UNCHANGED <<fs, touched>>
<1>1. CASE UNCHANGED fileVars
  BY <1>1 DEF fileVars, Same
<1>2. ASSUME NEW q \in Requests, Own(q)
      PROVE  UNCHANGED <<fs, touched>> /\ (r # q => Same(r))
  BY <1>2, OwnView DEF Framed, Alone
<1>3. CASE WriteFile
  BY <1>3 DEF WriteFile, Base, Same, Changed
<1>4. QED
  BY <1>1, <1>2, <1>3, NextView

-----------------------------------------------------------------------------
(***************************************************************************)
(* Types that no step depends on                                           *)
(***************************************************************************)

\* The results that the runner makes up itself are run results.
LEMMA OutputTypes ==
  /\ NoChild.out \in T!RunResults(Files) /\ Killed \in T!RunResults(Files)
  /\ UsageError \in T!RunResults(Files)
  /\ \A o \in T!RunResults(Files) : [o EXCEPT !.exit = -1] \in T!RunResults(Files)
  BY DEF NoChild, Killed, UsageError, T!RunResults

\* What a child may be depends on what was chosen at start only.
LEMMA ChildrenFixed == UNCHANGED startVars => Children' = Children
  BY DEF startVars, Children, Argv, IdentityInjection, BoundPrincipal

\* A step keeps every child one: its argv is that of a request's call.
LEMMA ChildStep ==
  ASSUME Base, [Next]_vars
  PROVE  child' \in [Requests -> Children']
<1>1. Children' = Children
  BY NextView, ChildrenFixed
<1>2. SUFFICES child' \in [Requests -> Children]
  BY <1>1
<1>3. \A r \in Requests : CommandOutputs(r) \subseteq T!RunResults(Files)
  BY OutputTypes, CallAssumption DEF CommandOutputs
<1>4. ASSUME NEW r \in Requests, Dispatch(r) PROVE child' \in [Requests -> Children]
  <2>1. msg[r].call.tool = "cmd" =>
          [NoChild EXCEPT !.proc = "running", !.argv = Argv(r),
             !.gate = IdentityInjection(r).gate] \in Children
    BY OutputTypes DEF NoChild, Children, IdentityInjection
  <2>2. QED
    BY <1>4, <2>1, DispatchView DEF Base
<1>5. ASSUME NEW r \in Requests, NEW o \in T!RunResults(Files),
             child' = [child EXCEPT ![r].proc = "exited", ![r].out = o]
      PROVE  child' \in [Requests -> Children]
  <2>1. child \in [Requests -> Children]
    BY DEF Base
  <2>2. [child[r] EXCEPT !.proc = "exited", !.out = o] \in Children
    BY <2>1 DEF Children
  <2>3. child' = [child EXCEPT ![r] = [child[r] EXCEPT !.proc = "exited", !.out = o]]
    BY <1>5
  <2>4. QED
    BY <2>1, <2>2, <2>3
<1>6. ASSUME NEW r \in Requests, ChildExit(r) PROVE child' \in [Requests -> Children]
  <2>1. PICK o \in CommandOutputs(r) :
          child' = [child EXCEPT ![r].proc = "exited", ![r].out = o]
    BY <1>6 DEF ChildExit
  <2>2. QED
    BY <1>3, <1>5, <2>1
<1>7. ASSUME NEW r \in Requests, Kill(r) PROVE child' \in [Requests -> Children]
  <2>1. PICK o \in {Killed} \cup {[x EXCEPT !.exit = -1] : x \in CommandOutputs(r)} :
          child' = [child EXCEPT ![r].proc = "exited", ![r].out = o]
    BY <1>7 DEF Kill
  <2>2. o \in T!RunResults(Files)
    BY <1>3, OutputTypes
  <2>3. QED
    BY <1>5, <2>1, <2>2
<1>8. ASSUME NEW r \in Requests, ChildFork(r) \/ PipeClose(r)
      PROVE child' \in [Requests -> Children]
  <2>1. PICK b \in BOOLEAN : child' = [child EXCEPT ![r].pipe = b]
    BY <1>8 DEF ChildFork, PipeClose
  <2>2. [child[r] EXCEPT !.pipe = b] \in Children
    BY DEF Base, Children
  <2>3. QED
    BY <2>1, <2>2 DEF Base
<1>9. ASSUME UNCHANGED child PROVE child' \in [Requests -> Children]
  BY <1>9 DEF Base
<1>10. QED
  BY <1>4, <1>6, <1>7, <1>8, <1>9
     DEF Next, Serve, StdioSkip, StdioDispatch, StdioWrite, StdioEnd, HttpDispatch,
         HttpRefuse, ServerStep, RunReturn, Disconnect, Quiet, vars

\* Base is inductive.
LEMMA BaseStep == Base /\ [Next]_vars => Base'
<1> SUFFICES ASSUME Base, [Next]_vars PROVE Base'
  OBVIOUS
<1>1. child' \in [Requests -> Children']
  BY ChildStep
<1>2. transport' \in Transports /\ config' \in Configs /\ msg' \in Traffic
  BY NextView DEF Base, startVars
<1> DEFINE FileBase == /\ fs \in [Files -> Sizes \cup {Absent}] /\ writes \in 0..MaxWrites
                       /\ touched \in [Requests -> SUBSET Files]
                       /\ at \in [Requests -> {"idle", "child", "done"} \cup FsVerbs]
                       /\ IsFcn(work) /\ IsFcn(reply)
<1>3. FileBase'
  <2>1. CASE UNCHANGED fileVars
    BY <2>1 DEF Base, fileVars, IsFcn
  <2>2. CASE WriteFile
    BY <2>2, TreeAssumption DEF WriteFile, Base, IsFcn
  <2>3. ASSUME NEW r \in Requests, Own(r) PROVE FileBase'
    BY <2>3, OwnView DEF Framed, Base
  <2>4. QED
    BY <2>1, <2>2, <2>3, NextView
<1>4. gone' \in [Requests -> BOOLEAN]
  BY DEF Base, Next, Serve, StdioSkip, StdioDispatch, StdioWrite, StdioEnd, HttpDispatch,
         HttpRefuse, ServerStep, Dispatch, Kill, RunReturn, ChildExit, ChildFork, PipeClose,
         Disconnect, Quiet, vars
<1>5. QED
  BY <1>1, <1>2, <1>3, <1>4 DEF Base

\* The roots, the caller and what is asked for never change.
LEMMA Fixed ==
  ASSUME UNCHANGED startVars, NEW r \in Requests
  PROVE  /\ RootOf(r)' = RootOf(r) /\ FileCall(r)' = FileCall(r)
         /\ BoundPrincipal(r)' = BoundPrincipal(r) /\ Asked(r)' = Asked(r)
         /\ Roots(r)' = Roots(r)
  BY DEF startVars, RootOf, FileCall, Roots, BoundPrincipal, Asked

\* A root is a directory.
LEMMA RootType ==
  ASSUME Base, NEW r \in Requests, FileCall(r)
  PROVE  RootOf(r) \in Dirs
  BY TreeAssumption DEF Base, FileCall, RootOf, Roots, EffectiveFileRoots, RootNames

-----------------------------------------------------------------------------
(***************************************************************************)
(* Inside the root                                                         *)
(***************************************************************************)

\* The node an ls is about.
Target(r) == IF msg[r].call.path = NoNode THEN RootOf(r) ELSE msg[r].call.path
\* A directory and what is below it.
Inside(d) == Below[d] \cup {d}

\* What a running verb holds lies inside the caller's root: the file that get
\* will read, also through a link (SafeResolve), the directory that ls lists, and
\* what the walk of find has found and has still to read.
Working(r) ==
  LET w    == work[r]
      call == msg[r].call
  IN  /\ w \in Works
      /\ at[r] \in FsVerbs => FileCall(r)
      /\ at[r] = "get" => /\ call.verb = "get" /\ w.node \in Files \cup Links
                          /\ SafeResolve(RootOf(r), w.node)
                          /\ w.size \in Sizes /\ w.size <= InlineLimit
      /\ at[r] \in {"list", "refs"} => /\ call.verb = "ls" /\ w.node = Target(r)
                                       /\ SafeResolve(RootOf(r), w.node)
      /\ at[r] = "list" => w.node \in Dirs
      /\ at[r] = "refs" /\ w.node \in Dirs => w.pending \subseteq Entries[w.node]
      /\ at[r] = "walk" => /\ call.verb = "find" /\ w.want = call.want
                           /\ w.todo \subseteq Inside(RootOf(r))
                           /\ w.pending \subseteq Below[RootOf(r)] \cap w.want
                           /\ \A f \in w.refs : f.node \in Below[RootOf(r)] \cap w.want

\* An idle request's work is well typed.
LEMMA NoWorkType == NoWork \in Works
  BY DEF NoWork, Works, Unknown

\* A request that ends holds nothing.
LEMMA WorkingEnds ==
  ASSUME NEW r \in Requests, NEW x, Ends(r, x) PROVE Working(r)'
  BY NoWorkType DEF Ends, Working, FsVerbs, Works, NoWork

\* Every step keeps a verb inside its root: WalkDir goes down only.
LEMMA WorkingStep ==
  ASSUME Base, [Next]_vars, NEW r \in Requests, Working(r)
  PROVE  Working(r)'
<1>0. /\ UNCHANGED startVars /\ RootOf(r)' = RootOf(r) /\ FileCall(r)' = FileCall(r)
      /\ Target(r)' = Target(r)
  <2>1. UNCHANGED startVars
    BY NextView
  <2>2. QED
    BY <2>1, Fixed DEF startVars, Target
<1>1. CASE Same(r)
  BY <1>0, <1>1 DEF Same, Working, startVars, SafeResolve
<1>2. CASE Dispatch(r)
  <2>1. CASE Brief(r) \/ Ends(r, CommandResult(r, StartFailed))
    BY <2>1, WorkingEnds DEF Brief
  <2>2. CASE Goes(r, "child", NoWork)
    BY <2>2, NoWorkType DEF Goes, Working, FsVerbs
  <2>3. CASE FileCall(r) /\ Opened(r)
    <3> DEFINE call == msg[r].call
               d == RootOf(r)
               n == Target(r)
    <3>0. d \in Dirs /\ msg[r] \in Messages /\ call.want \subseteq Files
      BY <2>3, RootType, CallAssumption DEF FileCall, Base
    <3>1. CASE call.verb = "find"
               /\ Goes(r, "walk", [NoWork EXCEPT !.todo = {d}, !.want = call.want])
      <4> DEFINE w == [NoWork EXCEPT !.todo = {d}, !.want = call.want]
      <4>1. w \in Works /\ w.todo = {d} /\ w.want = call.want /\ w.pending = {} /\ w.refs = {}
        BY <3>0 DEF Works, NoWork, Unknown
      <4>2. Goes(r, "walk", w)
        BY <3>1
      <4> HIDE DEF w
      <4>3. QED
        BY <1>0, <2>3, <3>1, <4>1, <4>2 DEF Goes, Working, startVars, FsVerbs, Inside
    <3>2. CASE call.verb = "ls" /\ SafeResolve(d, n) /\ n \notin Dirs
               /\ Goes(r, "refs", [NoWork EXCEPT !.node = n])
      <4>1. n \in Nodes
        BY <3>0, <3>2, TreeAssumption DEF SafeResolve, Nodes
      <4>2. QED
        BY <1>0, <2>3, <3>0, <3>2, <4>1, NoWorkType
           DEF Goes, Working, Works, NoWork, startVars, FsVerbs, SafeResolve, Resolved
    <3>3. CASE call.verb = "ls" /\ SafeResolve(d, n) /\ n \in Dirs
               /\ Goes(r, "list", [NoWork EXCEPT !.node = n])
      BY <1>0, <2>3, <3>0, <3>3, NoWorkType
         DEF Goes, Working, Works, NoWork, startVars, FsVerbs, SafeResolve, Resolved, Nodes
    <3>4. CASE /\ call.verb = "get" /\ call.path # NoNode /\ SafeResolve(d, call.path)
               /\ call.path \notin Dirs
               /\ StatOK(Resolved(call.path)) /\ fs[Resolved(call.path)] <= InlineLimit
               /\ Goes(r, "get", [NoWork EXCEPT !.node = call.path,
                                                !.size = fs[Resolved(call.path)]])
      <4>1. call.path \in Files \cup Links /\ call.path \in Nodes
        BY <3>0, <3>4, TreeAssumption DEF SafeResolve, Nodes
      <4>2. fs[Resolved(call.path)] \in Sizes
        BY <3>4, <4>1, TreeAssumption DEF StatOK, Resolved, Base
      <4>3. QED
        <5> DEFINE w == [NoWork EXCEPT !.node = call.path, !.size = fs[Resolved(call.path)]]
        <5>1. w \in Works /\ w.node = call.path /\ w.size = fs[Resolved(call.path)]
          BY <4>1, <4>2 DEF Works, NoWork, Unknown
        <5>2. Goes(r, "get", w)
          BY <3>4
        <5> HIDE DEF w
        <5>3. QED
          BY <1>0, <2>3, <3>4, <4>1, <4>2, <5>1, <5>2
             DEF Goes, Working, startVars, FsVerbs, SafeResolve
    <3>5. QED
      BY <2>3, <3>1, <3>2, <3>3, <3>4 DEF Opened, Target
  <2>4. QED
    BY <1>2, <2>1, <2>2, <2>3, DispatchView
<1>3. CASE HttpRefuse(r)
  BY <1>3, FinishView, WorkingEnds DEF HttpRefuse
<1>4. CASE RunReturn(r)
  BY <1>4, FinishView, WorkingEnds DEF RunReturn
<1>5. CASE FsGetRead(r)
  BY <1>5, FinishView, WorkingEnds DEF FsGetRead
<1>6. CASE FsReadDir(r)
  <2> DEFINE w == [work[r] EXCEPT !.pending = {n \in Entries[work[r].node] : StatOK(n)}]
  <2>1. at[r] = "list" /\ Goes(r, "refs", w)
    BY <1>6, GoView DEF FsReadDir, FsVerbs
  <2>2. w \in Works
    BY <2>1, TreeAssumption DEF Working, Works
  <2>3. QED
    BY <1>0, <2>1, <2>2 DEF Goes, Working, Works, FsVerbs, startVars, SafeResolve
<1>7. CASE FsListRefs(r)
  BY <1>7, FinishView, WorkingEnds DEF FsListRefs
<1>8. CASE WalkDir(r)
  <2>1. PICK d \in work[r].todo :
          Go(r, "walk", [work[r] EXCEPT
            !.todo = (work[r].todo \ {d}) \cup (Entries[d] \cap Dirs),
            !.pending = work[r].pending \cup {n \in Entries[d] \cap Files :
                                   MatchFind(n, work[r].want) /\ StatOK(n)}])
    BY <1>8 DEF WalkDir
  <2> DEFINE w == [work[r] EXCEPT
            !.todo = (work[r].todo \ {d}) \cup (Entries[d] \cap Dirs),
            !.pending = work[r].pending \cup {n \in Entries[d] \cap Files :
                                   MatchFind(n, work[r].want) /\ StatOK(n)}]
  <2>2. at[r] = "walk" /\ Goes(r, "walk", w)
    BY <1>8, <2>1, GoView DEF WalkDir, FsVerbs
  <2>3. d \in Dirs /\ Entries[d] \subseteq Nodes /\ Entries[d] \subseteq Below[RootOf(r)]
    <3>1. d \in Dirs /\ d \in Inside(RootOf(r)) /\ RootOf(r) \in Dirs
      BY <2>2, RootType DEF Working, Works, FsVerbs
    <3>2. Entries[d] \subseteq Below[d] /\ Below[d] \subseteq Below[RootOf(r)]
      BY <3>1, TreeAssumption DEF Inside
    <3>3. QED
      BY <3>1, <3>2, TreeAssumption
  <2>4. w \in Works
    BY <2>2, <2>3 DEF Working, Works, Nodes
  <2>5. /\ FileCall(r) /\ msg[r].call.verb = "find" /\ work[r].want = msg[r].call.want
        /\ work[r].todo \subseteq Inside(RootOf(r))
        /\ work[r].pending \subseteq Below[RootOf(r)] \cap work[r].want
        /\ \A f \in work[r].refs : f.node \in Below[RootOf(r)] \cap work[r].want
        /\ work[r] \in Works
    BY <2>2 DEF Working, FsVerbs
  <2>6. /\ w.want = work[r].want /\ w.refs = work[r].refs
        /\ w.todo = (work[r].todo \ {d}) \cup (Entries[d] \cap Dirs)
        /\ w.pending = work[r].pending \cup {n \in Entries[d] \cap Files :
                                   MatchFind(n, work[r].want) /\ StatOK(n)}
    BY <2>5 DEF Works
  <2>7. /\ w.todo \subseteq Inside(RootOf(r))
        /\ w.pending \subseteq Below[RootOf(r)] \cap w.want
    BY <2>3, <2>5, <2>6 DEF Inside, MatchFind
  <2> HIDE DEF w
  <2>8. QED
    BY <1>0, <2>2, <2>4, <2>5, <2>6, <2>7 DEF Goes, Working, FsVerbs, startVars, Inside
<1>9. CASE WalkFile(r)
  <2>1. PICK n \in work[r].pending :
       LET refs == IF StatOK(n) THEN work[r].refs \cup {FileRefAt(n)} ELSE work[r].refs
       IN  IF Cardinality(refs) >= MaxFind THEN Finish(r, FsRecordsResult(refs, TRUE))
           ELSE Go(r, "walk", [work[r] EXCEPT !.pending = work[r].pending \ {n}, !.refs = refs])
    BY <1>9 DEF WalkFile
  <2> DEFINE refs == IF StatOK(n) THEN work[r].refs \cup {FileRefAt(n)} ELSE work[r].refs
             w == [work[r] EXCEPT !.pending = work[r].pending \ {n}, !.refs = refs]
  <2>2. CASE Finish(r, FsRecordsResult(refs, TRUE))
    BY <2>2, FinishView, WorkingEnds
  <2>3. CASE Go(r, "walk", w)
    <3>1. at[r] = "walk" /\ Goes(r, "walk", w)
      BY <1>9, <2>3, GoView DEF WalkFile, FsVerbs
    <3>2. n \in Files /\ n \in Below[RootOf(r)] \cap work[r].want
      BY <3>1 DEF Working, Works
    <3>3. StatOK(n) => FileRefAt(n) \in FileRefs /\ FileRefAt(n).node = n
      BY <3>2, TreeAssumption DEF StatOK, FileRefAt, FileRefs, Resolved, Nodes, Base
    <3>4. w \in Works /\ \A f \in refs : f.node \in Below[RootOf(r)] \cap work[r].want
      BY <3>1, <3>2, <3>3 DEF Working, Works
    <3>5. QED
      BY <1>0, <3>1, <3>4 DEF Goes, Working, Works, FsVerbs, startVars
  <2>4. QED
    BY <2>1, <2>2, <2>3
<1>10. CASE FindReturn(r)
  BY <1>10, FinishView, WorkingEnds DEF FindReturn
<1>11. QED
  BY <1>1, <1>2, <1>3, <1>4, <1>5, <1>6, <1>7, <1>8, <1>9, <1>10, StepView
     DEF Own, FileStep

\* Contents and references of a reply are inside the caller's root, and the
\* references that replace paths in a command's result inside its roots.
Replied(r) ==
  LET x == reply[r]
  IN  /\ at[r] = "done" <=> x # NoReply
      /\ x.kind \in {"data", "files"} => FileCall(r)
      /\ x.kind = "data" => /\ x.file \in Files /\ x.size \in Sizes /\ x.ref \in FileRefs
                            /\ {x.file, x.ref.node} \subseteq Inside(RootOf(r))
      /\ x.kind = "files" => /\ x.refs \subseteq FileRefs
                             /\ \A f \in x.refs : f.node \in Inside(RootOf(r)) \cup {NoNode}
      /\ x.kind = "command" =>
           \A i \in DOMAIN x.result.records :
             x.result.records[i].form = "ref" => x.result.records[i].file \in FilesIn(Roots(r))

\* The references that ls and find make are well typed and name their node.
LEMMA RefTypes ==
  ASSUME Base, NEW n \in Nodes
  PROVE  /\ DirEntryRef(n) \in FileRefs /\ DirEntryRef(n).node = n
         /\ n \notin Dirs /\ StatOK(Resolved(n)) =>
              FileRefAt(n) \in FileRefs /\ FileRefAt(n).node = n
         /\ NewFileRef(NoNode) \in FileRefs /\ NewFileRef(NoNode).node = NoNode
  BY TreeAssumption
     DEF DirEntryRef, FileRefAt, NewFileRef, StatOK, Resolved, FileRefs, Nodes, Base

\* The entries of a directory inside d are below d.
LEMMA InsideDir ==
  ASSUME NEW d \in Dirs, NEW e \in Dirs, e \in Inside(d)
  PROVE  Entries[e] \subseteq Below[d]
  BY TreeAssumption DEF Inside

\* rewriteFileRefs replaces paths below the given roots only.
LEMMA RewritesInside ==
  ASSUME NEW o, NEW F, NEW i \in DOMAIN T!Translated(o, F).records,
         T!Translated(o, F).records[i].form = "ref"
  PROVE  T!Translated(o, F).records[i].file \in F
  BY DEF T!Translated, T!ProcessStdout, T!RewriteFileRefs

\* Every step keeps Replied: what a verb holds (Working) is what it replies.
LEMMA RepliedStep ==
  ASSUME Base, [Next]_vars, NEW r \in Requests, Working(r), Replied(r)
  PROVE  Replied(r)'
<1>0. /\ UNCHANGED startVars /\ RootOf(r)' = RootOf(r) /\ FileCall(r)' = FileCall(r)
      /\ Roots(r)' = Roots(r) /\ FilesIn(Roots(r))' = FilesIn(Roots(r))
  <2>1. UNCHANGED startVars
    BY NextView
  <2>2. QED
    BY <2>1, Fixed DEF FilesIn
<1>1. CASE Same(r)
  BY <1>0, <1>1 DEF Same, Replied
<1>2. ASSUME Brief(r) PROVE Replied(r)'
  BY <1>2 DEF Brief, Ends, Replied, NoReply
<1>3. ASSUME NEW o, Ends(r, CommandResult(r, o)) PROVE Replied(r)'
  <2>1. /\ reply'[r].kind = "command" /\ at'[r] = "done"
        /\ reply'[r].result = T!Translated(o, FilesIn(Roots(r)))
    BY <1>3 DEF Ends, CommandResult
  <2>2. QED
    BY <1>0, <2>1, RewritesInside DEF Replied, NoReply
<1>4. ASSUME NEW s \in {"child"} \cup FsVerbs, NEW w, Goes(r, s, w), at[r] # "done"
      PROVE  Replied(r)'
  BY <1>0, <1>4 DEF Goes, Replied, NoReply, FsVerbs
<1>5. CASE at[r] = "idle" /\ Dispatch(r)
  BY <1>2, <1>3, <1>4, <1>5, DispatchView DEF Opened, FsVerbs
<1>6. CASE HttpRefuse(r)
  BY <1>2, <1>6, FinishView DEF HttpRefuse, Brief
<1>7. CASE RunReturn(r)
  BY <1>3, <1>7, FinishView DEF RunReturn
<1>8. CASE FsGetRead(r)
  <2> DEFINE n == work[r].node
             f == Resolved(n)
             x == [kind |-> "data", file |-> f, size |-> fs[f],
                   ref |-> [node |-> n, size |-> work[r].size]]
  <2>1. CASE Finish(r, NativeError)
    BY <1>2, <2>1, FinishView DEF Brief, NativeError
  <2>2. CASE at[r] = "get" /\ StatOK(f) /\ Finish(r, x)
    <3>1. /\ FileCall(r) /\ n \in Files \cup Links /\ SafeResolve(RootOf(r), n)
          /\ work[r].size \in Sizes
      BY <2>2 DEF Working, FsVerbs
    <3>2. f \in Files /\ fs[f] \in Sizes /\ n \in Nodes
      BY <2>2, <3>1, TreeAssumption DEF Base, StatOK, Resolved, Nodes
    <3>3. at'[r] = "done" /\ reply'[r] = x
      BY <2>2, FinishView DEF Ends
    <3>4. x.kind = "data" /\ x.file = f /\ x.size = fs[f] /\ x.ref \in FileRefs /\ x.ref.node = n
      BY <3>1, <3>2 DEF FileRefs
    <3>5. QED
      BY <1>0, <3>1, <3>2, <3>3, <3>4 DEF Replied, NoReply, SafeResolve, Inside
  <2>3. QED
    BY <1>8, <2>1, <2>2 DEF FsGetRead
<1>9. CASE FsReadDir(r)
  BY <1>4, <1>9, GoView DEF FsReadDir, FsVerbs
<1>10. ASSUME NEW refs \in SUBSET FileRefs, NEW b, Finish(r, FsRecordsResult(refs, b)),
              FileCall(r),
              \A f \in refs : f.node \in Inside(RootOf(r)) \cup {NoNode}
       PROVE  Replied(r)'
  <2>1. at'[r] = "done" /\ reply'[r].kind = "files" /\ reply'[r].refs = refs
    BY <1>10, FinishView DEF Ends, FsRecordsResult
  <2>2. QED
    BY <1>0, <1>10, <2>1 DEF Replied, NoReply
<1>11. CASE FsListRefs(r)
  <2> DEFINE n == work[r].node
             refs == IF n \in Dirs THEN {DirEntryRef(e) : e \in work[r].pending}
                     ELSE {IF StatOK(Resolved(n)) THEN FileRefAt(n) ELSE NewFileRef(NoNode)}
  <2>1. at[r] = "refs" /\ Finish(r, FsRecordsResult(refs, FALSE))
    BY <1>11 DEF FsListRefs
  <2>2. /\ FileCall(r) /\ RootOf(r) \in Dirs /\ n \in Inside(RootOf(r)) /\ n \in Nodes
        /\ n \in Dirs => work[r].pending \subseteq Entries[n]
    <3>1. /\ FileCall(r) /\ SafeResolve(RootOf(r), n)
          /\ n \in Dirs => work[r].pending \subseteq Entries[n]
      BY <2>1 DEF Working, FsVerbs
    <3>2. RootOf(r) \in Dirs
      BY <3>1, RootType
    <3>3. QED
      BY <3>1, <3>2, TreeAssumption DEF SafeResolve, Inside, Nodes
  <2>3. refs \in SUBSET FileRefs /\ \A f \in refs : f.node \in Inside(RootOf(r)) \cup {NoNode}
    <3>1. CASE n \in Dirs
      <4>1. work[r].pending \subseteq Nodes /\ work[r].pending \subseteq Below[RootOf(r)]
        BY <2>2, <3>1, InsideDir, TreeAssumption
      <4>2. QED
        BY <3>1, <4>1, RefTypes DEF Inside
    <3>2. CASE n \notin Dirs
      BY <2>2, <3>2, RefTypes
    <3>3. QED
      BY <3>1, <3>2
  <2> HIDE DEF refs
  <2>4. QED
    BY <1>10, <2>1, <2>2, <2>3
<1>12. CASE WalkDir(r)
  BY <1>4, <1>12, GoView DEF WalkDir, FsVerbs
<1>13. CASE WalkFile(r)
  <2>1. PICK n \in work[r].pending :
       LET refs == IF StatOK(n) THEN work[r].refs \cup {FileRefAt(n)} ELSE work[r].refs
       IN  IF Cardinality(refs) >= MaxFind THEN Finish(r, FsRecordsResult(refs, TRUE))
           ELSE Go(r, "walk", [work[r] EXCEPT !.pending = work[r].pending \ {n}, !.refs = refs])
    BY <1>13 DEF WalkFile
  <2> DEFINE refs == IF StatOK(n) THEN work[r].refs \cup {FileRefAt(n)} ELSE work[r].refs
             w == [work[r] EXCEPT !.pending = work[r].pending \ {n}, !.refs = refs]
  <2>2. CASE Finish(r, FsRecordsResult(refs, TRUE))
    <3>1. /\ at[r] = "walk" /\ FileCall(r) /\ work[r].refs \subseteq FileRefs
          /\ n \in Files /\ n \in Below[RootOf(r)]
          /\ \A f \in work[r].refs : f.node \in Below[RootOf(r)]
      BY <1>13 DEF WalkFile, Working, Works, FsVerbs
    <3>2. n \in Nodes /\ n \notin Dirs /\ Resolved(n) = n
      BY <3>1, TreeAssumption DEF Nodes, Resolved
    <3>3. StatOK(n) => FileRefAt(n) \in FileRefs /\ FileRefAt(n).node = n
      BY <3>2, RefTypes
    <3>4. refs \subseteq FileRefs /\ \A f \in refs : f.node \in Inside(RootOf(r))
      BY <3>1, <3>3 DEF Inside
    <3>5. QED
      BY <1>10, <2>2, <3>1, <3>4
  <2>3. CASE Go(r, "walk", w)
    BY <1>4, <1>13, <2>3, GoView DEF WalkFile, FsVerbs
  <2>4. QED
    BY <2>1, <2>2, <2>3
<1>14. CASE FindReturn(r)
  <2>1. /\ FileCall(r) /\ work[r].refs \in SUBSET FileRefs
        /\ \A f \in work[r].refs : f.node \in Inside(RootOf(r))
    BY <1>14 DEF FindReturn, Working, Works, FsVerbs, Inside
  <2>2. QED
    BY <1>10, <1>14, <2>1 DEF FindReturn
<1>15. QED
  BY <1>1, <1>5, <1>6, <1>7, <1>8, <1>9, <1>11, <1>12, <1>13, <1>14, StepView
     DEF Own, FileStep

-----------------------------------------------------------------------------
(***************************************************************************)
(* The inline limit                                                        *)
(***************************************************************************)

\* get's Stat saw the size the file has still, unless the file was written
\* since; and so did its reply.
Sized(r) ==
  /\ at[r] = "get" => \/ Resolved(work[r].node) \in touched[r]
                      \/ fs[Resolved(work[r].node)] = work[r].size
  /\ reply[r].kind = "data"
       /\ (reply[r].size > InlineLimit \/ reply[r].size # reply[r].ref.size)
       => reply[r].file \in touched[r]

\* Every step keeps Sized: a write between Stat and ReadFile is remembered.
LEMMA SizedStep ==
  ASSUME Base, [Next]_vars, NEW r \in Requests, Working(r), Replied(r), Sized(r)
  PROVE  Sized(r)'
<1>1. CASE Same(r) /\ UNCHANGED <<fs, touched>>
  BY <1>1 DEF Same, Sized
<1>2. CASE Same(r) /\ Changed(r)
  <2>1. PICK f \in Files :
          /\ \A g \in Files \ {f} : fs'[g] = fs[g]
          /\ touched'[r] = IF at[r] = "idle" THEN {} ELSE touched[r] \cup {f}
    BY <1>2 DEF Changed
  <2>2. CASE at[r] = "idle"
    BY <1>2, <2>2 DEF Same, Sized, Replied, NoReply
  <2>3. CASE at[r] # "idle"
    <3>1. at[r] = "get" => Resolved(work[r].node) \in Files
      BY TreeAssumption DEF Working, Resolved
    <3>2. QED
      BY <1>2, <2>1, <2>3, <3>1 DEF Same, Sized
  <2>4. QED
    BY <2>2, <2>3
<1>3. ASSUME NEW x, Ends(r, x), x.kind # "data" PROVE Sized(r)'
  BY <1>3 DEF Ends, Sized
<1>4. ASSUME NEW s, NEW w, Goes(r, s, w), s # "get", at[r] # "done" PROVE Sized(r)'
  BY <1>4 DEF Goes, Sized, Replied, NoReply
<1>5. CASE at[r] = "idle" /\ Dispatch(r)
  <2>1. CASE Brief(r) \/ Ends(r, CommandResult(r, StartFailed))
    BY <1>3, <2>1 DEF Brief, CommandResult
  <2>2. ASSUME NEW w, Goes(r, "get", w), w.size = fs[Resolved(w.node)], UNCHANGED fs
        PROVE  Sized(r)'
    BY <1>5, <2>2 DEF Goes, Sized, Replied, NoReply, Resolved
  <2>3. CASE Opened(r) /\ UNCHANGED fs
    <3> DEFINE w == [NoWork EXCEPT !.node = msg[r].call.path,
                                   !.size = fs[Resolved(msg[r].call.path)]]
    <3>1. w.size = fs[Resolved(w.node)]
      BY DEF NoWork
    <3>2. CASE Goes(r, "get", w)
      BY <2>2, <2>3, <3>1, <3>2
    <3>3. QED
      BY <1>4, <1>5, <2>3, <3>2 DEF Opened
  <2>4. QED
    BY <1>4, <1>5, <2>1, <2>3, DispatchView
<1>6. CASE HttpRefuse(r)
  BY <1>3, <1>6, FinishView DEF HttpRefuse
<1>7. CASE RunReturn(r)
  BY <1>3, <1>7, FinishView DEF RunReturn, CommandResult
<1>8. CASE FsGetRead(r) /\ UNCHANGED <<fs, touched>>
  <2> DEFINE f == Resolved(work[r].node)
             x == [kind |-> "data", file |-> f, size |-> fs[f],
                   ref |-> [node |-> work[r].node, size |-> work[r].size]]
  <2>1. CASE Finish(r, NativeError)
    BY <1>3, <2>1, FinishView DEF NativeError
  <2>2. CASE Finish(r, x)
    <3>1. at'[r] = "done" /\ reply'[r] = x
      BY <2>2, FinishView DEF Ends
    <3>2. at[r] = "get" /\ work[r].size <= InlineLimit /\ work[r].size \in Sizes
      BY <1>8 DEF FsGetRead, Working
    <3>3. QED
      BY <1>8, <3>1, <3>2, TreeAssumption DEF Sized
  <2>3. QED
    BY <1>8, <2>1, <2>2 DEF FsGetRead
<1>9. CASE FsReadDir(r) \/ WalkDir(r)
  BY <1>4, <1>9, GoView DEF FsReadDir, WalkDir, FsVerbs
<1>10. CASE FsListRefs(r) \/ FindReturn(r)
  BY <1>3, <1>10, FinishView DEF FsListRefs, FindReturn, FsRecordsResult
<1>11. CASE WalkFile(r)
  BY <1>3, <1>4, <1>11, FinishView, GoView DEF WalkFile, FsRecordsResult, FsVerbs
<1>12. QED
  BY <1>1, <1>2, <1>5, <1>6, <1>7, <1>8, <1>9, <1>10, <1>11, StepView
     DEF Own, FileStep

-----------------------------------------------------------------------------
(***************************************************************************)
(* Listings                                                                *)
(***************************************************************************)

\* The nodes of a set of references.
NodesOf(refs) == {f.node : f \in refs}

\* The body of ListingComplete for a reply of request r.
Complete(r, refs, truncated) ==
  /\ ~ truncated =>
       \A n \in Asked(r) : Stable(r, n) /\ StatOK(Resolved(n)) /\ Stable(r, Resolved(n))
                             => n \in NodesOf(refs)
  /\ \A n \in NodesOf(refs) \ {NoNode} : n \in Asked(r) /\ (Stable(r, n) => StatOK(n))

\* os.ReadDir saw exactly the entries that are there, as far as no one wrote them.
Listed(r) ==
  at[r] = "refs" /\ work[r].node \in Dirs =>
    \A n \in Entries[work[r].node] : Stable(r, n) => (n \in work[r].pending <=> StatOK(n))

\* What find has seen was there, and what is there it has seen or will see below
\* a directory it has still to read, as far as no one wrote it.
Walked(r) ==
  LET seen == work[r].pending \cup NodesOf(work[r].refs)
  IN  at[r] = "walk" =>
        /\ \A n \in seen : Stable(r, n) => StatOK(n)
        /\ \A n \in Below[RootOf(r)] \cap work[r].want :
             Stable(r, n) /\ StatOK(n) => n \in seen \/ \E d \in work[r].todo : n \in Below[d]

\* A listing is complete at every stage, and so is the reply.
Listing(r) ==
  /\ Listed(r) /\ Walked(r)
  /\ reply[r].kind = "files" => Complete(r, reply[r].refs, reply[r].truncated)

\* A file that no one has written is as it was.
LEMMA StableKept ==
  ASSUME NEW r \in Requests, NEW n,
         UNCHANGED <<fs, touched>> \/ (at[r] # "idle" /\ Changed(r)), Stable(r, n)'
  PROVE  Stable(r, n) /\ StatOK(n)' = StatOK(n)
  BY DEF Stable, StatOK, Changed

\* A complete reply stays complete: writes only make it promise less.
LEMMA CompleteKept ==
  ASSUME NEW r \in Requests, UNCHANGED startVars,
         UNCHANGED <<fs, touched>> \/ (at[r] # "idle" /\ Changed(r)),
         NEW refs, NEW b, Complete(r, refs, b)
  PROVE  Complete(r, refs, b)'
<1>0. Asked(r)' = Asked(r)
  BY Fixed
<1>1. ASSUME NEW n \in Asked(r), Stable(r, n)', StatOK(Resolved(n))', Stable(r, Resolved(n))', ~ b
      PROVE  n \in NodesOf(refs)
  <2>1. Stable(r, n)
    BY <1>1, StableKept
  <2>2. Stable(r, Resolved(n)) /\ StatOK(Resolved(n))
    <3> DEFINE m == Resolved(n)
    <3>1. Stable(r, m)' /\ StatOK(m)'
      BY <1>1
    <3> HIDE DEF m
    <3>2. Stable(r, m) /\ StatOK(m)
      BY <3>1, StableKept
    <3>3. QED
      BY <3>2 DEF m
  <2>3. QED
    BY <1>1, <2>1, <2>2 DEF Complete
<1>2. ASSUME NEW n \in NodesOf(refs) \ {NoNode}, Stable(r, n)' PROVE StatOK(n)'
  BY <1>2, StableKept DEF Complete
<1>3. QED
  BY <1>0, <1>1, <1>2 DEF Complete

\* A write of another keeps Listing.
LEMMA ListingSame ==
  ASSUME NEW r \in Requests, UNCHANGED startVars, Same(r), Listing(r), Replied(r),
         UNCHANGED <<fs, touched>> \/ Changed(r)
  PROVE  Listing(r)'
<1>1. CASE at[r] = "idle"
  BY <1>1 DEF Same, Listing, Listed, Walked, Replied, NoReply
<1>2. CASE at[r] # "idle"
  <2>0. UNCHANGED <<fs, touched>> \/ (at[r] # "idle" /\ Changed(r))
    BY <1>2
  <2>1. Listed(r)'
    <3>1. \A n : Stable(r, n)' => Stable(r, n) /\ StatOK(n)' = StatOK(n)
      BY <2>0, StableKept
    <3>2. Listed(r) /\ at'[r] = at[r] /\ work'[r] = work[r]
      BY DEF Same, Listing
    <3>3. QED
      BY <3>1, <3>2 DEF Listed
  <2>2. Walked(r)'
    <3>1. \A n : Stable(r, n)' => Stable(r, n) /\ StatOK(n)' = StatOK(n)
      BY <2>0, StableKept
    <3>2. Walked(r) /\ at'[r] = at[r] /\ work'[r] = work[r] /\ RootOf(r)' = RootOf(r)
      BY Fixed DEF Same, Listing
    <3>3. QED
      BY <3>1, <3>2 DEF Walked
  <2>3. reply'[r].kind = "files" => Complete(r, reply[r].refs, reply[r].truncated)'
    <3> SUFFICES ASSUME reply'[r].kind = "files"
                 PROVE  Complete(r, reply[r].refs, reply[r].truncated)'
      OBVIOUS
    <3>1. PICK refs, b : refs = reply[r].refs /\ b = reply[r].truncated
      OBVIOUS
    <3>2. reply'[r].refs = refs /\ reply'[r].truncated = b /\ Complete(r, refs, b)
      BY <3>1 DEF Same, Listing
    <3>3. Complete(r, refs, b)'
      BY <2>0, <3>2, CompleteKept
    <3>4. QED
      BY <3>2, <3>3 DEF Complete
  <2>4. QED
    BY <2>1, <2>2, <2>3 DEF Listing, Same
<1>3. QED
  BY <1>1, <1>2

\* A reply without references keeps Listing.
LEMMA ListingEnds ==
  ASSUME NEW r \in Requests, NEW x, Ends(r, x), x.kind # "files"
  PROVE  Listing(r)'
  BY DEF Ends, Listing, Listed, Walked

\* A complete reply establishes Listing.
LEMMA ListingFiles ==
  ASSUME Base, NEW r \in Requests, UNCHANGED startVars, UNCHANGED <<fs, touched>>,
         NEW refs, NEW b, Finish(r, FsRecordsResult(refs, b)), Complete(r, refs, b)
  PROVE  Listing(r)'
<1>1. Complete(r, refs, b)'
  BY CompleteKept
<1>2. at'[r] = "done" /\ reply'[r].refs = refs /\ reply'[r].truncated = b
  BY FinishView DEF Ends, FsRecordsResult
<1>3. QED
  BY <1>1, <1>2 DEF Listing, Listed, Walked, Complete

\* What is asked for, by verb.
LEMMA AskedNodes ==
  ASSUME Base, NEW r \in Requests, FileCall(r)
  PROVE  /\ msg[r].call.verb = "find" => Asked(r) = Below[RootOf(r)] \cap msg[r].call.want
         /\ msg[r].call.verb = "ls" /\ Target(r) \in Dirs => Asked(r) = Entries[Target(r)]
         /\ msg[r].call.verb = "ls" /\ Target(r) \notin Dirs => Asked(r) = {Target(r)}
         /\ Asked(r) \subseteq Nodes
<1>1. /\ RootOf(r) \in Dirs /\ msg[r].call.path \in Nodes \cup {NoNode}
      /\ msg[r].call.want \subseteq Files /\ NoNode \notin Nodes
  BY RootType, CallAssumption, TreeAssumption DEF FileCall, Base
<1>2. /\ Entries[RootOf(r)] \subseteq Nodes /\ Dirs \subseteq Nodes /\ RootOf(r) \in Nodes
      /\ \A d \in Dirs : Entries[d] \subseteq Nodes
      /\ msg[r].call.want \subseteq Nodes
  BY <1>1, TreeAssumption DEF Nodes
<1>3. \/ msg[r].call.verb = "find"
      \/ msg[r].call.path = NoNode
      \/ msg[r].call.path \in Dirs
      \/ msg[r].call.path \in Nodes \ Dirs
  BY <1>1
<1>4. QED
  BY <1>1, <1>2, <1>3 DEF Asked, Target, RootOf

\* The reply of ls is complete: DirEntryRef keeps an entry that vanished.
LEMMA ListRefsStep ==
  ASSUME Base, NEW r \in Requests, UNCHANGED startVars, UNCHANGED <<fs, touched>>,
         Working(r), Listing(r), FsListRefs(r)
  PROVE  Listing(r)'
<1> DEFINE n == work[r].node
           refs == IF n \in Dirs THEN {DirEntryRef(e) : e \in work[r].pending}
                   ELSE {IF StatOK(Resolved(n)) THEN FileRefAt(n) ELSE NewFileRef(NoNode)}
<1>1. at[r] = "refs" /\ Finish(r, FsRecordsResult(refs, FALSE))
  BY DEF FsListRefs
<1>2. /\ FileCall(r) /\ msg[r].call.verb = "ls" /\ n = Target(r) /\ n \in Nodes \cup {NoNode}
      /\ n \in Dirs => work[r].pending \subseteq Entries[n]
  BY <1>1 DEF Working, Works, FsVerbs
<1>3. Complete(r, refs, FALSE)
  <2>1. CASE n \in Dirs
    <3>1. Asked(r) = Entries[n] /\ Entries[n] \subseteq Nodes
      BY <1>2, <2>1, AskedNodes, TreeAssumption
    <3>2. \A e \in Nodes : DirEntryRef(e).node = e
      BY RefTypes
    <3>3. NodesOf(refs) = work[r].pending
      BY <1>2, <2>1, <3>1, <3>2 DEF NodesOf
    <3>4. \A e \in Entries[n] : Stable(r, e) => (e \in work[r].pending <=> StatOK(e))
      BY <1>1, <2>1 DEF Listing, Listed
    <3>5. \A e \in Entries[n] : StatOK(Resolved(e)) => StatOK(e)
      BY TreeAssumption DEF StatOK, Resolved
    <3> HIDE DEF refs
    <3>6. QED
      BY <1>2, <2>1, <3>1, <3>3, <3>4, <3>5 DEF Complete
  <2>2. CASE n \notin Dirs
    <3>1. Asked(r) = {n} /\ n \in Nodes
      BY <1>2, <2>2, AskedNodes
    <3>2. NodesOf(refs) = IF StatOK(Resolved(n)) THEN {n} ELSE {NoNode}
      BY <2>2 DEF NodesOf, FileRefAt, NewFileRef
    <3>3. StatOK(Resolved(n)) => StatOK(n)
      BY TreeAssumption DEF StatOK, Resolved
    <3> HIDE DEF refs
    <3>4. QED
      BY <3>1, <3>2, <3>3 DEF Complete
  <2>3. QED
    BY <2>1, <2>2
<1>4. PICK y : y = refs
  OBVIOUS
<1> HIDE DEF refs
<1>5. QED
  BY <1>1, <1>3, <1>4, ListingFiles

\* Reading one more directory keeps Walked: its files become pending and its
\* subdirectories to do.
LEMMA WalkDirStep ==
  ASSUME Base, NEW r \in Requests, UNCHANGED startVars, UNCHANGED <<fs, touched>>,
         Working(r), Replied(r), Listing(r), WalkDir(r)
  PROVE  Listing(r)'
<1>1. PICK d \in work[r].todo :
        Go(r, "walk", [work[r] EXCEPT
          !.todo = (work[r].todo \ {d}) \cup (Entries[d] \cap Dirs),
          !.pending = work[r].pending \cup {n \in Entries[d] \cap Files :
                                 MatchFind(n, work[r].want) /\ StatOK(n)}])
  BY DEF WalkDir
<1>2. /\ at[r] = "walk" /\ at'[r] = "walk" /\ reply'[r] = reply[r] /\ work[r] \in Works
      /\ work'[r] = [work[r] EXCEPT
          !.todo = (work[r].todo \ {d}) \cup (Entries[d] \cap Dirs),
          !.pending = work[r].pending \cup {n \in Entries[d] \cap Files :
                                 MatchFind(n, work[r].want) /\ StatOK(n)}]
  BY <1>1, GoView DEF WalkDir, FsVerbs, Goes, Working
<1>3. /\ work'[r].todo = (work[r].todo \ {d}) \cup (Entries[d] \cap Dirs)
      /\ work'[r].pending = work[r].pending \cup {n \in Entries[d] \cap Files :
                                 n \in work[r].want /\ StatOK(n)}
      /\ work'[r].refs = work[r].refs /\ work'[r].want = work[r].want
      /\ work[r].want \subseteq Files /\ d \in Dirs
  BY <1>2 DEF Works, MatchFind
<1>4. RootOf(r)' = RootOf(r) /\ reply[r] = NoReply
  BY <1>2, Fixed DEF Replied
<1>5. \A n : Stable(r, n)' = Stable(r, n) /\ StatOK(n)' = StatOK(n)
  BY DEF Stable, StatOK
<1>6. Below[d] = Entries[d] \cup UNION {Below[e] : e \in Entries[d] \cap Dirs}
  BY <1>3, TreeAssumption
<1>7. Walked(r)'
  <2> DEFINE seen == work[r].pending \cup NodesOf(work[r].refs)
             seen2 == work'[r].pending \cup NodesOf(work'[r].refs)
  <2>1. \A n \in seen2 : Stable(r, n) => StatOK(n)
    BY <1>2, <1>3 DEF Listing, Walked
  <2>2. ASSUME NEW n \in Below[RootOf(r)] \cap work[r].want, Stable(r, n), StatOK(n)
        PROVE  n \in seen2 \/ \E e \in work'[r].todo : n \in Below[e]
    <3>1. n \in seen \/ \E e \in work[r].todo : n \in Below[e]
      BY <1>2, <2>2 DEF Listing, Walked
    <3>2. CASE n \in Below[d]
      BY <1>3, <1>6, <2>2, <3>2
    <3>3. QED
      BY <1>3, <3>1, <3>2
  <2>3. QED
    BY <1>2, <1>3, <1>4, <1>5, <2>1, <2>2 DEF Walked, NodesOf
<1>8. QED
  BY <1>2, <1>4, <1>7 DEF Listing, Listed, NoReply

\* The walk's callback keeps Walked: it drops a pending file only if it has
\* vanished, and stops only with a truncated reply.
LEMMA WalkFileStep ==
  ASSUME Base, NEW r \in Requests, UNCHANGED startVars, UNCHANGED <<fs, touched>>,
         Working(r), Replied(r), Listing(r), WalkFile(r)
  PROVE  Listing(r)'
<1>1. PICK n \in work[r].pending :
       LET refs == IF StatOK(n) THEN work[r].refs \cup {FileRefAt(n)} ELSE work[r].refs
       IN  IF Cardinality(refs) >= MaxFind THEN Finish(r, FsRecordsResult(refs, TRUE))
           ELSE Go(r, "walk", [work[r] EXCEPT !.pending = work[r].pending \ {n}, !.refs = refs])
  BY DEF WalkFile
<1>2. PICK refs : refs = IF StatOK(n) THEN work[r].refs \cup {FileRefAt(n)} ELSE work[r].refs
  OBVIOUS
<1>3. /\ at[r] = "walk" /\ work[r] \in Works /\ FileCall(r) /\ msg[r].call.verb = "find"
      /\ work[r].want = msg[r].call.want /\ n \in Below[RootOf(r)] \cap work[r].want
      /\ \A f \in work[r].refs : f.node \in Below[RootOf(r)] \cap work[r].want
  BY DEF WalkFile, Working, FsVerbs
<1>4. NodesOf(refs) = NodesOf(work[r].refs) \cup (IF StatOK(n) THEN {n} ELSE {})
  <2>1. \A m : m \in NodesOf(refs) <=> \E f \in refs : m = f.node
    BY DEF NodesOf
  <2>2. \A m : m \in NodesOf(work[r].refs) <=> \E f \in work[r].refs : m = f.node
    BY DEF NodesOf
  <2>3. FileRefAt(n).node = n
    BY DEF FileRefAt
  <2>4. QED
    BY <1>2, <2>1, <2>2, <2>3
<1>5. \A m \in NodesOf(refs) : Stable(r, m) => StatOK(m)
  BY <1>3, <1>4 DEF Listing, Walked
<1>6. CASE Finish(r, FsRecordsResult(refs, TRUE))
  <2>1. \A m \in NodesOf(refs) : m \in Asked(r)
    BY <1>3, <1>4, AskedNodes DEF NodesOf
  <2>2. Complete(r, refs, TRUE)
    BY <1>5, <2>1 DEF Complete
  <2>3. QED
    BY <1>6, <2>2, ListingFiles
<1>7. CASE Go(r, "walk", [work[r] EXCEPT !.pending = work[r].pending \ {n}, !.refs = refs])
  <2>1. /\ at'[r] = "walk" /\ reply'[r] = reply[r]
        /\ work'[r] = [work[r] EXCEPT !.pending = work[r].pending \ {n}, !.refs = refs]
    BY <1>7, GoView DEF FsVerbs, Goes
  <2>2. /\ work'[r].todo = work[r].todo /\ work'[r].want = work[r].want
        /\ work'[r].pending = work[r].pending \ {n} /\ work'[r].refs = refs
    BY <1>3, <2>1 DEF Works
  <2>3. RootOf(r)' = RootOf(r) /\ reply[r] = NoReply
    BY <1>3, Fixed DEF Replied
  <2>4. \A m : Stable(r, m)' = Stable(r, m) /\ StatOK(m)' = StatOK(m)
    BY DEF Stable, StatOK
  <2>5. /\ \A m \in work'[r].pending \cup NodesOf(refs) : Stable(r, m) => StatOK(m)
        /\ \A m \in Below[RootOf(r)] \cap work[r].want : Stable(r, m) /\ StatOK(m) =>
             m \in work'[r].pending \cup NodesOf(refs) \/ \E d \in work[r].todo : m \in Below[d]
    BY <1>3, <1>4, <1>5, <2>2 DEF Listing, Walked
  <2>6. Walked(r)'
    BY <2>2, <2>3, <2>4, <2>5 DEF Walked, NodesOf
  <2>7. QED
    BY <2>1, <2>3, <2>6 DEF Listing, Listed, NoReply
<1>8. QED
  BY <1>1, <1>2, <1>6, <1>7

\* Every step keeps Listing.
LEMMA ListingStep ==
  ASSUME Base, [Next]_vars, NEW r \in Requests, Working(r), Replied(r), Listing(r)
  PROVE  Listing(r)'
<1>0. UNCHANGED startVars
  BY NextView
<1>1. CASE Same(r) /\ (UNCHANGED <<fs, touched>> \/ Changed(r))
  BY <1>0, <1>1, ListingSame
<1>2. CASE at[r] = "idle" /\ Dispatch(r) /\ UNCHANGED <<fs, touched>>
  <2>0. reply[r] = NoReply
    BY <1>2 DEF Replied
  <2>1. CASE Brief(r) \/ Ends(r, CommandResult(r, StartFailed))
    BY <2>1, ListingEnds DEF Brief, CommandResult
  <2>2. ASSUME NEW s \in {"child", "get", "list"}, NEW w, Goes(r, s, w)
        PROVE  Listing(r)'
    BY <2>0, <2>2 DEF Goes, Listing, Listed, Walked, NoReply
  <2>3. CASE Opened(r) /\ FileCall(r)
    <3> DEFINE w == [NoWork EXCEPT !.todo = {RootOf(r)}, !.want = msg[r].call.want]
               v == [NoWork EXCEPT !.node = Target(r)]
    <3>1. CASE Goes(r, "walk", w)
      <4>1. w.todo = {RootOf(r)} /\ w.pending = {} /\ w.refs = {}
        BY DEF NoWork
      <4>2. RootOf(r)' = RootOf(r) /\ at'[r] = "walk" /\ work'[r] = w /\ reply'[r] = NoReply
        BY <1>0, <2>0, <3>1, Fixed DEF Goes
      <4> HIDE DEF w
      <4>3. QED
        BY <4>1, <4>2 DEF Listing, Listed, Walked, NodesOf, NoReply
    <3>2. CASE Goes(r, "refs", v) /\ Target(r) \notin Dirs
      <4>1. v.node = Target(r)
        BY DEF NoWork
      <4>2. at'[r] = "refs" /\ work'[r] = v /\ reply'[r] = NoReply
        BY <2>0, <3>2 DEF Goes
      <4> HIDE DEF v
      <4>3. QED
        BY <3>2, <4>1, <4>2 DEF Listing, Listed, Walked, NoReply
    <3>3. QED
      BY <2>2, <2>3, <3>1, <3>2 DEF Opened, Target
  <2>4. QED
    BY <1>2, <2>1, <2>2, <2>3, DispatchView
<1>3. CASE HttpRefuse(r)
  BY <1>3, FinishView, ListingEnds DEF HttpRefuse
<1>4. CASE RunReturn(r)
  BY <1>4, FinishView, ListingEnds DEF RunReturn, CommandResult
<1>5. CASE FsGetRead(r)
  BY <1>5, FinishView, ListingEnds DEF FsGetRead, NativeError
<1>6. CASE FsReadDir(r) /\ UNCHANGED <<fs, touched>>
  <2> DEFINE w == [work[r] EXCEPT !.pending = {n \in Entries[work[r].node] : StatOK(n)}]
  <2>1. at[r] = "list" /\ Goes(r, "refs", w)
    BY <1>6, GoView DEF FsReadDir, FsVerbs
  <2>2. w.node = work[r].node /\ w.pending = {n \in Entries[work[r].node] : StatOK(n)}
    BY DEF Working, Works
  <2>3. reply[r] = NoReply /\ at'[r] = "refs" /\ work'[r] = w /\ reply'[r] = reply[r]
    BY <2>1 DEF Goes, Replied
  <2>4. \A n : StatOK(n)' = StatOK(n)
    BY <1>6 DEF StatOK
  <2> HIDE DEF w
  <2>5. QED
    BY <2>2, <2>3, <2>4 DEF Listing, Listed, Walked, NoReply
<1>7. CASE FsListRefs(r) /\ UNCHANGED <<fs, touched>>
  BY <1>0, <1>7, ListRefsStep
<1>8. CASE WalkDir(r) /\ UNCHANGED <<fs, touched>>
  BY <1>0, <1>8, WalkDirStep
<1>9. CASE WalkFile(r) /\ UNCHANGED <<fs, touched>>
  BY <1>0, <1>9, WalkFileStep
<1>10. CASE FindReturn(r) /\ UNCHANGED <<fs, touched>>
  <2>1. /\ at[r] = "walk" /\ work[r].todo = {} /\ work[r].pending = {} /\ FileCall(r)
        /\ msg[r].call.verb = "find" /\ work[r].want = msg[r].call.want
        /\ msg[r].call.want \subseteq Files
        /\ \A f \in work[r].refs : f.node \in Below[RootOf(r)] \cap work[r].want
    BY <1>10 DEF FindReturn, Working, Works, FsVerbs
  <2>2. PICK refs : refs = work[r].refs
    OBVIOUS
  <2>3. Asked(r) = Below[RootOf(r)] \cap work[r].want
    BY <2>1, AskedNodes
  <2>4. /\ \A n \in NodesOf(refs) : n \in Asked(r) /\ (Stable(r, n) => StatOK(n))
        /\ \A n \in Asked(r) : Stable(r, n) /\ StatOK(n) => n \in NodesOf(refs)
    BY <2>1, <2>2, <2>3 DEF Listing, Walked, NodesOf
  <2>5. \A n \in Asked(r) : StatOK(Resolved(n)) => StatOK(n)
    BY TreeAssumption DEF StatOK, Resolved
  <2>6. Complete(r, refs, FALSE)
    BY <2>4, <2>5 DEF Complete
  <2>7. QED
    BY <1>0, <1>10, <2>2, <2>6, ListingFiles DEF FindReturn
<1>11. QED
  BY <1>1, <1>2, <1>3, <1>4, <1>5, <1>6, <1>7, <1>8, <1>9, <1>10, StepView
     DEF Own, FileStep

-----------------------------------------------------------------------------
(***************************************************************************)
(* The argv of a command                                                   *)
(***************************************************************************)

\* The indices of an array.
LEMMA ArraySeq ==
  ASSUME NEW s, IsArray(s)
  PROVE  Len(s) \in Nat /\ DOMAIN s = 1..Len(s)
  BY DEF IsArray

\* The words of each flag, in the order of FlagNames.
Rendered(opts) ==
  [i \in 1..Len(FlagNames) |-> IF FlagNames[i] \in DOMAIN opts
                               THEN RenderFlag(FlagNames[i], opts[FlagNames[i]]) ELSE <<>>]

\* renderFlag makes a list of words.
LEMMA RenderFlagSeq ==
  ASSUME NEW name, NEW v, v[1] = "list" => IsArray(v[2])
  PROVE  IsArray(RenderFlag(name, v))
<1>1. CASE v[1] = "null"
  BY <1>1 DEF RenderFlag, IsArray
<1>2. CASE v[1] = "list"
  <2> DEFINE s == [i \in DOMAIN v[2] |-> Flag(name, Sprint(v[2][i]))]
             W == {s[i] : i \in DOMAIN s}
  <2>1. RenderFlag(name, v) = s
    BY <1>2 DEF RenderFlag
  <2>2. Len(v[2]) \in Nat /\ DOMAIN v[2] = 1..Len(v[2])
    BY <1>2, ArraySeq
  <2>3. DOMAIN s = 1..Len(v[2]) /\ s \in [DOMAIN s -> W]
    BY <2>2
  <2> HIDE DEF s
  <2>4. s \in [1..Len(v[2]) -> W]
    BY <2>3
  <2> HIDE DEF W
  <2>5. s \in Seq(W)
    BY <2>2, <2>4
  <2>6. QED
    BY <2>1, <2>5 DEF IsArray, W
<1>3. CASE v[1] \notin {"null", "list"}
  <2>1. PICK w : RenderFlag(name, v) = <<w>>
    BY <1>3 DEF RenderFlag
  <2>2. \A W : w \in W => <<w>> \in Seq(W)
    OBVIOUS
  <2>3. w \in {<<w>>[i] : i \in DOMAIN <<w>>}
    OBVIOUS
  <2>4. QED
    BY <2>1, <2>2, <2>3, Zenon DEF IsArray
<1>4. QED
  BY <1>1, <1>2, <1>3

\* renderOptions makes a list of words: the recursion over the sorted flags has
\* a value at every flag.
LEMMA RenderOptionsSeq ==
  ASSUME NEW opts, \A f \in DOMAIN opts : opts[f][1] = "list" => IsArray(opts[f][2])
  PROVE  \E W : RenderOptions(opts) \in Seq(W)
<1> DEFINE n == Len(FlagNames)
           p == Rendered(opts)
           D(f) == f = [i \in 0..n |-> IF i = 0 THEN <<>> ELSE f[i - 1] \o p[i]]
           W == UNION {{p[i][j] : j \in DOMAIN p[i]} : i \in 1..n}
<1>0. n \in Nat
  BY CallAssumption, ArraySeq
<1>1. \A i \in 1..n : IsArray(p[i])
  <2>1. IsArray(<<>>)
    BY DEF IsArray
  <2>2. QED
    BY <2>1, RenderFlagSeq DEF Rendered
<1>2. \A i \in 1..n : p[i] \in Seq(W)
  <2> SUFFICES ASSUME NEW i \in 1..n PROVE p[i] \in Seq(W)
    OBVIOUS
  <2> DEFINE V == {p[i][j] : j \in DOMAIN p[i]}
  <2>1. p[i] \in Seq(V)
    BY <1>1 DEF IsArray
  <2>2. V \subseteq W
    OBVIOUS
  <2> HIDE DEF V, W, p
  <2>3. QED
    BY <2>1, <2>2
<1> HIDE DEF W
<1>3. RenderOptions(opts) = (CHOOSE f : D(f))[n]
  BY DEF RenderOptions, Rendered
<1> HIDE DEF p
<1>4. \E f : D(f)
  BY <1>0, <1>2, ConcatExists
<1>5. PICK f : D(f) /\ RenderOptions(opts) = f[n]
  <2> HIDE DEF D
  <2>1. QED
    BY <1>3, <1>4
<1>6. f[n] \in Seq(W)
  BY <1>0, <1>2, <1>5, ConcatType
<1>7. QED
  BY <1>5, <1>6

\* Where the words of a concatenation are.
LEMMA ConcatWords ==
  ASSUME NEW S, NEW a \in Seq(S), NEW b \in Seq(S)
  PROVE  /\ a \o b \in Seq(S) /\ Len(a) \in Nat /\ Len(b) \in Nat
         /\ Len(a \o b) = Len(a) + Len(b) /\ DOMAIN (a \o b) = 1..(Len(a) + Len(b))
         /\ \A i \in 1..Len(a) : (a \o b)[i] = a[i]
         /\ \A i \in 1..Len(b) : (a \o b)[Len(a) + i] = b[i]
  OBVIOUS

\* The roles of the first words, for every number of words, exist as one
\* recursive function.
LEMMA RolesExist ==
  ASSUME NEW n \in Nat, NEW argv
  PROVE  \E f : f = [i \in 0..n |-> IF i = 0 THEN "arg" ELSE RoleOf(argv, i, f[i - 1])]
<1> DEFINE D(k, f) == f = [i \in 0..k |-> IF i = 0 THEN "arg" ELSE RoleOf(argv, i, f[i - 1])]
           G == {k \in Nat : \E f : D(k, f)}
<1>1. 0 \in G
  <2>1. D(0, [i \in 0..0 |-> "arg"])
    OBVIOUS
  <2>2. QED
    BY <2>1
<1>2. ASSUME NEW k \in Nat, k \in G PROVE k + 1 \in G
  <2>1. PICK f : D(k, f)
    BY <1>2
  <2> DEFINE g == [i \in 0..(k + 1) |-> IF i = k + 1 THEN RoleOf(argv, k + 1, f[k]) ELSE f[i]]
  <2>2. \A i \in 0..(k + 1) : g[i] = IF i = 0 THEN "arg" ELSE RoleOf(argv, i, g[i - 1])
    <3> SUFFICES ASSUME NEW i \in 0..(k + 1)
                 PROVE  g[i] = IF i = 0 THEN "arg" ELSE RoleOf(argv, i, g[i - 1])
      OBVIOUS
    <3>1. CASE i = k + 1
      <4>1. i # 0 /\ i - 1 = k /\ k \in 0..(k + 1) /\ k # k + 1
        BY <3>1
      <4>2. g[i - 1] = f[k] /\ g[i] = RoleOf(argv, k + 1, f[k])
        BY <3>1, <4>1
      <4>3. QED
        BY <3>1, <4>1, <4>2
    <3>2. CASE i # k + 1
      <4>1. i \in 0..k /\ g[i] = f[i]
        BY <3>2
      <4>2. f[i] = IF i = 0 THEN "arg" ELSE RoleOf(argv, i, f[i - 1])
        BY <2>1, <4>1
      <4>3. i # 0 => i - 1 \in 0..(k + 1) /\ i - 1 # k + 1
        BY <4>1
      <4>4. i # 0 => g[i - 1] = f[i - 1]
        BY <4>3
      <4> HIDE DEF g
      <4>5. QED
        BY <4>1, <4>2, <4>4
    <3>3. QED
      BY <3>1, <3>2
  <2>3. g = [i \in 0..(k + 1) |-> g[i]]
    OBVIOUS
  <2> HIDE DEF g
  <2>4. D(k + 1, g)
    BY <2>2, <2>3, Zenon
  <2>5. QED
    BY <2>4
<1>3. Nat \subseteq G
  <2> HIDE DEF G
  <2>1. QED
    BY <1>1, <1>2, NatInd
<1>4. QED
  BY <1>3

\* Each role follows from the one before.
LEMMA RolesStep ==
  ASSUME NEW argv, Len(argv) \in Nat
  PROVE  /\ Roles(argv)[0] = "arg"
         /\ \A i \in 1..Len(argv) : Roles(argv)[i] = RoleOf(argv, i, Roles(argv)[i - 1])
<1> DEFINE n == Len(argv)
           D(f) == f = [i \in 0..n |-> IF i = 0 THEN "arg" ELSE RoleOf(argv, i, f[i - 1])]
<1>1. Roles(argv) = CHOOSE f : D(f)
  BY DEF Roles
<1>2. \E f : D(f)
  BY RolesExist
<1>3. D(Roles(argv))
  <2> HIDE DEF D
  <2>1. QED
    BY <1>1, <1>2
<1>4. \A i \in 0..n : Roles(argv)[i] = IF i = 0 THEN "arg" ELSE RoleOf(argv, i, Roles(argv)[i - 1])
  BY <1>3, Zenon
<1>5. 0 \in 0..n /\ \A i \in 1..n : i \in 0..n /\ i # 0
  OBVIOUS
<1>6. QED
  BY <1>4, <1>5

\* Words that follow do not change the roles of those before them.
LEMMA RolesPrefix ==
  ASSUME NEW a, NEW b, Len(a) \in Nat, Len(b) \in Nat, Len(a) <= Len(b),
         \A i \in 1..Len(a) : b[i] = a[i]
  PROVE  \A i \in 0..Len(a) : Roles(b)[i] = Roles(a)[i]
<1> DEFINE G == {k \in Nat : k <= Len(a) => Roles(b)[k] = Roles(a)[k]}
<1>1. 0 \in G
  BY RolesStep
<1>2. ASSUME NEW k \in Nat, k \in G PROVE k + 1 \in G
  <2> SUFFICES ASSUME k + 1 <= Len(a) PROVE Roles(b)[k + 1] = Roles(a)[k + 1]
    OBVIOUS
  <2>1. k + 1 \in 1..Len(a) /\ k + 1 \in 1..Len(b) /\ (k + 1) - 1 = k
    OBVIOUS
  <2>2. Roles(a)[k + 1] = RoleOf(a, k + 1, Roles(a)[k])
    BY <2>1, RolesStep
  <2>3. Roles(b)[k + 1] = RoleOf(b, k + 1, Roles(a)[k])
    <3>1. Roles(b)[k + 1] = RoleOf(b, k + 1, Roles(b)[k])
      BY <2>1, RolesStep
    <3>2. Roles(b)[k] = Roles(a)[k]
      BY <1>2
    <3>3. QED
      BY <3>1, <3>2
  <2>4. RoleOf(b, k + 1, Roles(a)[k]) = RoleOf(a, k + 1, Roles(a)[k])
    <3>1. b[k + 1] = a[k + 1] /\ (k # 0 => b[k] = a[k])
      BY <2>1
    <3>2. k = 0 => Roles(a)[k] = "arg"
      BY RolesStep
    <3>3. QED
      BY <2>1, <3>1, <3>2 DEF RoleOf
  <2>5. QED
    BY <2>2, <2>3, <2>4
<1>3. Nat \subseteq G
  <2> HIDE DEF G
  <2>1. QED
    BY <1>1, <1>2, NatInd
<1>4. QED
  BY <1>3

\* Where no word ends the flags, none follows their end.
LEMMA NoEnd ==
  ASSUME NEW a, Len(a) \in Nat, \A i \in 1..Len(a) : Roles(a)[i] # "end"
  PROVE  \A i \in 0..Len(a) : Roles(a)[i] \notin {"end", "after"}
<1> DEFINE G == {k \in Nat : k <= Len(a) => Roles(a)[k] \notin {"end", "after"}}
<1>1. 0 \in G
  BY RolesStep
<1>2. ASSUME NEW k \in Nat, k \in G PROVE k + 1 \in G
  <2> SUFFICES ASSUME k + 1 <= Len(a) PROVE Roles(a)[k + 1] \notin {"end", "after"}
    OBVIOUS
  <2>1. k + 1 \in 1..Len(a) /\ (k + 1) - 1 = k
    OBVIOUS
  <2>2. Roles(a)[k + 1] = RoleOf(a, k + 1, Roles(a)[k]) /\ Roles(a)[k + 1] # "end"
    BY <2>1, RolesStep
  <2>3. Roles(a)[k] \notin {"end", "after"}
    BY <1>2
  <2>4. RoleOf(a, k + 1, Roles(a)[k]) # "after"
    BY <2>3 DEF RoleOf
  <2>5. QED
    BY <2>2, <2>4
<1>3. Nat \subseteq G
  <2> HIDE DEF G
  <2>1. QED
    BY <1>1, <1>2, NatInd
<1>4. QED
  BY <1>3

\* The last occurrence of a flag is the one that counts.
LEMMA LastCounts ==
  ASSUME NEW argv, NEW n \in Nat, DOMAIN argv = 1..n, NEW k \in 1..n,
         Roles(argv)[k] = "flag",
         \A i \in 1..n : i > k => argv[i].flag # argv[k].flag
  PROVE  /\ Given(argv, argv[k].flag) # {}
         /\ Value(argv, argv[k].flag) = ValueAt(argv, k)
<1> DEFINE g == Given(argv, argv[k].flag)
<1>1. k \in g /\ g \subseteq 1..n /\ \A i \in g : argv[i].flag = argv[k].flag
  BY DEF Given
<1>2. \A i \in g : i <= k
  BY <1>1
<1> HIDE DEF g
<1>3. (CHOOSE i \in g : \A j \in g : j <= i) = k
  <2>1. k \in g /\ \A j \in g : j <= k
    BY <1>1, <1>2
  <2>2. \A i \in g : (\A j \in g : j <= i) => i = k
    BY <1>1, <1>2
  <2>3. QED
    BY <2>1, <2>2
<1>4. QED
  BY <1>1, <1>3 DEF Value, g

\* The words of the client are a list.
LEMMA ClientWordsSeq ==
  ASSUME Base, NEW r \in Requests, msg[r].call.tool = "cmd"
  PROVE  \E W : ClientWords(msg[r].call) \in Seq(W)
<1> DEFINE call == msg[r].call
           A == {call.args[i] : i \in DOMAIN call.args}
<1>1. IsArray(call.args) /\ \A f \in DOMAIN call.opts :
                               call.opts[f][1] = "list" => IsArray(call.opts[f][2])
  BY CallAssumption DEF Base
<1>2. PICK V : RenderOptions(call.opts) \in Seq(V)
  BY <1>1, RenderOptionsSeq
<1>3. call.args \in Seq(A)
  BY <1>1 DEF IsArray
<1>4. call.args \in Seq(V \cup A) /\ RenderOptions(call.opts) \in Seq(V \cup A)
  <2>1. V \subseteq V \cup A /\ A \subseteq V \cup A
    OBVIOUS
  <2> HIDE DEF A
  <2>2. QED
    BY <1>2, <1>3, <2>1
<1>5. ClientWords(call) \in Seq(V \cup A)
  <2> HIDE DEF A
  <2>1. QED
    BY <1>4, ConcatSeq DEF ClientWords
<1>6. QED
  <2> HIDE DEF A
  <2>1. QED
    BY <1>5

\* The injected words, after n words of the client: f is the place of --format,
\* and last that of the last word.
InjectedAt(argv, n, f, last, confirms, named, who) ==
  /\ n \in Nat /\ f = (IF confirms THEN n + 2 ELSE n + 1)
  /\ last = (IF named THEN f + 3 ELSE f + 1)
  /\ Len(argv) = last /\ DOMAIN argv = 1..last
  /\ confirms => argv[n + 1] = Bare("yes")
  /\ argv[f] = Bare("format") /\ argv[f + 1] = Positional(Plain("jsonl"))
  /\ named => argv[f + 2] = Bare("select") /\ argv[f + 3] = Positional(Plain(who))

\* Whatever the client sends, its words come first and the injected ones last.
LEMMA ArgvShape ==
  ASSUME Base, NEW r \in Requests, msg[r].call.tool = "cmd"
  PROVE  LET words == ClientWords(msg[r].call)
             n == Len(words)
         IN  /\ n \in Nat /\ DOMAIN words = 1..n /\ \A i \in 1..n : Argv(r)[i] = words[i]
             /\ \E f, last :
                  InjectedAt(Argv(r), n, f, last, msg[r].call.confirms,
                             config.binding /\ BoundPrincipal(r) \in Names, BoundPrincipal(r))
<1> DEFINE call == msg[r].call
           words == ClientWords(call)
           n == Len(words)
           who == BoundPrincipal(r)
           named == config.binding /\ who \in Names
           yes == IF call.confirms THEN <<Bare("yes")>> ELSE <<>>
           fmt == <<Bare("format"), Positional(Plain("jsonl"))>>
           own == IF named THEN <<Bare("select"), Positional(Plain(who))>> ELSE <<>>
<1>1. PICK V : words \in Seq(V)
  BY ClientWordsSeq
<1> DEFINE S == V \cup {Bare("yes"), Bare("format"), Positional(Plain("jsonl")),
                        Bare("select"), Positional(Plain(who))}
<1>2. words \in Seq(S) /\ yes \in Seq(S) /\ fmt \in Seq(S) /\ own \in Seq(S)
  <2>1. V \subseteq S /\ {Bare("yes"), Bare("format"), Positional(Plain("jsonl")),
                          Bare("select"), Positional(Plain(who))} \subseteq S
    OBVIOUS
  <2> HIDE DEF S, words, named, who
  <2>2. QED
    BY <1>1, <2>1
<1>3. Argv(r) = (words \o (yes \o fmt)) \o own
  BY DEF Argv, BuildArgv, Injected, IdentityInjection
<1>4. /\ Len(yes) = (IF call.confirms THEN 1 ELSE 0) /\ (call.confirms => yes[1] = Bare("yes"))
      /\ Len(fmt) = 2 /\ fmt[1] = Bare("format") /\ fmt[2] = Positional(Plain("jsonl"))
      /\ Len(own) = (IF named THEN 2 ELSE 0)
      /\ named => own[1] = Bare("select") /\ own[2] = Positional(Plain(who))
  <2> HIDE DEF named, who
  <2>1. QED
    OBVIOUS
<1> HIDE DEF S, yes, fmt, own, words, named, who
<1> DEFINE inj == yes \o fmt
           cmd == words \o inj
           f == IF call.confirms THEN n + 2 ELSE n + 1
           last == IF named THEN f + 3 ELSE f + 1
<1>5. /\ inj \in Seq(S) /\ Len(inj) = Len(yes) + 2
      /\ call.confirms => inj[1] = Bare("yes") /\ inj[2] = Bare("format")
                          /\ inj[3] = Positional(Plain("jsonl"))
      /\ ~ call.confirms => inj[1] = Bare("format") /\ inj[2] = Positional(Plain("jsonl"))
  <2>1. /\ inj \in Seq(S) /\ Len(inj) = Len(yes) + Len(fmt)
        /\ \A i \in 1..Len(yes) : inj[i] = yes[i]
        /\ \A i \in 1..Len(fmt) : inj[Len(yes) + i] = fmt[i]
    BY <1>2, ConcatWords
  <2> HIDE DEF inj
  <2>2. QED
    BY <1>4, <2>1
<1> HIDE DEF inj
<1>6. /\ cmd \in Seq(S) /\ n \in Nat /\ Len(cmd) = n + Len(inj)
      /\ \A i \in 1..n : cmd[i] = words[i]
      /\ \A i \in 1..Len(inj) : cmd[n + i] = inj[i]
  <2>1. words \in Seq(S) /\ inj \in Seq(S)
    BY <1>2, <1>5
  <2>2. QED
    BY <2>1, ConcatWords
<1> HIDE DEF cmd
<1>7. /\ Len(Argv(r)) = Len(cmd) + Len(own) /\ DOMAIN Argv(r) = 1..(Len(cmd) + Len(own))
      /\ \A i \in 1..Len(cmd) : Argv(r)[i] = cmd[i]
      /\ \A i \in 1..Len(own) : Argv(r)[Len(cmd) + i] = own[i]
  <2>1. Argv(r) = cmd \o own
    BY <1>3 DEF cmd, inj
  <2>2. cmd \in Seq(S) /\ own \in Seq(S)
    BY <1>2, <1>6
  <2>3. DOMAIN (cmd \o own) = 1..Len(cmd \o own)
    BY <2>2
  <2>4. /\ Len(cmd \o own) = Len(cmd) + Len(own)
        /\ \A i \in 1..Len(cmd) : (cmd \o own)[i] = cmd[i]
        /\ \A i \in 1..Len(own) : (cmd \o own)[Len(cmd) + i] = own[i]
    BY <2>2, ConcatWords
  <2>5. QED
    BY <2>1, <2>3, <2>4
<1>8. n \in Nat /\ DOMAIN words = 1..n /\ \A i \in 1..n : Argv(r)[i] = words[i]
  <2>1. n \in Nat /\ DOMAIN words = 1..n /\ \A i \in 1..n : cmd[i] = words[i]
    BY <1>1, <1>6
  <2>2. \A i \in 1..n : i \in 1..Len(cmd)
    <3>1. Len(inj) \in Nat /\ Len(cmd) = n + Len(inj)
      BY <1>5, <1>6
    <3>2. QED
      BY <2>1, <3>1
  <2>3. QED
    BY <1>7, <2>1, <2>2
<1>9. InjectedAt(Argv(r), n, f, last, call.confirms, named, who)
  <2>1. Len(cmd) = f + 1
    BY <1>4, <1>5, <1>6
  <2>2. Len(Argv(r)) = last /\ DOMAIN Argv(r) = 1..last
    BY <1>4, <1>6, <1>7, <2>1
  <2>3. /\ call.confirms => cmd[n + 1] = Bare("yes")
        /\ cmd[f] = Bare("format") /\ cmd[f + 1] = Positional(Plain("jsonl"))
    BY <1>4, <1>5, <1>6
  <2>4. /\ call.confirms => Argv(r)[n + 1] = Bare("yes")
        /\ Argv(r)[f] = Bare("format") /\ Argv(r)[f + 1] = Positional(Plain("jsonl"))
    BY <1>6, <1>7, <2>1, <2>3
  <2>5. named => Argv(r)[f + 2] = Bare("select") /\ Argv(r)[f + 3] = Positional(Plain(who))
    BY <1>4, <1>6, <1>7, <2>1
  <2>6. QED
    BY <1>6, <2>2, <2>4, <2>5 DEF InjectedAt
<1>10. QED
  BY <1>8, <1>9 DEF words, named, who

\* The kinds of the injected words.
LEMMA InjectedKinds ==
  ASSUME NEW v
  PROVE  /\ \A name \in {"yes", "format", "select"} :
              /\ Bare(name).flag = name /\ Bare(name).val = NoWord
              /\ Bare(name) # DashDash
         /\ TakesValue(Bare("format")) /\ TakesValue(Bare("select")) /\ ~ TakesValue(Bare("yes"))
         /\ Positional(Plain(v)).flag = "" /\ Positional(Plain(v)) # DashDash
         /\ TextOf(Positional(Plain(v))) = Plain(v)
  BY CallAssumption DEF Bare, DashDash, Positional, Plain, TakesValue, TextOf, NoWord

\* The roles of the injected words when the client's do not end the flags.
LEMMA InjectedRoles ==
  ASSUME NEW argv, NEW n, NEW f, NEW last, NEW confirms \in BOOLEAN, NEW named \in BOOLEAN, NEW who,
         InjectedAt(argv, n, f, last, confirms, named, who),
         Roles(argv)[n] \notin {"end", "after"}
  PROVE  LET waits == Roles(argv)[n] = "flag" /\ TakesValue(argv[n])
         IN  /\ confirms /\ ~ waits => Roles(argv)[n + 1] = "flag"
             /\ confirms \/ ~ waits => Roles(argv)[f] = "flag"
             /\ named => Roles(argv)[f + 2] = "flag"
<1> DEFINE R == Roles(argv)
           waits == R[n] = "flag" /\ TakesValue(argv[n])
<1>1. /\ n \in Nat /\ last \in Nat /\ f \in Nat /\ f = (IF confirms THEN n + 2 ELSE n + 1)
      /\ last = (IF named THEN f + 3 ELSE f + 1) /\ Len(argv) = last
  BY DEF InjectedAt
<1>2. \A i \in 1..last : R[i] = RoleOf(argv, i, R[i - 1])
  BY <1>1, RolesStep
<1>3. /\ confirms => argv[n + 1] = Bare("yes")
      /\ argv[f] = Bare("format") /\ argv[f + 1] = Positional(Plain("jsonl"))
      /\ named => argv[f + 2] = Bare("select") /\ argv[f + 3] = Positional(Plain(who))
  BY DEF InjectedAt
<1>8. /\ \A name \in {"yes", "format", "select"} :
            Bare(name).flag = name /\ Bare(name).val = NoWord /\ Bare(name) # DashDash
      /\ TakesValue(Bare("format")) /\ TakesValue(Bare("select")) /\ ~ TakesValue(Bare("yes"))
      /\ Positional(Plain("jsonl")).flag = "" /\ Positional(Plain("jsonl")) # DashDash
  BY InjectedKinds
<1> HIDE DEF R
<1>4. confirms => R[n + 1] = IF waits THEN "value" ELSE "flag"
  <2> SUFFICES ASSUME confirms PROVE R[n + 1] = IF waits THEN "value" ELSE "flag"
    OBVIOUS
  <2>1. n + 1 \in 1..last /\ (n + 1) - 1 = n
    BY <1>1
  <2>2. R[n + 1] = RoleOf(argv, n + 1, R[n])
    BY <1>2, <2>1
  <2>3. QED
    BY <1>3, <1>8, <2>1, <2>2 DEF RoleOf, R
<1>5. R[f] = IF ~ confirms /\ waits THEN "value" ELSE "flag"
  <2>1. f \in 1..last
    BY <1>1
  <2>2. R[f] = RoleOf(argv, f, R[f - 1])
    BY <1>2, <2>1
  <2>3. CASE confirms
    <3>1. f - 1 = n + 1 /\ R[f - 1] \in {"value", "flag"}
      BY <1>1, <1>4, <2>3
    <3>2. QED
      BY <1>3, <1>8, <2>2, <2>3, <3>1 DEF RoleOf
  <2>4. CASE ~ confirms
    <3>1. f - 1 = n
      BY <1>1, <2>4
    <3>2. QED
      BY <1>3, <1>8, <2>2, <2>4, <3>1 DEF RoleOf, R
  <2>5. QED
    BY <2>3, <2>4
<1>6. named => R[f + 1] \in {"value", "arg"}
  <2>1. f + 1 \in 1..last /\ (f + 1) - 1 = f
    BY <1>1
  <2>2. R[f + 1] = RoleOf(argv, f + 1, R[f])
    BY <1>2, <2>1
  <2>3. QED
    BY <1>3, <1>8, <1>5, <2>1, <2>2 DEF RoleOf
<1>7. named => R[f + 2] = "flag"
  <2> SUFFICES ASSUME named PROVE R[f + 2] = "flag"
    OBVIOUS
  <2>1. f + 2 \in 1..last /\ (f + 2) - 1 = f + 1
    BY <1>1
  <2>2. R[f + 2] = RoleOf(argv, f + 2, R[f + 1])
    BY <1>2, <2>1
  <2>3. QED
    BY <1>3, <1>8, <1>6, <2>2 DEF RoleOf
<1>9. QED
  BY <1>4, <1>5, <1>7 DEF R

\* So those are the values the child sees.
LEMMA ArgvValues ==
  ASSUME Base, NEW r \in Requests, msg[r].call.tool = "cmd", ~ Escapes(msg[r].call)
  PROVE  LET call == msg[r].call
             argv == Argv(r)
             Sees(flag, word) == Given(argv, flag) # {} /\ Value(argv, flag) = Plain(word)
         IN  /\ config.binding /\ BoundPrincipal(r) \in Names => Sees("select", BoundPrincipal(r))
             /\ ~ Dangles(call) \/ call.confirms => Sees("format", "jsonl")
             /\ ~ Dangles(call) /\ call.confirms => Sees("yes", "true")
<1> DEFINE call == msg[r].call
           argv == Argv(r)
           words == ClientWords(call)
           n == Len(words)
           who == BoundPrincipal(r)
           named == config.binding /\ who \in Names
           Sees(flag, word) == Given(argv, flag) # {} /\ Value(argv, flag) = Plain(word)
<1>1. n \in Nat /\ DOMAIN words = 1..n /\ \A i \in 1..n : argv[i] = words[i]
  BY ArgvShape
<1>2. PICK f, last : InjectedAt(argv, n, f, last, call.confirms, named, who)
  BY ArgvShape
<1> DEFINE yes == (call.confirms = TRUE)
<1>3. InjectedAt(argv, n, f, last, yes, named, who)
  BY <1>2 DEF InjectedAt
<1>4. /\ n \in Nat /\ last \in Nat /\ f \in Nat /\ f = (IF yes THEN n + 2 ELSE n + 1)
      /\ last = (IF named THEN f + 3 ELSE f + 1) /\ Len(argv) = last /\ DOMAIN argv = 1..last
      /\ yes => argv[n + 1] = Bare("yes")
      /\ argv[f] = Bare("format") /\ argv[f + 1] = Positional(Plain("jsonl"))
      /\ named => argv[f + 2] = Bare("select") /\ argv[f + 3] = Positional(Plain(who))
  BY <1>3 DEF InjectedAt
<1> HIDE DEF argv, words, named, who, call, yes
<1>5. \A i \in 0..n : Roles(argv)[i] = Roles(words)[i]
  <2>1. Len(words) = n /\ Len(words) \in Nat /\ Len(argv) \in Nat
    BY <1>1, <1>4 DEF n
  <2>2. n <= last /\ Len(argv) = last
    BY <1>1, <1>4
  <2>3. Len(words) <= Len(argv) /\ \A i \in 1..Len(words) : argv[i] = words[i]
    BY <1>1, <2>1, <2>2
  <2>4. \A i \in 0..Len(words) : Roles(argv)[i] = Roles(words)[i]
    BY <2>1, <2>3, RolesPrefix
  <2>5. QED
    BY <2>1, <2>4
<1>6. Roles(words)[n] \notin {"end", "after"}
  <2>1. \A i \in 1..n : Roles(words)[i] # "end"
    BY <1>1 DEF Escapes, words, call
  <2>2. QED
    BY <1>1, <2>1, NoEnd
<1>7. Roles(argv)[n] = "flag" /\ TakesValue(argv[n]) => Dangles(call)
  <2> SUFFICES ASSUME Roles(argv)[n] = "flag", TakesValue(argv[n]) PROVE Dangles(call)
    OBVIOUS
  <2>1. Roles(words)[n] = "flag" /\ n # 0
    BY <1>1, <1>5, RolesStep
  <2>2. argv[n] = words[n]
    BY <1>1, <2>1
  <2>3. QED
    BY <1>1, <2>1, <2>2 DEF Dangles, words
<1>8. /\ yes /\ ~ Dangles(call) => Roles(argv)[n + 1] = "flag"
      /\ yes \/ ~ Dangles(call) => Roles(argv)[f] = "flag"
      /\ named => Roles(argv)[f + 2] = "flag"
  <2>1. yes \in BOOLEAN /\ named \in BOOLEAN
    BY DEF yes, named
  <2>2. Roles(argv)[n] \notin {"end", "after"}
    BY <1>1, <1>5, <1>6
  <2>3. QED
    BY <1>3, <1>7, <2>1, <2>2, InjectedRoles
<1>9. ASSUME NEW v
      PROVE  /\ \A name \in {"yes", "format", "select"} :
                  Bare(name).flag = name /\ Bare(name).val = NoWord
             /\ TakesValue(Bare("format")) /\ TakesValue(Bare("select")) /\ ~ TakesValue(Bare("yes"))
             /\ Positional(Plain(v)).flag = "" /\ TextOf(Positional(Plain(v))) = Plain(v)
  BY InjectedKinds
<1>10. named => Sees("select", who)
  <2> SUFFICES ASSUME named PROVE Sees("select", who)
    OBVIOUS
  <2>1. f + 2 \in 1..last /\ \A i \in 1..last : i > f + 2 => i = f + 3
    BY <1>4
  <2>2. \A i \in 1..last : i > f + 2 => argv[i].flag # argv[f + 2].flag
    BY <1>4, <1>9, <2>1
  <2>3. Given(argv, "select") # {} /\ Value(argv, "select") = ValueAt(argv, f + 2)
    <3>1. last \in Nat /\ DOMAIN argv = 1..last /\ f + 2 \in 1..last
      BY <1>4, <2>1
    <3>2. Roles(argv)[f + 2] = "flag" /\ argv[f + 2].flag = "select"
      BY <1>4, <1>8, <1>9
    <3>3. QED
      BY <2>2, <3>1, <3>2, LastCounts
  <2>4. ValueAt(argv, f + 2) = TextOf(argv[f + 3])
    <3>1. (f + 2) + 1 = f + 3
      BY <1>4
    <3>2. QED
      BY <1>4, <1>9, <3>1 DEF ValueAt
  <2>5. QED
    BY <1>4, <1>9, <2>3, <2>4
<1>11. ~ Dangles(call) \/ yes => Sees("format", "jsonl")
  <2> SUFFICES ASSUME ~ Dangles(call) \/ yes PROVE Sees("format", "jsonl")
    OBVIOUS
  <2>1. f \in 1..last /\ \A i \in 1..last : i > f => i = f + 1 \/ (named /\ i \in {f + 2, f + 3})
    BY <1>4
  <2>2. \A i \in 1..last : i > f => argv[i].flag # argv[f].flag
    BY <1>4, <1>9, <2>1
  <2>3. Given(argv, "format") # {} /\ Value(argv, "format") = ValueAt(argv, f)
    <3>1. last \in Nat /\ DOMAIN argv = 1..last /\ f \in 1..last
      BY <1>4, <2>1
    <3>2. Roles(argv)[f] = "flag" /\ argv[f].flag = "format"
      BY <1>4, <1>8, <1>9
    <3>3. QED
      BY <2>2, <3>1, <3>2, LastCounts
  <2>4. ValueAt(argv, f) = TextOf(argv[f + 1])
    BY <1>4, <1>9 DEF ValueAt
  <2>5. QED
    BY <1>4, <1>9, <2>3, <2>4
<1>12. ~ Dangles(call) /\ yes => Sees("yes", "true")
  <2> SUFFICES ASSUME ~ Dangles(call), yes PROVE Sees("yes", "true")
    OBVIOUS
  <2>1. n + 1 \in 1..last
        /\ \A i \in 1..last : i > n + 1 => i \in {f, f + 1} \/ (named /\ i \in {f + 2, f + 3})
    BY <1>4
  <2>2. \A i \in 1..last : i > n + 1 => argv[i].flag # argv[n + 1].flag
    BY <1>4, <1>9, <2>1
  <2>3. Given(argv, "yes") # {} /\ Value(argv, "yes") = ValueAt(argv, n + 1)
    <3>1. last \in Nat /\ DOMAIN argv = 1..last /\ n + 1 \in 1..last
      BY <1>4, <2>1
    <3>2. Roles(argv)[n + 1] = "flag" /\ argv[n + 1].flag = "yes"
      BY <1>4, <1>8, <1>9
    <3>3. QED
      BY <2>2, <3>1, <3>2, LastCounts
  <2>4. ValueAt(argv, n + 1) = Plain("true")
    BY <1>4, <1>9 DEF ValueAt
  <2>5. QED
    BY <2>3, <2>4
<1>13. QED
  BY <1>10, <1>11, <1>12 DEF argv, named, who, call, yes

-----------------------------------------------------------------------------
(***************************************************************************)
(* Children and their results                                              *)
(***************************************************************************)

\* A child was started with the argv and the gate of its request, and a reply
\* that is no error translates what that child printed, which is final.
Ran(r) ==
  /\ child[r].proc # "none" =>
       /\ msg[r].call.tool = "cmd" /\ child[r].argv = Argv(r)
       /\ child[r].gate = IdentityInjection(r).gate
  /\ reply[r].kind = "command" =>
       \/ reply[r].result.isError
       \/ /\ child[r].proc = "exited"
          /\ reply[r].result = T!Translated(child[r].out, FilesIn(Roots(r)))

\* cmd.Run starts the subprocess of request r.
Started(r) ==
  /\ at[r] = "idle" /\ Goes(r, "child", NoWork) /\ msg[r].call.tool = "cmd"
  /\ child'[r] = [NoChild EXCEPT !.proc = "running", !.argv = Argv(r),
                                 !.gate = IdentityInjection(r).gate]

\* Dispatch starts at most one child, of its own request.
LEMMA DispatchChild ==
  ASSUME Base, NEW q \in Requests, NEW r \in Requests, at[q] = "idle", Dispatch(q)
  PROVE  child'[r] = child[r] \/ Started(r)
<1>1. CASE q = r
  BY <1>1, DispatchView DEF Started, Base
<1>2. CASE q # r
  BY <1>2, DispatchView DEF Base
<1>3. QED
  BY <1>1, <1>2

\* What a step may do to the child of request r.
LEMMA ChildView ==
  ASSUME Base, [Next]_vars, NEW r \in Requests
  PROVE  \/ child'[r] = child[r]
         \/ Started(r)
         \/ /\ child[r].proc = "running" /\ Same(r)
            /\ \E o : child'[r] = [child[r] EXCEPT !.proc = "exited", !.out = o]
         \/ Same(r) /\ \E b : child'[r] = [child[r] EXCEPT !.pipe = b]
<1> DEFINE Goal == \/ child'[r] = child[r]
                   \/ Started(r)
                   \/ /\ child[r].proc = "running" /\ Same(r)
                      /\ \E o : child'[r] = [child[r] EXCEPT !.proc = "exited", !.out = o]
                   \/ Same(r) /\ \E b : child'[r] = [child[r] EXCEPT !.pipe = b]
<1>a. child \in [Requests -> Children]
  BY DEF Base
<1>1. ASSUME NEW q \in Requests, ChildExit(q) \/ Kill(q) PROVE Goal
  <2>1. /\ child[q].proc = "running" /\ Same(r)
        /\ \E o : child' = [child EXCEPT ![q] = [child[q] EXCEPT !.proc = "exited", !.out = o]]
    BY <1>1 DEF ChildExit, Kill, fileVars, Same
  <2>2. PICK o : child' = [child EXCEPT ![q] = [child[q] EXCEPT !.proc = "exited", !.out = o]]
    BY <2>1
  <2>3. child'[r] = child[r] \/ (q = r /\ child'[r] = [child[r] EXCEPT !.proc = "exited", !.out = o])
    BY <1>a, <2>2
  <2>4. QED
    BY <2>1, <2>3
<1>2. ASSUME NEW q \in Requests, ChildFork(q) \/ PipeClose(q) PROVE Goal
  <2>1. Same(r) /\ \E b : child' = [child EXCEPT ![q] = [child[q] EXCEPT !.pipe = b]]
    BY <1>2 DEF ChildFork, PipeClose, fileVars, Same
  <2>2. PICK b : child' = [child EXCEPT ![q] = [child[q] EXCEPT !.pipe = b]]
    BY <2>1
  <2>3. child'[r] = child[r] \/ child'[r] = [child[r] EXCEPT !.pipe = b]
    BY <1>a, <2>2
  <2>4. QED
    BY <2>1, <2>3
<1>3. ASSUME NEW q \in Requests, at[q] = "idle", Dispatch(q) PROVE Goal
  BY <1>3, DispatchChild
<1>4. ASSUME UNCHANGED child PROVE Goal
  BY <1>4
<1> HIDE DEF Goal
<1>5. Goal
  <2>1. CASE Serve
    BY <1>3, <1>4, <2>1 DEF Serve, StdioSkip, StdioDispatch, StdioWrite, StdioEnd
  <2>2. ASSUME NEW q \in Requests, HttpRefuse(q) \/ HttpDispatch(q) \/ ServerStep(q)
        PROVE  Goal
    BY <1>1, <1>3, <1>4, <2>2 DEF HttpRefuse, HttpDispatch, ServerStep, RunReturn
  <2>3. ASSUME NEW q \in Requests, ChildExit(q) \/ ChildFork(q) \/ PipeClose(q) \/ Disconnect(q)
        PROVE  Goal
    BY <1>1, <1>2, <1>4, <2>3 DEF Disconnect
  <2>4. CASE UNCHANGED vars
    BY <1>4, <2>4 DEF vars
  <2>5. QED
    BY <1>4, <2>1, <2>2, <2>3, <2>4 DEF Next, Quiet
<1>6. QED
  BY <1>5 DEF Goal

\* Every step keeps Ran: only a running child's output changes, and RunReturn
\* waits for its exit.
LEMMA RanStep ==
  ASSUME Base, [Next]_vars, NEW r \in Requests, Working(r), Replied(r), Ran(r)
  PROVE  Ran(r)'
<1>0. /\ UNCHANGED startVars /\ Argv(r)' = Argv(r) /\ msg'[r] = msg[r]
      /\ IdentityInjection(r)' = IdentityInjection(r)
      /\ FilesIn(Roots(r))' = FilesIn(Roots(r))
  <2>1. UNCHANGED startVars
    BY NextView
  <2>2. QED
    BY <2>1, Fixed
       DEF FilesIn, startVars, Argv, IdentityInjection, BoundPrincipal
<1>1. child[r] \in Children
  BY DEF Base
<1>2. child'[r].proc # "none" =>
        /\ msg'[r].call.tool = "cmd" /\ child'[r].argv = Argv(r)'
        /\ child'[r].gate = IdentityInjection(r)'.gate
  <2>1. CASE Started(r)
    BY <1>0, <2>1 DEF Started, NoChild
  <2>2. CASE \/ child'[r] = child[r]
             \/ \E b : child'[r] = [child[r] EXCEPT !.pipe = b]
    BY <1>0, <1>1, <2>2 DEF Ran, Children
  <2>3. CASE /\ child[r].proc = "running"
             /\ \E o : child'[r] = [child[r] EXCEPT !.proc = "exited", !.out = o]
    BY <1>0, <1>1, <2>3 DEF Ran, Children
  <2>4. QED
    BY <2>1, <2>2, <2>3, ChildView
<1> DEFINE Goal == reply'[r].kind = "command" =>
                     \/ reply'[r].result.isError
                     \/ /\ child'[r].proc = "exited"
                        /\ reply'[r].result = T!Translated(child'[r].out, FilesIn(Roots(r)))
<1>3. Goal
  <2>1. CASE Same(r)
    <3>1. ASSUME child[r].proc = "exited"
          PROVE  child'[r].proc = "exited" /\ child'[r].out = child[r].out
      <4>1. CASE Started(r)
        BY <2>1, <4>1 DEF Started, Goes, Same
      <4>2. QED
        <5>1. CASE \E b : child'[r] = [child[r] EXCEPT !.pipe = b]
          BY <1>1, <3>1, <5>1 DEF Children
        <5>2. QED
          BY <3>1, <4>1, <5>1, ChildView
    <3>2. QED
      BY <2>1, <3>1 DEF Same, Ran
  <2>2. ASSUME NEW x, Ends(r, x), x.kind # "command" PROVE Goal
    BY <2>2 DEF Ends
  <2>3. ASSUME NEW s, NEW w, Goes(r, s, w), at[r] # "done" PROVE Goal
    BY <2>3 DEF Goes, Replied, NoReply
  <2>4. CASE at[r] = "idle" /\ Dispatch(r)
    <3>1. CASE Brief(r)
      BY <2>2, <3>1 DEF Brief
    <3>2. CASE Ends(r, CommandResult(r, StartFailed))
      BY <3>2 DEF Ends, CommandResult, StartFailed, T!Translated
    <3> HIDE DEF Goal
    <3>3. QED
      BY <2>3, <2>4, <3>1, <3>2, DispatchView DEF Opened
  <2>5. CASE RunReturn(r)
    BY <2>5, FinishView DEF RunReturn, Ends, CommandResult
  <2>6. CASE HttpRefuse(r)
    BY <2>2, <2>6, FinishView DEF HttpRefuse
  <2> HIDE DEF Goal
  <2>7. CASE FsGetRead(r)
    BY <2>2, <2>7, FinishView DEF FsGetRead, NativeError
  <2>8. CASE FsReadDir(r) \/ WalkDir(r)
    BY <2>3, <2>8, GoView DEF FsReadDir, WalkDir, FsVerbs
  <2>9. CASE FsListRefs(r) \/ FindReturn(r)
    BY <2>2, <2>9, FinishView DEF FsListRefs, FindReturn, FsRecordsResult
  <2>10. CASE WalkFile(r)
    BY <2>2, <2>3, <2>10, FinishView, GoView DEF WalkFile, FsRecordsResult, FsVerbs
  <2>11. QED
    BY <2>1, <2>4, <2>5, <2>6, <2>7, <2>8, <2>9, <2>10, StepView DEF Own, FileStep
<1>4. QED
  BY <1>0, <1>2, <1>3 DEF Ran

-----------------------------------------------------------------------------
(***************************************************************************)
(* The stdio loop                                                          *)
(***************************************************************************)

\* The values of line: the requests, and the end of the input.
Lines == 1..(Cardinality(Requests) + 1)

\* StdioInOrder, and that only a request with an id is under way.
Answered ==
  /\ line \in Lines /\ served \in {"open", "nil", "error"} /\ answers \in Seq(Requests)
  /\ transport = "stdio" =>
       /\ \A i, j \in DOMAIN answers : i < j => answers[i] < answers[j]
       /\ {answers[i] : i \in DOMAIN answers} = {r \in 1..(line - 1) : HasID(r)}
       /\ \A r \in Requests : r # line => at[r] = IF r < line /\ HasID(r) THEN "done" ELSE "idle"
       /\ line \in Requests /\ at[line] # "idle" => HasID(line)

\* Requests are numbered from 1.
LEMMA RequestNumbers ==
  /\ Cardinality(Requests) \in Nat /\ Requests = 1..Cardinality(Requests)
  /\ \A n \in Requests : n \in Lines /\ n + 1 \in Lines /\ n + 1 \notin {n} /\ n \in Nat
  /\ Lines \subseteq Nat \ {0} /\ \A n \in Lines : 1..(n - 1) \subseteq Requests
  BY CallAssumption, FS_CardinalityType DEF Lines

\* A step that moves no request keeps Answered.
LEMMA AnsweredIdle ==
  ASSUME Answered, UNCHANGED <<startVars, stdioVars, at>>
  PROVE  Answered'
  BY DEF Answered, startVars, stdioVars, HasID

\* A step of the request on the current line keeps Answered.
LEMMA AnsweredOwn ==
  ASSUME Base, Answered, UNCHANGED <<startVars, stdioVars>>, NEW q \in Requests, Alone(q),
         transport = "stdio" => q = line /\ (at[q] = "idle" => HasID(q))
  PROVE  Answered'
<1>1. \A r \in Requests \ {q} : at'[r] = at[r]
  BY DEF Alone, Same
<1>2. \A r : HasID(r)' = HasID(r)
  BY DEF HasID, startVars
<1>3. transport = "stdio" => HasID(line)
  BY DEF Answered
<1>4. QED
  BY <1>1, <1>2, <1>3 DEF Answered, startVars, stdioVars

\* Going to the next line keeps Answered: the answer, if one is due, is written.
LEMMA AnsweredNext ==
  ASSUME Answered, transport = "stdio", line \in Requests, UNCHANGED <<startVars, at, served>>,
         line' = line + 1,
         \/ ~ HasID(line) /\ UNCHANGED answers
         \/ at[line] = "done" /\ answers' = Append(answers, line)
  PROVE  Answered'
<1>1. \A r : HasID(r)' = HasID(r)
  BY DEF HasID, startVars
<1>2. line \in Nat /\ line' \in Lines /\ line' - 1 = line
  BY RequestNumbers
<1>3. at[line] = IF HasID(line) THEN "done" ELSE "idle"
  BY DEF Answered
<1>4. \A r \in Requests : r # line' => at'[r] = IF r < line' /\ HasID(r) THEN "done" ELSE "idle"
  <2>1. \A r \in Requests : r < line' <=> (r < line \/ r = line)
    BY <1>2, RequestNumbers
  <2>2. \A r \in Requests : r < line => r # line
    BY <1>2, RequestNumbers
  <2>3. QED
    BY <1>3, <2>1, <2>2 DEF Answered
<1>5. line' \in Requests => at'[line'] = "idle"
  BY <1>2, RequestNumbers DEF Answered
<1>6. /\ answers' \in Seq(Requests)
      /\ \A i, j \in DOMAIN answers' : i < j => answers'[i] < answers'[j]
      /\ {answers'[i] : i \in DOMAIN answers'} = {r \in 1..(line' - 1) : HasID(r)}
  <2>0. {r \in 1..(line' - 1) : HasID(r)}
          = {r \in 1..(line - 1) : HasID(r)} \cup (IF HasID(line) THEN {line} ELSE {})
    BY <1>2, RequestNumbers
  <2>1. CASE ~ HasID(line) /\ UNCHANGED answers
    BY <2>0, <2>1 DEF Answered
  <2>2. CASE at[line] = "done" /\ answers' = Append(answers, line)
    <3>1. HasID(line)
      BY <1>3, <2>2
    <3>2. /\ answers \in Seq(Requests) /\ Len(answers) \in Nat /\ DOMAIN answers = 1..Len(answers)
          /\ \A i \in DOMAIN answers : answers[i] \in 1..(line - 1)
      BY DEF Answered
    <3>3. /\ answers' \in Seq(Requests) /\ DOMAIN answers' = 1..(Len(answers) + 1)
          /\ answers'[Len(answers) + 1] = line
          /\ \A i \in 1..Len(answers) : answers'[i] = answers[i]
      BY <2>2, <3>2
    <3>4. \A i, j \in DOMAIN answers' : i < j => answers'[i] < answers'[j]
      BY <1>2, <3>2, <3>3 DEF Answered
    <3>5. {answers'[i] : i \in DOMAIN answers'} = {answers[i] : i \in DOMAIN answers} \cup {line}
      BY <3>2, <3>3
    <3>6. QED
      BY <2>0, <3>1, <3>3, <3>4, <3>5 DEF Answered
  <2>3. QED
    BY <2>1, <2>2
<1>7. QED
  BY <1>1, <1>2, <1>4, <1>5, <1>6 DEF Answered, startVars

\* Every step keeps Answered: on stdio a running request is the current line's.
LEMMA AnsweredStep ==
  ASSUME Base, [Next]_vars, Answered
  PROVE  Answered'
<1>1. CASE StdioSkip
  BY <1>1, AnsweredNext DEF StdioSkip, fileVars
<1>2. CASE StdioWrite
  BY <1>2, AnsweredNext DEF StdioWrite, fileVars
<1>3. CASE StdioEnd
  <2>1. UNCHANGED <<startVars, line, answers, at>> /\ served' \in {"nil", "error"}
    BY <1>3 DEF StdioEnd, fileVars
  <2>2. \A r : HasID(r)' = HasID(r)
    BY <2>1 DEF HasID, startVars
  <2>3. QED
    BY <2>1, <2>2 DEF Answered, startVars
<1>4. CASE StdioDispatch
  <2>1. /\ line \in Requests /\ transport = "stdio" /\ Alone(line) /\ HasID(line)
        /\ UNCHANGED <<startVars, stdioVars>>
    BY <1>4, DispatchView DEF StdioDispatch, Dispatch, Framed, HasID
  <2>2. PICK q \in Requests : q = line
    BY <2>1
  <2>3. QED
    BY <2>1, <2>2, AnsweredOwn
<1>5. ASSUME NEW r \in Requests, HttpRefuse(r) \/ HttpDispatch(r) PROVE Answered'
  <2>1. transport # "stdio" /\ Alone(r) /\ UNCHANGED <<startVars, stdioVars>>
    <3>1. CASE HttpRefuse(r)
      BY <3>1, FinishView DEF HttpRefuse
    <3>2. CASE HttpDispatch(r)
      <4>1. Dispatch(r) /\ transport # "stdio"
        BY <3>2 DEF HttpDispatch
      <4>2. QED
        BY <4>1, DispatchView DEF Dispatch, Framed
    <3>3. QED
      BY <1>5, <3>1, <3>2
  <2>2. QED
    BY <2>1, AnsweredOwn
<1>6. ASSUME NEW r \in Requests,
             RunReturn(r) \/ (FileStep(r) /\ UNCHANGED <<startVars, stdioVars, child, gone>>)
      PROVE  Answered'
  <2>1. Alone(r) /\ UNCHANGED <<startVars, stdioVars>>
    BY <1>6, FinishView, FileStepView DEF RunReturn, Framed
  <2>2. at[r] \notin {"idle", "done"}
    BY <1>6 DEF RunReturn, FileStep, FsGetRead, FsReadDir, FsListRefs, WalkDir, WalkFile,
                FindReturn
  <2>3. transport = "stdio" => r = line
    BY <2>2 DEF Answered
  <2>4. QED
    BY <2>1, <2>2, <2>3, AnsweredOwn
<1>7. ASSUME NEW r \in Requests,
             Kill(r) \/ ChildExit(r) \/ ChildFork(r) \/ PipeClose(r) \/ Disconnect(r)
      PROVE  Answered'
  BY <1>7, AnsweredIdle DEF Kill, ChildExit, ChildFork, PipeClose, Disconnect, fileVars
<1>8. CASE WriteFile /\ UNCHANGED <<startVars, stdioVars, child, gone>>
  BY <1>8, AnsweredIdle DEF WriteFile
<1>9. CASE UNCHANGED vars
  BY <1>9, AnsweredIdle DEF vars, fileVars
<1>10. QED
  BY <1>1, <1>2, <1>3, <1>4, <1>5, <1>6, <1>7, <1>8, <1>9 DEF Next, Serve, ServerStep, Quiet

-----------------------------------------------------------------------------
(***************************************************************************)
(* The invariant and the theorems                                          *)
(***************************************************************************)

\* The inductive invariant.  None of the invariants is inductive alone: replies
\* are made of what a verb has collected (Working, Listed, Walked, Sized's first
\* part), of the child of the request (Ran) and of the line (Answered).
IInv ==
  /\ Base /\ Answered
  /\ \A r \in Requests : Working(r) /\ Replied(r) /\ Sized(r) /\ Listing(r) /\ Ran(r)

\* It holds when the server starts.
LEMMA InitIInv == Init => IInv
<1> SUFFICES ASSUME Init PROVE IInv
  OBVIOUS
<1>1. Base
  <2>1. NoChild \in Children
    BY OutputTypes DEF NoChild, Children
  <2>2. QED
    BY <2>1, TreeAssumption DEF Init, FileInit, Base, IsFcn
<1>2. Answered
  BY RequestNumbers DEF Init, FileInit, Answered, Lines
<1>3. ASSUME NEW r \in Requests
      PROVE  Working(r) /\ Replied(r) /\ Sized(r) /\ Listing(r) /\ Ran(r)
  <2>1. at[r] = "idle" /\ work[r] = NoWork /\ reply[r] = NoReply /\ child[r] = NoChild
    BY DEF Init, FileInit
  <2>2. Working(r) /\ Replied(r) /\ Sized(r)
    BY <2>1, NoWorkType DEF Working, Replied, Sized, NoReply, FsVerbs
  <2>3. Listing(r) /\ Ran(r)
    BY <2>1 DEF Listing, Listed, Walked, Ran, NoReply, NoChild
  <2>4. QED
    BY <2>2, <2>3
<1>4. QED
  BY <1>1, <1>2, <1>3 DEF IInv

\* Every step keeps it.
LEMMA StepIInv == IInv /\ [Next]_vars => IInv'
<1> SUFFICES ASSUME IInv, [Next]_vars PROVE IInv'
  OBVIOUS
<1>1. Base' /\ Answered'
  BY BaseStep, AnsweredStep DEF IInv
<1>2. ASSUME NEW r \in Requests
      PROVE  Working(r)' /\ Replied(r)' /\ Sized(r)' /\ Listing(r)' /\ Ran(r)'
  BY WorkingStep, RepliedStep, SizedStep, ListingStep, RanStep DEF IInv
<1>3. QED
  BY <1>1, <1>2 DEF IInv

\* It holds in every reachable state.
THEOREM Inductive == Spec => []IInv
  BY InitIInv, StepIInv, PTL DEF Spec

\* Every variable, the work and the replies of the file tool included, holds a
\* value of its kind.
THEOREM TypeCorrect == Spec => []TypeOK
<1>1. IInv => TypeOK
  <2> SUFFICES ASSUME IInv PROVE TypeOK
    OBVIOUS
  <2>1. work \in [Requests -> Works]
    <3>1. \A r \in Requests : work[r] \in Works
      BY DEF IInv, Working
    <3>2. work = [r \in Requests |-> work[r]]
      BY DEF IInv, Base, IsFcn
    <3>3. QED
      BY <3>1, <3>2
  <2>2. ASSUME NEW r \in Requests
        PROVE  /\ at[r] = "done" <=> reply[r] # NoReply
               /\ reply[r].kind = "data" => /\ reply[r].file \in Files /\ reply[r].size \in Sizes
                                            /\ reply[r].ref \in FileRefs
               /\ reply[r].kind = "files" => reply[r].refs \subseteq FileRefs
    BY DEF IInv, Replied
  <2>3. QED
    BY <2>1, <2>2 DEF IInv, Base, Answered, TypeOK, Lines
<1>2. QED
  BY <1>1, Inductive, PTL

\* What a named principal gets lies below its scoped roots: contents and
\* references (SafeResolve, effectiveFileRoots) and the paths rewritten in the
\* results of commands (rewriteFileRefs).
THEOREM OwnFilesOnlyCorrect == Spec => []OwnFilesOnly
<1>1. IInv => OwnFilesOnly
  <2> SUFFICES ASSUME IInv, NEW r \in Requests, BoundPrincipal(r) \in Names
               PROVE  LET own == OwnNodes(BoundPrincipal(r))
                          res == reply[r]
                      IN /\ res.kind = "data" => {res.file, res.ref.node} \subseteq own
                         /\ res.kind = "files" => \A f \in res.refs : f.node \in own \cup {NoNode}
                         /\ res.kind = "command" =>
                              \A i \in DOMAIN res.result.records :
                                res.result.records[i].form = "ref"
                                  => res.result.records[i].file \in own
    BY DEF OwnFilesOnly
  <2> DEFINE who == BoundPrincipal(r)
             own == OwnNodes(who)
  <2>1. \A n \in DOMAIN Roots(r) :
          config.scope /\ n \in RootNames /\ Roots(r)[n] = Scope[who][n] /\ Roots(r)[n] # NoNode
    BY DEF Roots, EffectiveFileRoots
  <2>2. \A n \in DOMAIN Roots(r) : Inside(Roots(r)[n]) \subseteq own
    BY <2>1 DEF OwnNodes, Inside
  <2>3. FileCall(r) => Inside(RootOf(r)) \subseteq own
    BY <2>2 DEF FileCall, RootOf
  <2>4. FilesIn(Roots(r)) \subseteq own
    BY <2>2 DEF FilesIn, Inside
  <2> HIDE DEF own
  <2>5. Replied(r)
    BY DEF IInv
  <2>6. QED
    BY <2>3, <2>4, <2>5 DEF Replied, own
<1>2. QED
  BY <1>1, Inductive, PTL

\* get returns more than the inline limit, or a size that differs from its
\* reference's, only when the file changed between Stat and ReadFile.
THEOREM InlineWithinLimitCorrect == Spec => []InlineWithinLimit
<1>1. IInv => InlineWithinLimit
  BY DEF IInv, Sized, InlineWithinLimit
<1>2. QED
  BY <1>1, Inductive, PTL

\* find and ls report every asked-for file that was there all along, and none
\* that never was, however files come and go (fsFind, fsList).
THEOREM ListingCompleteCorrect == Spec => []ListingComplete
<1>1. IInv => ListingComplete
  BY DEF IInv, Listing, Complete, NodesOf, ListingComplete
<1>2. QED
  BY <1>1, Inductive, PTL

\* Whatever options and args a client sends, the child has the gate and, with
\* the exceptions ActsAsCaller names, sees the selector of its principal, --format
\* jsonl and the --yes of a gated command (buildArgv, identityInjection).
THEOREM ActsAsCallerCorrect == Spec => []ActsAsCaller
<1>1. IInv => ActsAsCaller
  <2> SUFFICES ASSUME IInv, NEW r \in Requests, child[r].proc # "none"
               PROVE  LET call == msg[r].call
                          argv == child[r].argv
                          Sees(flag, word) == Given(argv, flag) # {} /\ Value(argv, flag) = Plain(word)
                          named == config.binding /\ BoundPrincipal(r) \in Names
                      IN  /\ named => child[r].gate
                          /\ ~ Escapes(call) =>
                               /\ named => Sees("select", BoundPrincipal(r))
                               /\ ~ Dangles(call) \/ call.confirms => Sees("format", "jsonl")
                               /\ ~ Dangles(call) /\ call.confirms => Sees("yes", "true")
    BY DEF ActsAsCaller
  <2>1. /\ Base /\ msg[r].call.tool = "cmd" /\ child[r].argv = Argv(r)
        /\ child[r].gate = IdentityInjection(r).gate
    BY DEF IInv, Ran
  <2>2. config.binding /\ BoundPrincipal(r) \in Names => IdentityInjection(r).gate
    BY DEF IdentityInjection
  <2>3. QED
    BY <2>1, <2>2, ArgvValues
<1>2. QED
  BY <1>1, Inductive, PTL

\* Where the records of a result show references, so does its text, or no path
\* of the output is spelled as the gate searches it (translate).
LEMMA TranslatedText ==
  ASSUME NEW o, NEW F, ~ T!Translated(o, F).isError
  PROVE  LET res == T!Translated(o, F)
         IN  \/ [i \in T!RecordLines(res.text) |-> res.text[i]] = res.records
             \/ \A i \in DOMAIN o.stdout : o.stdout[i].file \in F => o.stdout[i].escaped
<1> DEFINE s == o.stdout
           scrub == o.exit = 0 /\ T!StdoutHasRootPath(s, F)
           res == T!Translated(o, F)
<1>1. /\ o.exit = 0
      /\ res.records = [i \in T!RecordLines(s) |-> T!RewriteFileRefs(s[i], F)]
      /\ res.text = [i \in DOMAIN s |-> IF scrub /\ T!IsRecord(s[i])
                                        THEN T!RewriteFileRefs(s[i], F) ELSE T!Verbatim(s[i])]
  BY DEF T!Translated, T!ProcessStdout
<1>2. CASE scrub
  <2>1. T!RecordLines(res.text) = T!RecordLines(s)
    BY <1>1 DEF T!RecordLines, T!IsRecord, T!RewriteFileRefs, T!Verbatim
  <2>2. \A i \in T!RecordLines(s) : res.text[i] = T!RewriteFileRefs(s[i], F)
    BY <1>1, <1>2 DEF T!RecordLines
  <2> HIDE DEF res
  <2>3. [i \in T!RecordLines(res.text) |-> res.text[i]] = res.records
    BY <1>1, <2>1, <2>2
  <2>4. QED
    BY <2>3 DEF res
<1>3. CASE ~ scrub
  BY <1>1, <1>3 DEF T!StdoutHasRootPath
<1>4. QED
  BY <1>2, <1>3

\* The text block of a command's result shows no host path that its records
\* replace, with the exception TextAgrees names.
THEOREM TextAgreesCorrect == Spec => []TextAgrees
<1>1. IInv => TextAgrees
  <2> SUFFICES ASSUME IInv, NEW r \in Requests, reply[r].kind = "command",
                      ~ reply[r].result.isError
               PROVE  LET res == reply[r].result
                          out == child[r].out.stdout
                      IN  \/ [i \in T!RecordLines(res.text) |-> res.text[i]] = res.records
                          \/ \A i \in DOMAIN out : out[i].file \in FilesIn(Roots(r))
                                                     => out[i].escaped
    BY DEF TextAgrees
  <2>1. reply[r].result = T!Translated(child[r].out, FilesIn(Roots(r)))
    BY DEF IInv, Ran
  <2>2. QED
    BY <2>1, TranslatedText
<1>2. QED
  BY <1>1, Inductive, PTL

\* Serve answers the requests of its input, and only them, in their order, one
\* at a time.
THEOREM StdioInOrderCorrect == Spec => []StdioInOrder
<1>1. IInv => StdioInOrder
  BY DEF IInv, Answered, StdioInOrder
<1>2. QED
  BY <1>1, Inductive, PTL
=============================================================================
