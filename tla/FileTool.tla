------------------------------ MODULE FileTool ------------------------------
(***************************************************************************)
(* The read-only file tool (fs.go, fs_find.go, fs_content.go): the find,   *)
(* ls and get verbs on a file system that changes under them.              *)
(*                                                                         *)
(* Directories and links are fixed; files come, go, grow and shrink.       *)
(* Directory entries are visited in any order (WalkDir's is lexical).      *)
(* output.SafeResolve, FileRefAt and the operating system are external.    *)
(* ToolCall composes these actions with the transports.                    *)
(***************************************************************************)
EXTENDS Integers, FiniteSets

CONSTANTS
  Requests,            \* calls in flight: 1..n
  Dirs, Files, Links,  \* the nodes of the file system
  Entries, Below,      \* a directory's entries, and all nodes below it
  LinkTo,              \* the file a link points to
  RootDir,             \* the configured roots: root name -> directory
  Names,               \* the named principals
  Scope,               \* FileRootScope: principal -> root name -> directory, or NoNode
  NoName, NoNode, Absent,
  Sizes,               \* bound: sizes of a file
  InlineLimit,         \* opts.fileInlineLimit
  MaxFind,             \* maxFindResults
  MaxWrites            \* bound: changes to the file system

Nodes == Dirs \cup Files \cup Links
RootNames == DOMAIN RootDir
Unknown == -1  \* a FileRef without a size

ASSUME TreeAssumption ==
  /\ Entries \in [Dirs -> SUBSET Nodes] /\ Below \in [Dirs -> SUBSET Nodes]
  /\ Dirs \cap Files = {} /\ Dirs \cap Links = {} /\ Files \cap Links = {}
  /\ \A d \in Dirs : Below[d] = Entries[d] \cup UNION {Below[e] : e \in Entries[d] \cap Dirs}
  /\ \A d \in Dirs : \A e \in Below[d] \cap Dirs : Below[e] \subseteq Below[d]
  /\ LinkTo \in [Links -> Files]
  /\ RootDir \in [RootNames -> Dirs] /\ RootNames # {}
  /\ Scope \in [Names -> [RootNames -> Dirs \cup {NoNode}]]
  /\ Sizes \subseteq Nat /\ InlineLimit \in Nat /\ MaxFind \in Nat \ {0} /\ MaxWrites \in Nat
  /\ NoName \notin Names /\ NoNode \notin Nodes /\ Absent \notin Sizes

VARIABLES
  fs,       \* file -> its size, or Absent
  writes,   \* changes so far
  touched,  \* history: the files changed since a request started
  at,       \* where the handler of a request stands
  work,     \* what a running verb has read so far
  reply     \* the result of a request

fileVars == <<fs, writes, touched, at, work, reply>>

FileRefs == [node : Nodes \cup {NoNode}, size : Sizes \cup {Unknown}]
NoWork == [node |-> NoNode, size |-> Unknown, todo |-> {}, pending |-> {}, refs |-> {}, want |-> {}]
Works == [node : Nodes \cup {NoNode}, size : Sizes \cup {Unknown}, todo : SUBSET Dirs,
          pending : SUBSET Nodes, refs : SUBSET FileRefs, want : SUBSET Files]

HelpResult == [kind |-> "help"]
NativeError == [kind |-> "error"]
FsRecordsResult(refs, truncated) == [kind |-> "files", refs |-> refs, truncated |-> truncated]
NoReply == [kind |-> "none"]
FsVerbs == {"get", "list", "refs", "walk"}  \* stages of a running verb

FileInit ==
  /\ fs \in [Files -> Sizes \cup {Absent}]
  /\ writes = 0
  /\ touched = [r \in Requests |-> {}]
  /\ at = [r \in Requests |-> "idle"]
  /\ work = [r \in Requests |-> NoWork]
  /\ reply = [r \in Requests |-> NoReply]

Finish(r, result) ==
  /\ at' = [at EXCEPT ![r] = "done"]
  /\ work' = [work EXCEPT ![r] = NoWork]
  /\ reply' = [reply EXCEPT ![r] = result]

Go(r, stage, w) ==
  /\ at' = [at EXCEPT ![r] = stage]
  /\ work' = [work EXCEPT ![r] = w]
  /\ UNCHANGED reply

-----------------------------------------------------------------------------
\* Mutant of EffectiveFileRoots: without a scope everyone sees the configured roots.
EffectiveFileRootsFailOpen(who, scoped) ==
  IF who \notin Names \/ ~ scoped THEN RootDir
  ELSE [n \in {m \in RootNames : Scope[who][m] # NoNode} |-> Scope[who][n]]

\* The roots of a call: the configured ones for the operator, the scoped ones
\* for a named principal, none when the CLI declared no scope.
EffectiveFileRoots(who, scoped) ==
  IF who \notin Names THEN RootDir
  ELSE [n \in {m \in RootNames : scoped /\ Scope[who][m] # NoNode} |-> Scope[who][n]]

Resolved(n) == IF n \in Links THEN LinkTo[n] ELSE n

\* Is n, and what it leads to, inside the root?
SafeResolve(d, n) == {n, Resolved(n)} \subseteq Below[d] \cup {d}

StatOK(n) == n \in Files => fs[n] # Absent
FileRefAt(n) == [node |-> n, size |-> fs[Resolved(n)]]
NewFileRef(n) == [node |-> n, size |-> Unknown]

\* Symbolic links get a bare reference: what FileRefAt makes of one is external.
DirEntryRef(n) == IF n \in Files /\ StatOK(n) THEN FileRefAt(n) ELSE NewFileRef(n)

-----------------------------------------------------------------------------
FsFind(r, d, call) ==
  \/ ~ call.ok /\ Finish(r, NativeError)  \* parseFindArgs failed
  \/ call.ok /\ Go(r, "walk", [NoWork EXCEPT !.todo = {d}, !.want = call.want])

FsList(r, d, call) ==
  LET n == IF call.path = NoNode THEN d ELSE call.path
  IN  \/ /\ ~ (SafeResolve(d, n) /\ StatOK(Resolved(n)))
         /\ Finish(r, NativeError)
      \/ /\ SafeResolve(d, n) /\ StatOK(Resolved(n)) /\ n \notin Dirs
         /\ Go(r, "refs", [NoWork EXCEPT !.node = n])
      \/ /\ SafeResolve(d, n) /\ n \in Dirs
         /\ Go(r, "list", [NoWork EXCEPT !.node = n])

\* Mutant of FsGet: the size of the file is not checked.
FsGetAnySize(r, d, call) ==
  LET n == call.path
  IN  IF n # NoNode /\ SafeResolve(d, n) /\ n \notin Dirs /\ StatOK(Resolved(n))
      THEN Go(r, "get", [NoWork EXCEPT !.node = n, !.size = fs[Resolved(n)]])
      ELSE Finish(r, NativeError)

\* get until its os.Stat: a file inside the root and within the limit.
FsGet(r, d, call) ==
  LET n == call.path
  IN  IF n # NoNode /\ SafeResolve(d, n) /\ n \notin Dirs /\ StatOK(Resolved(n))
         /\ fs[Resolved(n)] <= InlineLimit
      THEN Go(r, "get", [NoWork EXCEPT !.node = n, !.size = fs[Resolved(n)]])
      ELSE Finish(r, NativeError)

\* The handler: usage, a missing or unknown root, or a verb.
HandleFileTool(r, roots, call) ==
  /\ \/ call.verb = "help" /\ Finish(r, HelpResult)
     \/ call.verb # "help" /\ call.root \notin DOMAIN roots /\ Finish(r, NativeError)
     \/ /\ call.root \in DOMAIN roots
        /\ \/ call.verb = "find" /\ FsFind(r, roots[call.root], call)
           \/ call.verb = "ls" /\ FsList(r, roots[call.root], call)
           \/ call.verb = "get" /\ FsGet(r, roots[call.root], call)
  /\ UNCHANGED <<fs, writes, touched>>

\* Mutant of FsGetRead: an error of os.ReadFile is dropped.
FsGetReadUnchecked(r) ==
  LET f == Resolved(work[r].node)
  IN  /\ at[r] = "get"
      /\ Finish(r, [kind |-> "data", file |-> f, size |-> fs[f],
                    ref |-> [node |-> work[r].node, size |-> work[r].size]])
      /\ UNCHANGED <<fs, writes, touched>>

\* get after its Stat: os.ReadFile reads what is there now, and the
\* reference carries the size that Stat saw.
FsGetRead(r) ==
  LET n == work[r].node
      f == Resolved(n)
  IN  /\ at[r] = "get"
      /\ Finish(r, IF ~ StatOK(f) THEN NativeError
                   ELSE [kind |-> "data", file |-> f, size |-> fs[f],
                         ref |-> [node |-> n, size |-> work[r].size]])
      /\ UNCHANGED <<fs, writes, touched>>

\* os.ReadDir of ls.
FsReadDir(r) ==
  /\ at[r] = "list"
  /\ Go(r, "refs", [work[r] EXCEPT !.pending = {n \in Entries[work[r].node] : StatOK(n)}])
  /\ UNCHANGED <<fs, writes, touched>>

\* ls makes its references; that of a single file that has vanished is empty,
\* for fsList drops the error of FileRefAt.
FsListRefs(r) ==
  LET n == work[r].node
  IN  /\ at[r] = "refs"
      /\ Finish(r, FsRecordsResult(
                     IF n \in Dirs THEN {DirEntryRef(e) : e \in work[r].pending}
                     ELSE {IF StatOK(Resolved(n)) THEN FileRefAt(n) ELSE NewFileRef(NoNode)},
                     FALSE))
      /\ UNCHANGED <<fs, writes, touched>>

\* Do the extensions and the glob of a find accept the file?
MatchFind(n, want) == n \in want

\* filepath.WalkDir reads one more directory.  Links are not regular files.
WalkDir(r) ==
  /\ at[r] = "walk"
  /\ \E d \in work[r].todo :
       Go(r, "walk", [work[r] EXCEPT
            !.todo = (@ \ {d}) \cup (Entries[d] \cap Dirs),
            !.pending = @ \cup {n \in Entries[d] \cap Files :
                                   MatchFind(n, work[r].want) /\ StatOK(n)}])
  /\ UNCHANGED <<fs, writes, touched>>

\* Mutant of WalkFile: a vanished file ends the walk.
WalkFileStops(r) ==
  /\ at[r] = "walk"
  /\ \E n \in work[r].pending :
       LET refs == IF StatOK(n) THEN work[r].refs \cup {FileRefAt(n)} ELSE work[r].refs
       IN  IF ~ StatOK(n) THEN Finish(r, FsRecordsResult(refs, FALSE))
           ELSE Go(r, "walk", [work[r] EXCEPT !.pending = @ \ {n}, !.refs = refs])
  /\ UNCHANGED <<fs, writes, touched>>

\* The callback of the walk on a file it has listed: a vanished one is
\* skipped, and at maxFindResults the walk is over.
WalkFile(r) ==
  /\ at[r] = "walk"
  /\ \E n \in work[r].pending :
       LET refs == IF StatOK(n) THEN work[r].refs \cup {FileRefAt(n)} ELSE work[r].refs
       IN  IF Cardinality(refs) >= MaxFind THEN Finish(r, FsRecordsResult(refs, TRUE))
           ELSE Go(r, "walk", [work[r] EXCEPT !.pending = @ \ {n}, !.refs = refs])
  /\ UNCHANGED <<fs, writes, touched>>

FindReturn(r) ==
  /\ at[r] = "walk" /\ work[r].todo = {} /\ work[r].pending = {}
  /\ Finish(r, FsRecordsResult(work[r].refs, FALSE))
  /\ UNCHANGED <<fs, writes, touched>>

FileStep(r) ==
  FsGetRead(r) \/ FsReadDir(r) \/ FsListRefs(r) \/ WalkDir(r) \/ WalkFile(r) \/ FindReturn(r)

\* The environment creates, deletes or rewrites a file while a verb runs.
WriteFile ==
  /\ writes < MaxWrites /\ \E r \in Requests : at[r] \in FsVerbs
  /\ \E f \in Files, s \in Sizes \cup {Absent} :
       /\ fs[f] # s
       /\ fs' = [fs EXCEPT ![f] = s]
       /\ touched' = [r \in Requests |-> IF at[r] = "idle" THEN {} ELSE touched[r] \cup {f}]
  /\ writes' = writes + 1
  /\ UNCHANGED <<at, work, reply>>
=============================================================================
