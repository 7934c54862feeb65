# TLA+ verification of lib-agent-mcp

lib-agent-mcp turns a cobra CLI into an MCP server: it reflects the command tree
into tools, serves them over stdio or HTTP, and can put a self-contained OAuth 2.1
layer (authorization server and resource server in one process) in front of the
HTTP endpoint. This directory models the parts of it that keep state, checks them
with TLC on small instances and proves the main safety results with TLAPS.

References such as `oauth/grant.go:46` are to files of the repository.
`PROJECT.json` holds the same information in machine-readable form: the line range
each definition models (`map`), the runs, the mutants, the hazards and the theorems.

## 1. Inventory

| Component | State | Operations | Interacts with |
|---|---|---|---|
| JSON map store (`oauth/mapstore.go`) | one document per map in the secret store; one mutex per Go value | `get`, `mutate`, `load`, `save` | the client registry, refresh store and principal registry are built on it |
| Client registry (`oauth/clients.go`, `register.go`) | client id -> redirect URIs, persisted | register, lookup | read by authorize |
| Pairing and principals (`oauth/pairing.go`, `principal.go`, `pair.go`) | shared code; name -> (code, binding), persisted | `pair rotate/add/remove/reset/list`, `Code`, `VerifyPrincipal` | separate operator processes that share only the secret store with the server |
| Authorization (`oauth/authorize.go`, `authcode.go`, `pkce.go`) | pending codes, in memory | submit, issue, consume | registry, pairing, token endpoint |
| Token endpoint (`oauth/grant.go`, `refresh.go`) | refresh token -> grant, persisted | code grant, refresh grant with rotation | issuer, refresh store |
| Issuer and gate (`oauth/token.go`, `server.go`) | signing key, persisted and cached at boot | mint, validate, `Protect` | wraps the MCP handler |
| Secret store (`oauth/store.go`) | the host keyring | Get, Set, DeleteAll | everything persistent; shared by several server processes and `pair` |
| `mcp` command and HTTP (`server.go`, `http.go`, `http_oauth.go`) | flags, context, listener, Shutdown goroutine | start-up, serve, signal, unwind | tunnel, access log, OAuth |
| Tailscale tunnel (`tailscale.go`) | the tunnel configured outside the process | derive URL, start, teardown | started and deferred by `runHTTP` |
| Access log (`accesslog.go`) | a file | open, write after a handler, close | handlers, `runHTTP` |
| Tool surface (`schema.go`, `commandtree.go`, `annotations.go`, `grouphelp.go`) | tool list fixed at construction; cobra's lazily merged flag sets | `buildTools`, `groupHelp`, predicates | dispatch |
| Tool dispatch (`jsonrpc.go`, `http.go`, `runner.go`) | position in the stdio input, requests in flight, child processes | stdio loop, HTTP handler, `tools/call`, start, kill and reap of a child | tool surface, file tool, translation, the principal on the context |
| File tool (`fs*.go`) | the file system | find, ls, get | effective roots per principal |
| Result translation (`translate.go`, `resultblocks.go`, `fileref_rewrite.go`) | none | scrub paths, make blocks | dispatch |
| Options, banners, usage, metadata, example | none | setters, text | |

What is hard here:

* **Two kinds of concurrency.** Request goroutines share Go mutexes; the `pair`
  commands are other processes and share only the keyring, where every update is a
  read-modify-write of a whole document.
* **State in three places** with different lifetimes: the keyring survives everything,
  memory (cached key, pending codes) dies with the process, clients keep their tokens.
* **Multi-step handlers** that can fail or die between two saves.
* **Start-up and shutdown order**: gate before listener, teardown after every later
  failure, three kinds of goroutine at exit.
* **Children and clients that do not end**: a command may hang, leave a descendant
  that holds its output, or lose the client it works for.
* **A file system nobody locks**: every verb of the file tool looks at it more than once.
* **Predicates evaluated at two times** (hint at construction, `--yes` at call) over
  cobra structures that change in between.

What makes each part correct is stated as properties in section 4.

## 2. Modules

| Module | Models | Notes |
|---|---|---|
| `AtomicMap` | what a map store promises | abstract specification: each operation takes effect at one instant, on the map or, when the store misreads that as absent, on the empty one; an error leaves no effect or the whole effect |
| `JsonMapStore` | `oauth/mapstore.go` | detailed: lock, load, save, error, return, crash as separate steps; `INSTANCE AtomicMap` gives the refinement `Atomic` |
| `JsonMapStoreProofs` | | theorems |
| `Authority` | what the OAuth layer promises | abstract specification: consent, issue, use, deliver, refuse, revoke, each in one step |
| `AuthServer` | the whole of `oauth/` and `pair.go` | composition of registries, endpoints, issuer, operator, clients, clock, faults; `A == INSTANCE Authority` gives the refinement `Implements` |
| `AuthServerProofs`, `AuthServerSafetyProofs` | | theorems |
| `HttpLifecycle` | `server.go` (`Command`, `runHTTP`), `http.go`, `http_oauth.go`, `tailscale.go`, `accesslog.go` | main, Shutdown goroutine, one goroutine per request |
| `HttpLifecycleProofs` | | theorems |
| `ToolSurface` | `schema.go`, `commandtree.go`, `annotations.go`, `grouphelp.go`, `callTool` of `jsonrpc.go` | the initial states range over every small command tree |
| `ToolSurfaceProofs` | | theorems |
| `Translate` | `translate.go`, `fileref_rewrite.go`, `resultblocks.go` | pure operators from a finished child to a result |
| `FileTool` | `fs.go`, `fs_find.go`, `options.go` (roots, limit, scope) | the verbs, cut at each access to the file system |
| `ToolCall` | `jsonrpc.go`, `runner.go`, `handleHTTP` of `http.go`, `flagSchema` | composition: extends `FileTool`, instantiates `Translate` |
| `ToolCallProofs` | | theorems |
| `Bootstrap` | `loadOrCreateKey`, `Pairing.Code`, `KeyringStore`, `pair rotate/reset` | several server processes on one store, over restarts |
| `BootstrapProofs` | | theorems |
| `Induction` | | induction on the naturals without operator parameters, concatenation of a family of sequences |
| `MC*` | | instances for TLC |

### JsonMapStore

State: `doc` (the document), `mu` (a mutex per Go value), and per thread `pc`, `op`,
`buf` (the map about to be marshalled), `res`. `get` and `mutate` are
`Call; Lock; Load; [Save;] Return`, with `StoreError` at each store access and the
deferred unlock folded into the step that leaves the function. `Principals` and
`candidates` call `load()` without the mutex: that is `List`. `InstanceOf` says which
Go value a thread uses; the server has one per map, `RemovePrincipal` makes its own.

`Faults` adds to plain errors and crashes what the keyring behind `SecretStore` may do: with
`"silent"`, `Get` reports a read that failed as an absent document (`KeyringStore.Get`,
`oauth/store.go:61-67`, has no other answer once the keyring is available), so that `load`
yields the empty map; with `"late"`, a `Set` that reports an error has replaced the document
all the same. `blind` (history) is the threads whose own `Get` misread the document.

### AuthServer

A handler is cut at each access to the secret store and each mutex: between those
points no other process or goroutine can observe it. `pc[t]` names the next access.
The signing key, shared code, principals, clients and refresh documents are one
variable each (the store); `key`, `codes`, the mutexes with their holders' maps
and the threads are the server process and vanish in `Crash`. An authorization goes
`Authorize; ReadCode; [RotateCode;] MatchShared | MatchNamed | MatchNone; IssueCode`, a
refresh `Exchange; ExchangeSave; Issue; IssueSave`, a code grant `RedeemCode; Issue;
IssueSave` or `BurnCode`. `pair remove` is `PairRemove; SweepLoad; SweepSave`
(or `SweepError`), with no mutex in common with the server. `OnlineOps` says which
`pair` commands may run while the server is up; every one may run while it is down.

A store access may fail with or without effect (`StoreError`; the second alternative of
`RotateCode`, `ExchangeSave` and `IssueSave`). Not here but in `JsonMapStore` and `Bootstrap`
is the read that fails silently: `AuthServer`, its runs and its theorems take a `Get` that
reports absence at its word. After one that lies, the operation that met it saves a document
without the other entries, and the statements of `AuthServer` about those do not apply
(clients unknown, refresh tokens gone without anybody revoking them).

Abstractions: random identifiers are fresh model values (a generator never repeats;
`drawn` and `owner` record which were used); S256 is an injection; a JWT is its claims
and the key that signed it; issuer and audience are one fixed pair; pairing-code
normalisation is left out (a code is a model value). Requests refused before
any effect are not steps. Where two accesses are merged into one step (creation of the
signing key, the principals document) a comment at the definition says why. The
refresh token is drawn when the request starts rather than in `issue`, so that the
bound on identifiers refuses a request and never strands one half-way.

History variables (`owner`, `approvals`, `spent`, `retired`, `changedAt`) record what
happened. `owner` and `drawn` are also read by guards, for freshness; `owner` is what
`approvals` is computed from, which is independent of the identity the code under
verification reports. `marks` records what a running server still held in memory when an
operator's command ended: `astray`, the names with a grant under way at the end of their
removal; `estranged`, the clients with a request, code or loaded entry at a `pair reset`;
`outlived`, whether the server that is up has seen a reset. They are the exceptions of
`RemovedStayOut`, `ClientsKnown` and `ResetInvalidates`.

The refinement mapping (at the end of the module) reads the
abstract state off the detailed one: `Live` is the pending codes and the stored refresh
tokens, `Due` the successors of grants between consumption and save, `Consents` the
handlers about to issue a code, `Gone` the credentials drawn that are in none of these
places and not `Reserved` by a request. Mutexes, documents loaded and not yet saved and the
sweep's buffer have no counterpart in `Authority`.

### HttpLifecycle

`main` is where `runHTTP` stands; one action per call that can fail or block, in the
order of the source. The deferred calls run last in, first out: teardown, log, stop.
`Exit` aborts what is still in flight, as process exit does. A signal may come at any
time after `NotifyContext`.

### ToolSurface

Commands are numbers larger than their parents', so that every tree appears
exactly as a function `parent`. `merged` is cobra's bookkeeping: `cmd.Flags()`
contains persistent flags only after some call merged them. `Find`, `LocalFlags`
and `InheritedFlags` are external (cobra) and modelled by how they are used. Dashed
words, aliases and prefix matching are left out.

### ToolCall, FileTool, Translate

`msg` is the input: one message per request, fixed at start, with its form (GET, garbage,
notification, plain method, tool call), size and bearer. `at[r]` is where the handler of
a request stands: `idle`, `child` (inside `cmd.Run`), a stage of a file verb, or `done`
with its `reply`. On stdio the requests are lines taken one at a time (`line`, `answers`,
`served`); over HTTP they run concurrently.

* `Dispatch` is `dispatch` and `handleToolCall`; `CallTool` goes to `HandleFileTool` or
  `Run`. Which command is meant, and whether it takes `--yes`, is `ToolSurface`'s
  subject and part of the call here.
* `Argv` keeps the order of `buildArgv` and `run`: options by name, arguments, `--yes`,
  `--format jsonl`, then what `identityInjection` returns. A number keeps what `%v` does
  to it. A word of argv is one string, as in the code: `--flag=value`, a bare `--flag`, or
  anything else; the injected `--format` and `jsonl` are two words, and so are the words of the
  identity binding. How the child reads argv (a bare flag that takes a value swallows the
  next word, the last flag wins, `--` ends the flags, a flag at the end without its value or an
  integer with an exponent is refused) is pflag's and external: `Roles`, `Value`, `ParseOK`.
* `Unreadable`: `LimitReader` cuts a body at 4 MiB. A JSON text that ends before the limit and
  is followed by blanks (`padded`) is read and dispatched all the same; any other oversize
  body does not parse.
* A child runs, exits with one of `Outputs` or is killed when its client is `gone`;
  `ChildFork` leaves a descendant with the pipe, and `RunReturn` waits for both.
* `FsGet; FsGetRead` is Stat, then ReadFile. `FsList; FsReadDir; FsListRefs` is Stat,
  ReadDir, then the references. `FsFind; WalkDir*; WalkFile*; FindReturn` reads
  a directory, then visits its files. `WriteFile` is any other process, between any two of
  these. Directories and links are fixed; a link leads to a file; what the filters
  of `find` match is a set of files (`MatchFind`).
* A line of a child's stdout is classified by what `translate` tells apart: a record
  whose value is a path, a record with a path inside a longer string, metadata, or not
  JSON; and whether JSON escapes the path.

History: `touched[r]`, the files changed since request `r` started.

### Bootstrap

Each `Get` and `Set` of a boot is a step: `Start; GetKey; [SetKey;] GetCode; [SetCode]`,
then `up`, where `Mint` signs with the cached key. `StoreError` fails any of them, a `Set`
with or without effect; `Stop` is a crash or an exit at any point; `Cut` truncates the
stored key; `PairRotate`, `PairReset` and `PairResetFails` are the operator. `minted` holds
the keys of the tokens in clients' hands since the last reset. Two more things the code does not
exclude are on in the run: `Overlap` (a boot or `pair` while another process boots or is
up) and `"silent"` in `Faults` (a failed read looks absent). History: `misled[p]` says why an
entry that process `p` is about to create is not absent (its own read failed, or someone
wrote in between); `mishaps`, what has replaced or wiped a signing key under servers or
clients that go on with it.

## 3. Runs

| Run | Checks | Result |
|---|---|---|
| `map` | `TypeOK`, `MutexDiscipline`, `NoLostUpdate`, `Atomic`, `CallsReturn` | pass |
| `auth` | `TypeOK`, `ApprovedOnly`, `SpentStaysSpent`, `OneCredentialPerApproval`, `ClientsKnown`, `RemovedStayOut`, `Implements`, `GoneForGood` | pass |
| `auth_live` | `ClientsKnown`, `RemovedStayOut`, `ResetInvalidates`, `RequestsEnd`, with `pair remove` and `pair reset` online | pass |
| `http` | `TypeOK`, `NoUngatedRequest`, `TunnelTornDown`, `SignalEnds` | pass |
| `surface` | `TypeOK`, `HintGaps`, `ExcludedNeverRuns`, `HelpIsComplete`, `OptInSurface`, `BoundariesDisjoint` | pass |
| `calls` | `TypeOK`, `ActsAsCaller`, `OwnFilesOnly`, `ListingComplete`, `InlineWithinLimit`, `TextAgrees`, `StdioInOrder`, `CancelledEnds`, `StdioReturns` | pass |
| `boot` | `TypeOK`, `KeysAgree`, `TokensSurvive`, `CodeStable`, with overlapping boots and silent reads | pass |
| `auth_remove_window` | `RevocationWindow` with `pair remove` online | violated |
| `auth_rebind` | `OldBindingLapses` | violated |
| `http_drain` | `GracefulDrain` | violated |
| `surface_skip_group` | `ConfirmHasHint` with Skip'd groups | violated |
| `calls_number` | `IntegersArrive` with an option of 1000000 | violated |

Bounds and why they suffice:

* `map`: two threads, two keys, two values. A lost update needs two writers; two keys
  separate "my key" from "another key" in the shared document; `sweep` deletes by
  value, and two values tell what it deletes from what it leaves.
* `auth`: two threads (a race needs two), two clients (so that a credential could move
  from one to the other), three refresh tokens (a token, its successor, and one more
  for a retry or a second rotation), two signing keys and a clock of 0..2 with
  lifetimes of 1 (before, at and after expiry; a reset and a re-created key). One name
  and three pairing codes give shared, named and rotated codes. Threads and random
  identifiers are interchangeable, so symmetry is sound; the two temporal properties checked under it
  (`Implements`, `GoneForGood`) are safety properties that treat all of them alike.
  `pair remove` and `pair reset` run with the server down here, beside it in `auth_live` and `auth_remove_window`.
* `auth_live`: two threads, two authorization codes and two refresh tokens, so that two requests contend
  for the refresh mutex in the middle of a grant; `pair remove` and `pair reset` beside the server,
  so that either can fall between any two steps of a request, and a request can find the
  shared code gone and rotate it (`RotateCode`); two signing keys, so that a server that
  keeps a wiped key and one that draws a new one both occur. The clock stands still: what the
  passage of time adds to these properties is the subject of `auth`. A symmetry set is not
  sound for liveness, so the action constraint `FirstDraw` takes its place: of the steps that
  differ only in the fresh identifier they draw, one is explored. Each identifier is
  drawn once and no fairness condition names one, so every behaviour is one of these after
  renaming its identifiers in the order of their draws.
* `auth_remove_window`: no faults, only `pair add` and `pair remove` online.
* `auth_rebind`: `CodeTTL` is 0 and every `pair` command is run with the server down, so that no
  authorization code issued under the old binding is pending at a time the property speaks of:
  what it catches is a refresh.
* `http`: two requests; they meet only through the command's own state. All 32
  combinations of flags are initial states. `CHECK_DEADLOCK FALSE` because the command
  ends, and stays ended.
* `surface`: every tree of three commands, of every kind (excluded, runnable and exposed
  groups and leaves, local and persistent `--yes`), and argument lists of up to two words: enough for
  a group in a group with a leaf. `surface_skip_group` has trees of four commands of
  a few kinds. The tree never changes and a call ends where it began, hence
  `CHECK_DEADLOCK FALSE` (a tree without tools has no call).
* `calls`: two requests (one to race, to queue behind or to run beside the other), two
  principals and the operator, a shared root with a subtree for each principal and a link
  from one into the other. The first message ranges over every form and verb, the
  commands with options and arguments that repeat the appended flags, and every size around
  the two limits (`MaxLine` = 2 and `MaxBody` = 1 stand for 8 and 4 MiB); the second is a
  `get`, a ping or, in one pair, another command. Sizes {1, 2} lie at and above `InlineLimit`;
  two files with `MaxFind` = 2 reach the cap. One change of the file system (`MaxWrites`)
  already comes between any two accesses of a verb, as no verb looks at one file more than
  twice. After the last message nothing is left to do (`Quiet`).
* `boot`: three processes (two race for an entry while a third is up or comes later), three keys and
  codes and two `pair` commands, so that a key is created, replaced by a misled boot and
  created again. Symmetry is sound: the only temporal property is an action property.

Each property of a passing run has a mutant: a variant of one mapped definition with a
plausible bug in it, kept next to the definition, under which TLC finds the property
violated (`mutants` in `PROJECT.json`).

Fairness:

* `JsonMapStore!FairSpec`: weak fairness on a thread's own steps (the Go scheduler
  runs runnable goroutines, store calls return) and strong fairness on `Lock` (a
  `sync.Mutex` in starvation mode hands over in FIFO order).
* `AuthServer!FairSpec`: the same, with strong fairness on the one step in the
  middle of a request that waits for a mutex. Nothing is assumed of clients, operator,
  faults, boot or clock.
* `HttpLifecycle!FairSpec`: main makes progress once the context is cancelled (every call
  it makes is then bounded: the tunnel commands die with the context or have a deadline,
  keyring and file calls are assumed to return), the Shutdown goroutine
  runs, and its grace period ends. Requests get none: a tool may hang.

* `ToolCall!Spec`: the stdio loop and a handler's own steps are taken, including the kill
  that `exec.CommandContext` promises. A child need not end, a descendant need not close
  its pipe, a client need not go away: nothing in the code makes them.

## 4. Properties

* `MutexDiscipline`: the mutex is held exactly between `Lock` and the deferred
  `Unlock`, on error paths too.
* `NoLostUpdate`, `Atomic`: what is saved is the operation applied to the *current*
  document; the store refines the atomic map. Exception, in both: an operation whose own
  `Get` failed silently runs on the empty map and costs every other entry; the map is
  lost in no other way.
* `ApprovedOnly`: no code, refresh token or access token carries a (client, scope,
  principal) that the owner of a pairing code did not approve together.
* `SpentStaysSpent`: an exchanged refresh token never returns to the store.
* `OneCredentialPerApproval`: pending codes, stored refresh tokens and grants on their way into
  the store together never exceed the authorization codes issued: no two requests win the
  same code or token.
* `ClientsKnown`: credentials do not outlive the registration of their client. Exception: a
  client of which a running server held a request, code or loaded entry at a `pair reset`.
* `RevocationWindow` (as the documentation has it): after `pair remove` has completed, the principal
  has no way to new tokens and its old ones end within one access-token lifetime.
  `RemovedStayOut` is what holds beside a running server, whatever it saves after the removal: the
  same, except for a principal with a grant under way in the server when the removal ended.
* `ResetInvalidates`: no token signed with a wiped key is accepted, by any server but the one
  that was running at the wipe.
* `Implements`: the server does what `Authority` does. A consent needs an enrolled principal (or
  the shared code) and a registered client, and becomes one credential; a credential is used or
  refused once, and its use yields one successor with the same grant; a revocation
  ends the claims of one principal and nobody else's, whatever handlers are in between;
  a crash ends what is in memory or on its way and nothing else. What the
  authority permits and a client may regret: a wrong presentation ends a code (`Refuse`), a failed
  request ends the successor it had drawn (`Fail`).
* `GoneForGood`: a code or refresh token once used, refused, lost, revoked or wiped never comes
  back, in whichever document.
* `OldBindingLapses`: later than one access-token lifetime after `pair add` with another binding, no
  refresh request mints with the old one.
* `NoUngatedRequest`: with `--oauth` no request is served around `Protect`.
* `TunnelTornDown`: at exit the tunnel is down, its failed teardown was reported, or a
  signal killed the command that was starting it.
* `GracefulDrain`: during the grace period no request is cut off and each
  completed one gets its log line.
* `ConfirmHasHint`: `--yes` is injected only on a tool whose `destructiveHint` is set.
  `HintGaps` is what holds in every tree: the exceptions are a group tool's commands below
  an excluded group and those with a persistent `--yes`, and no others.
* `ExcludedNeverRuns`, `HelpIsComplete`, `OptInSurface`, `BoundariesDisjoint`: dispatch,
  help and tool list agree on what is visible, in every tree. Exceptions, in the
  properties: what lies below an excluded group (`Masked`), and the subcommands of a
  runnable group that is a tool.
* `ActsAsCaller`: whatever words a client sends as options and arguments, the child of a named
  principal has the gate and sees its own selector, every child sees `--format jsonl`, and a gated
  command its `--yes`. Exceptions, in the property: after a `--` in the arguments (`Escapes`) the
  appended flags are positional; arguments that end in a flag which waits for its value
  (`Dangles`) swallow the next word, `--yes` of a gated command or else `--format`. The selector
  comes later and is never what is swallowed.
* `OwnFilesOnly`: contents, references and rewritten paths that a named principal gets lie
  below its own scoped roots.
* `ListingComplete`: a listing that was not truncated has every file that was there all
  along, and none that never was. Exception: the empty reference of section 6.
* `InlineWithinLimit`: more than the limit, or a size that is not that of the contents, is
  returned only when the file changed between Stat and ReadFile.
* `TextAgrees`: records and text block of one result show the same paths. Exception: all
  paths below a root are spelled with escapes.
* `StdioInOrder`: exactly the requests are answered, in order, one at a time.
* `TokensSurvive`, `CodeStable`: a restart, whatever failed before it, loses neither tokens
  nor the shared code. Exceptions: a boot misled by a failed read or by another writer
  replaces an entry, and a server that outlives `pair reset` goes on with its key. `KeysAgree` is
  the invariant behind both; its part `Explained` says that only silent reads (`"silent"`) and
  overlapping commands (`Overlap`) ever cause an exception, so that a failed write, a crash between
  two writes or a key cut short never do.
* `IntegersArrive`: an integer option arrives as that integer.
* Liveness: `CallsReturn`, `RequestsEnd`, `SignalEnds`; `CancelledEnds` (the request of a client
  that went away ends, unless a descendant holds the pipe); `StdioReturns` (the session
  ends unless one command, or the pipe it left, never does).

## 5. What is proved

For every value of the constants that satisfies the named assumptions of the
modules (identifiers and entries are not confused with `Absent`, authorization codes, refresh
tokens, clients and signing keys are told apart, lifetimes are natural numbers,
the default scope is a scope; the directory tree is one, with scopes and links inside it
and directories, files and links told apart; messages, options and child outputs have the
shape the decoder gives them, of any content and length):

* **JsonMapStoreProofs.** `TypeCorrect`; `MutexCorrect`; and, when all threads go
  through one Go value (`SharedInstance`, stated in each of the two theorems as an
  assumption), `NoLostUpdateCorrect` and `AtomicCorrect` (the refinement), under any
  `Faults`, silent reads and late failures of `Set` included. The inductive invariant is types,
  `MutexDiscipline` and `NoLostUpdate`: `NoLostUpdate` is preserved because a thread about to save holds the one
  mutex, so nobody else saves; the refinement then maps `Save` to `Perform`, `Load` to
  `Perform` or a stutter, `StoreError` to `Fail`, `Crash` to `ACrash`. `BlindBySilence` (only a silent
  failure misleads a thread) is what lets a misled `Save` map to a `Perform` on the empty map.
* **AuthServerProofs.** `TypeCorrect` (which ties the shape of a handler's locals to its
  program counter), `ProvenanceCorrect` and `ApprovedOnlyCorrect`, without any restriction on
  `OnlineOps` or `Faults`: approval survives every race that defeats revocation.
  `ApprovedOnly` is not inductive: a grant travels in
  maps between load and save, in handlers' locals and in the sweep's buffer, and is created
  from a pairing code read earlier. `Provenance` adds exactly those copies
  (`GrantProvenance`) and the fact that codes on file belong to their owners
  (`PairingProvenance`), which a freshly drawn code cannot disturb.
* **HttpLifecycleProofs.** `TypeCorrect`, `NoUngatedRequestCorrect` (strengthened by
  `GateInPlace`: past the OAuth step of start-up, `--oauth` implies the gate is set) and
  `TunnelTornDownCorrect` (strengthened by `TunnelOwned`: which states of main can have
  a tunnel without a teardown), for any set of requests.

* **BootstrapProofs.** `TypeCorrect`, `KeysAgreeInvariant`, `TokensSurviveTheorem` and
  `CodeStableTheorem`, for any number of processes, keys and codes and under any faults and
  overlaps: none of them has a hypothesis. `TokensSurvive` speaks of servers that are up and is
  not inductive: `KeysAgree` adds that a process about to create an entry finds none stored unless
  it is marked `misled`, that keys cached by booting and idle processes are the stored one
  too until a mishap, unless that was truncated, and where marks and mishaps come from.

* **AuthServerSafetyProofs, invariants.** For any number of threads, identifiers, faults and crashes.
  `MutexCorrect` (`MutexHeld`: a mutex is held exactly by the handler between a load and its
  save), `ServerDownCorrect` (a process that is not up has no codes in memory), `RemovedStayOutCorrect`,
  `ClientsKnownCorrect` and `ResetInvalidatesCorrect` hold for all `OnlineOps`. `SuccessorsCorrect`,
  `SpentStaysSpentCorrect` and `OneCredentialCorrect` name the command that must run with the
  server down, `pair remove` (`RemoveOffline`); section 6 says how they fail when it does not.
  - `SpentStaysSpentCorrect` from `SuccessorsCorrect`. The property alone is not inductive: a
    spent token could sit in a map that was loaded before. `Successors` follows a token through
    store, loaded map and locals: a spent one is in no map, a successor belongs to one handler
    and is in no map before that handler puts it there. `SweepOffline` says the same
    of the map the operator is about to save.
  - `OneCredentialCorrect` counts. Between a load and its save the store still shows what
    the handler has already consumed, and a reset may empty the store under it, so `Credits`
    bounds `Loaded`, what the store can still become, in place of the store itself.
  - `RemovedStayOutCorrect`: `Forgotten` extends the property to the copies in flight (maps between
    load and save, the sweep's own included, and grants with handlers), `TokenAges` bounds
    the expiry of a token minted just before the removal, and `Ended` is the step at which a removal
    completes: either its principal is marked `astray`, or nothing of it is anywhere, and nothing
    can come back, since a grant starts with a match of the code the removal deleted.
  - `ClientsKnownCorrect`: `Registrations` extends the property to every handler that holds a
    client, and says that a registration about to be saved keeps the clients on file, all but the
    `estranged` ones.
  - `ResetInvalidatesCorrect`: `KeysFresh`, a wiped key is not stored, not cached but by a server
    that is `outlived`, and cannot be drawn again.
  - `CurrentCorrect`: what a handler or a sweep is about to save differs from the document *as it
    is now* by its own change only, so no save undoes another; a handler about to issue a
    code speaks for a principal still enrolled. It needs both commands offline:
    a sweep or a wipe between a load and its save makes the loaded map stale.
* **AuthServerSafetyProofs, refinement.** `ImplementsCorrect`: with `pair remove` and `pair reset`
  offline, `Spec => Implements`. `Standing` collects the invariants above; under it
  `StepRefines` has one case per action. `MatchShared` and `MatchNamed` are `Consent`, `IssueCode` is
  `Issue`, `RedeemCode` and `ExchangeSave` are `Use`, `IssueSave` is `Deliver`, `BurnCode` is
  `Refuse`, `RegisterSave` is `Join`, `PairAdd` is `Enrol`, `PairRemove` is `Withdraw`, `SweepSave` is
  `Revoke`, `Crash` is `Die`, `PairReset` is `Reset`, `Tick` is `Pass`; a failed exchange and a store
  error are `Fail` or a stutter; the rest changes nothing abstract. `Current`
  is what makes `ExchangeSave`, `IssueSave` and `SweepSave` one-step changes: the document they
  write was read earlier. `GoneForGoodCorrect` and `OnePlaceCorrect` (a
  credential stands for one grant, is not both live and on its way, and is
  gone in neither place) are then proved of the authority's steps and carried over.
* **ToolCallProofs.** All safety properties of the run `calls`, for any tree, scopes, file
  changes, options, child outputs and number of requests, from `TreeAssumption` and
  `CallAssumption` only. `Inductive` proves `IInv`: `Base` (types of the shared state), `Answered`
  (the position in the input against the answers given) and, per request, `Working` (what a verb
  has collected lies below the caller's root), `Replied` (the same of a reply), `Sized` (the size
  Stat saw, until a write), `Listing` (references collected so far and directories
  still to walk together cover what was there all along) and `Ran` (the reply is the translation
  of this request's own child). Each property speaks of finished requests and says nothing of
  the work in between, so none is inductive. The steps share one view
  (`StepView`): a step is of one request, which goes on, ends or stays, and all others stay.
  `ActsAsCallerCorrect` follows the roles of the words (`Roles`, a recursive function) through argv:
  the client's words keep theirs when words are appended (`RolesPrefix`), without a `--` and without a
  flag that waits the injected words have the roles of flags and values, with one that waits
  the first injected word is its value (`InjectedRoles`), and the last word for each injected
  flag is the injected one (`ArgvShape`, `ArgvValues`), whatever sequence the options render to.
* **ToolSurfaceProofs.** For every command tree of any size. `IInv` is `Tree` (a parent comes
  before its children), `Built` (the tool list is `BuildTools`) and `Called` (what the last call
  resolved to, and that its `--yes` was decided with *some* set of merged flags).
  `TypeCorrect`, `BoundariesDisjointCorrect`, `OptInSurfaceCorrect`, `HelpIsCompleteCorrect`,
  `ExcludedNeverRunsCorrect` and `HintGapsCorrect` are unconditional: excluded groups, runnable
  groups and persistent flags are all allowed, and each property names what they
  change. The argument is about paths in the tree: the ancestors of a command are linearly ordered
  (`AncestorsFacts`), so a masking group is above the tool (and then the tool would not exist) or
  below it (the exception). `ConfirmHasHintCorrect`, without exceptions, follows for a CLI with
  neither an excluded group nor a persistent `--yes`.
* **Induction.** `Least`, `Greatest` and `NatInd` state induction with a set in place of a
  predicate. That is what the provers need to show that the recursive functions of the models exist
  (`UpExists` for `Ancestors`, `ConcatExists` for `RenderOptions`) and what type their values
  have; from there `AncestorsFacts` and `RenderOptionsSeq` are ordinary lemmas.

Every invariant and every action or refinement property of the passing runs is thus proved for
all constants. Only model-checked: the liveness properties `CallsReturn`, `RequestsEnd`,
`SignalEnds`, `CancelledEnds` and `StdioReturns` (fairness and `ENABLED` are out of the prover's
reach), and the runs that exhibit a violation.

## 6. Differences between the code and what is said of it

Runs that exhibit one:

* `auth_remove_window`: `design-docs/multi-user.md:79-82` bounds revocation by the access-token
  lifetime. An authorization code pending in memory, or a grant between mint and
  issue, survives the removal and yields a refresh token.
* `auth_rebind`: `pair.go:101` says already-issued tokens keep their old binding until expiry; a
  refresh token has none. The trace: tokens issued, `pair add` rebinds their principal, the
  clock passes the expiry of every access token of before, and the refresh token is redeemed
  for one with the old binding. Its successor is stored with that binding again, so
  this can be repeated.
* `http_drain`: `http.go:25` says "draining gracefully". `Serve` returns as soon as
  `Shutdown` has closed the listener; nobody waits for `Shutdown`.
* `surface_skip_group`: `group_test.go:163` says a Skip'd subtree is masked. It is from
  hints, not from dispatch, which looks at the resolved command only. It is why
  `ExcludedNeverRuns` and `HelpIsComplete` except what is `Masked`.

* `calls_number`: `design-docs/design.md:130` and `flagschema.go:53` promise an integer option;
  `renderFlag` prints the decoded float64 with `%v`, so 1000000 becomes `--limit=1e+06`,
  which an integer flag refuses.

Others met while modelling (in parentheses the change of constants under which a property
shows it, where there is one):

* Two Go values over one document lose updates (`InstanceOf` mapping two threads to
  two instances: `NoLostUpdate` fails).
* One case of it: `pair remove` loads the refresh document, the server saves an exchange,
  `pair remove` saves: the exchanged token is back and the successor lost, where
  `oauth/refresh.go:15` says it is invalidated (`auth.cfg` with `"remove"` added to
  `OnlineOps` and two authorization codes: `SpentStaysSpent` fails; with five refresh
  tokens also `OneCredentialPerApproval`, when two exchanges are saved between the sweep's
  load and its save and their successors are still to be issued).
* Two servers that boot at once on an empty store, or a read that fails silently: a second
  signing key replaces the first, and one server signs with a key no later boot loads
  (without their exceptions `TokensSurvive` and `CodeStable` fail in `boot`).
* A read that fails silently in `mutate`: the operation saves its change over every other entry of
  the document, where `oauth/mapstore.go:31` speaks of an atomic read-modify-write (without `blind`,
  `NoLostUpdate` and `Atomic` fail in `map`). In `AuthServer` reads are truthful.
* `pair reset` beside a running server: the server keeps the cached key and accepts tokens signed
  with it until it stops, where `design-docs/multi-user.md` says "invalidates every token
  immediately"; a handler that loaded before the wipe writes back after it, and a pending code is
  redeemed after it (without their exceptions `ResetInvalidates` and `ClientsKnown` fail in `auth_live`).
* A crash between `ExchangeSave` and `IssueSave` leaves the client with a spent refresh
  token and no successor: it must pair again.
* A signal that kills `tailscale funnel --bg` after it took effect leaves the tunnel
  up with no teardown (the exception in `TunnelTornDown`).
* `--oauth` without `--http` is ignored (`ChooseTransport`); `design-docs/oauth.md:36`
  calls it a hard error.
* A persistent `--yes` on a group is merged into subcommands after the hint was computed
  (`Profiles` with `yes = "persistent"`: `ConfirmHasHint` fails; the second exception in
  `HintGaps`).
* The arguments of a tool that is a runnable group may name an excluded subcommand, which the
  child process then runs (the `ELSE` case of `ExcludedNeverRuns`). The only exposed command
  may sit below a Skip'd group, and `buildTools` then falls back to reflect-all (the
  `Masked` premise of `OptInSurface`); Skip hides a whole subtree where `annotations.go:7` says
  "and only it".
* After a `--` in the arguments the flags that `buildArgv` and `identityInjection` append
  are positional; `options.go:53` says the binding is applied to every such call (without
  the premise on `Escapes`, `ActsAsCaller` fails).
* `buildArgv` appends `--yes`, `--format` and `jsonl` as words of their own after the client's: arguments
  such as `["create", "--title"]` make the first of them the value of `--title` (without the
  premise on `Dangles`, `ActsAsCaller` fails). A gated command then runs without `--yes`, another one
  prints in its default format; which principal it acts for is not affected.
* A body over 4 MiB is cut, not refused: JSON followed by enough blanks is dispatched.
* Without an identity binding a named principal's commands run with the operator's defaults,
  while its file roots fail closed.
* The gate `stdoutHasRootPath` searches raw bytes: a path that JSON escapes is rewritten
  in the records and left in the text (without its second disjunct, `TextAgrees` fails).
  Metadata, lines that are not JSON and stderr are not scrubbed at all. Of a failed command
  the records are rewritten like those of a successful one (`processStdout` runs in any case), and the
  text is its error, which is not. For a principal without roots nothing is (`options.go:86` says
  the host path is never shown).
* An oversize line ends the stdio session with an error; a line that does not parse
  gets no answer.
* `ls` of a single file that vanishes after Stat succeeds with an empty reference;
  `get` of a file that changes size returns the size that Stat saw.
* `find` reports truncation when the number of matches equals the cap exactly, and its
  callback returns nil on every error, so that "cannot search" (`fs.go:162`) is never
  returned: a root that is missing gives "(no files)".
* Records are decoded through float64, so integers beyond 2^53 are rounded in the structured
  result and, when it is rebuilt, in the text.

## 7. Not modelled

* The shape of a content block by MIME type (`fs_content.go`), glob and extension matching,
  JSON and base64 encoding: pure formatting; numbers are modelled only where they
  become flags.
* The unsynchronised flag merging inside cobra when HTTP calls run concurrently: only its
  sequential effect (`merged` in `ToolSurface`).
* `options.go` beyond roots, scope, limit and binding: setters that run before the server exists.
* HTML forms, metadata documents, banners, usage, registration text, JSON-Schema
  fragments, CORS: stateless text.
* The OS keyring, the JWT library, cobra and `net/http`: external, modelled
  by how the code uses them.
* `MemStore` is a test double; the example CLI is a demonstration.

## 8. Plan

Done, in the order of what a failure would cost: `AtomicMap`, `JsonMapStore`, `AuthServer`,
`HttpLifecycle`, `ToolSurface`, then `ToolCall` with `FileTool` and `Translate`, and `Bootstrap`; the
theorems of section 5, which state every safety property the runs check; `Authority` and the proof
that `AuthServer` implements it. Open:

1. The abstract authority that the server implements beside an online `pair remove` or `pair reset`
   (`RemovedStayOut`, `ClientsKnown` and `ResetInvalidates` say what holds then), and what is left of the
   authority when reads fail silently.
2. The liveness properties, once a prover for fairness is at hand.
