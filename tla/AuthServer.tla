----------------------------- MODULE AuthServer -----------------------------
(***************************************************************************)
(* The local OAuth layer (oauth/): one server process that is its own      *)
(* authorization server and resource server, the SecretStore it shares     *)
(* with the operator's `pair` commands (separate processes), the clients   *)
(* that hold its tokens, crashes and restarts, store errors, lost          *)
(* responses and the clock.                                                *)
(*                                                                         *)
(* A request goroutine is a thread.  Its handler is split at every point   *)
(* where another goroutine or process can act in between: each access to   *)
(* the SecretStore and each mutex.  A request that is refused before it    *)
(* changes anything (unknown client, wrong redirect, no S256 challenge,    *)
(* unknown refresh token, rejected bearer) leaves the state as it is and   *)
(* is not a step.                                                          *)
(*                                                                         *)
(* A store access may fail, with or without effect, and says so.  That     *)
(* KeyringStore.Get may report a failed read as an absent entry is the     *)
(* subject of JsonMapStore and Bootstrap; here Get tells the truth.        *)
(***************************************************************************)
EXTENDS Naturals, FiniteSets

CONSTANTS
  Threads,         \* request goroutines
  Clients,         \* client ids Register can draw
  Redirects,       \* redirect URIs validRedirectURI accepts
  Scopes, DefaultScope,
  Names,           \* names given to `pair add`
  Bindings,        \* binding data given to `pair add --bind`
  PairCodes,       \* pairing codes generatePairingCode can draw
  AuthCodes,       \* authorization codes randToken can draw
  RefreshTokens,   \* refresh tokens randToken can draw
  SigningKeys,     \* signing keys rand.Read can draw
  Verifiers,       \* PKCE code verifiers
  Absent,          \* no entry / no value / empty parameter
  NoName, NoBinding,
  CodeTTL, TokenTTL,
  MaxClock,        \* bound: the clock stops here
  OnlineOps,       \* `pair` commands the operator runs while the server is up
  Faults           \* subset of {"crash", "store", "response"}

ASSUME TTLAssumption == CodeTTL \in Nat /\ TokenTTL \in Nat /\ MaxClock \in Nat
ASSUME ScopeAssumption == DefaultScope \in Scopes
ASSUME AbsentAssumption ==
  Absent \notin Threads \cup Clients \cup Scopes \cup PairCodes
                \cup RefreshTokens \cup SigningKeys \cup Nat
ASSUME KindAssumption ==
  /\ AuthCodes \cap (RefreshTokens \cup Clients \cup SigningKeys) = {}
  /\ RefreshTokens \cap (Clients \cup SigningKeys) = {}
ASSUME NameAssumption == NoName \notin Names /\ NoBinding \notin Bindings

(***************************************************************************)
(* PrincipalGrant: the zero value is the anonymous operator.               *)
(***************************************************************************)
Binding == Bindings \cup {NoBinding}
Principal == [name : Names \cup {NoName}, binding : Binding]
Anonymous == [name |-> NoName, binding |-> NoBinding]

ASSUME AbsentNoPrincipal ==
  Absent \notin Principal \cup [code : PairCodes, binding : Binding]

\* refreshGrant, and the part of authGrant and of the JWT claims that says
\* who may do what.
Grant == [client : Clients, scope : Scopes, principal : Principal]

\* base64url(sha256(verifier)), the only accepted method: an injection.
S256(v) == <<"S256", v>>
Challenges == {S256(v) : v \in Verifiers}

AuthGrant == [grant : Grant, redirect : Redirects, challenge : Challenges,
              expiresAt : Nat]
Token == [grant : Grant, key : SigningKeys, exp : Nat]

ASSUME AbsentNoEntry ==
  Absent \notin Grant \cup AuthGrant /\ \A uris \in SUBSET Redirects : Absent # uris

AuthParams == [client : Clients, redirect : Redirects, scope : Scopes \cup {Absent},
               challenge : Challenges, entered : PairCodes]

\* Where a handler is: the next store access it is about to make.
Label == {"idle", "register", "code", "rotate", "match", "approve",
          "exchange", "issue", "put"}

\* What a handler keeps between its steps, by program counter.
Matching == [params : AuthParams, shared : PairCodes]
Approved == [grant : Grant, redirect : Redirects, challenge : Challenges]
Exchanging == [from : RefreshTokens, grant : Grant,
               cid : Clients \cup {Absent}, next : RefreshTokens]
Issuing == [token : Token, next : RefreshTokens]
Local == AuthParams \cup Matching \cup Approved \cup Exchanging \cup Issuing

ClientMap == [Clients -> (SUBSET Redirects) \cup {Absent}]
RefreshMap == [RefreshTokens -> Grant \cup {Absent}]
PrincipalMap == [Names -> [code : PairCodes, binding : Binding] \cup {Absent}]
NoClients == [c \in Clients |-> Absent]
NoRefresh == [r \in RefreshTokens |-> Absent]
NoCodes == [c \in AuthCodes |-> Absent]
NoPrincipals == [n \in Names |-> Absent]
Idle == [t \in Threads |-> "idle"]
NoLocals == [t \in Threads |-> Absent]

VARIABLES
  \* The SecretStore: one document per variable.
  signingKey, pairingCode, principals, clients, refresh,
  \* The server process: lost in a crash.
  phase,       \* "down", "boot", "bootRotate" or "up"
  key,         \* Issuer.key, cached by NewIssuer
  codes,       \* authCodeStore
  clientsMu, clientsBuf,   \* mutex of the registry, and its holder's map
  refreshMu, refreshBuf,   \* mutex of the refresh store, and its holder's map
  pc, local,
  \* The operator's `pair remove`, between its two halves.
  sweep,
  \* The clients and the world.
  tokens,      \* access tokens delivered to clients
  now,
  \* History: what happened, read by the properties and by freshness only.
  owner,       \* whom each generated pairing code was made for
  approvals,   \* grants a pairing-code holder approved
  drawn,       \* random identifiers already used
  spent,       \* refresh tokens whose exchange was saved
  retired,     \* signing keys wiped by `pair reset`
  changedAt,   \* when the last completed `pair add`/`pair remove` of n ended
  \* History: what a running server still held when an operator's command ended.
  astray,      \* names with a grant under way when their removal ended
  estranged,   \* clients with a request or credential under way at a `pair reset`
  outlived     \* the server process has seen a `pair reset`

store == <<signingKey, pairingCode, principals, clients, refresh>>
locks == <<clientsMu, clientsBuf, refreshMu, refreshBuf>>
world == <<tokens, now>>
history == <<owner, approvals, drawn, spent, retired, changedAt>>
marks == <<astray, estranged, outlived>>
vars == <<store, phase, key, codes, locks, pc, local, sweep, world, history, marks>>

TypeOK ==
  /\ signingKey \in SigningKeys \cup {Absent}
  /\ pairingCode \in PairCodes \cup {Absent}
  /\ principals \in PrincipalMap
  /\ clients \in ClientMap /\ clientsBuf \in ClientMap
  /\ refresh \in RefreshMap /\ refreshBuf \in RefreshMap
  /\ phase \in {"down", "boot", "bootRotate", "up"}
  /\ key \in SigningKeys \cup {Absent}
  /\ phase # "down" => key \in SigningKeys
  /\ codes \in [AuthCodes -> AuthGrant \cup {Absent}]
  /\ clientsMu \in Threads \cup {Absent} /\ refreshMu \in Threads \cup {Absent}
  /\ pc \in [Threads -> Label]
  /\ local \in [Threads -> Local \cup {Absent}]
  /\ \A t \in Threads :
       /\ pc[t] # "idle" => phase = "up"
       /\ pc[t] \in {"code", "rotate"} => local[t] \in AuthParams
       /\ pc[t] = "match" => local[t] \in Matching
       /\ pc[t] = "approve" => local[t] \in Approved
       /\ pc[t] = "exchange" => local[t] \in Exchanging
       /\ pc[t] \in {"issue", "put"} => local[t] \in Issuing
  /\ \/ sweep = Absent
     \/ sweep \in [step : {"load"}, name : Names]
     \/ sweep \in [step : {"save"}, name : Names, buf : RefreshMap]
  /\ tokens \subseteq Token /\ now \in Nat
  /\ owner \in [PairCodes -> Principal \cup {Absent}]
  /\ approvals \subseteq Grant
  /\ drawn \subseteq Clients \cup AuthCodes \cup RefreshTokens \cup SigningKeys
  /\ spent \subseteq RefreshTokens /\ retired \subseteq SigningKeys
  /\ changedAt \in [Names -> Nat \cup {Absent}]
  /\ astray \subseteq Names /\ estranged \subseteq Clients /\ outlived \in BOOLEAN

Init ==
  /\ signingKey = Absent /\ pairingCode = Absent
  /\ principals = NoPrincipals /\ clients = NoClients /\ refresh = NoRefresh
  /\ phase = "down" /\ key = Absent /\ codes = NoCodes
  /\ clientsMu = Absent /\ clientsBuf = NoClients
  /\ refreshMu = Absent /\ refreshBuf = NoRefresh
  /\ pc = Idle /\ local = NoLocals /\ sweep = Absent
  /\ tokens = {} /\ now = 0
  /\ owner = [c \in PairCodes |-> Absent]
  /\ approvals = {} /\ drawn = {} /\ spent = {} /\ retired = {}
  /\ changedAt = [n \in Names |-> Absent]
  /\ astray = {} /\ estranged = {} /\ outlived = FALSE

-----------------------------------------------------------------------------
(***************************************************************************)
(* Boot: New loads or creates the signing key, then the boot banner calls  *)
(* Pairing.Code (get, and Rotate when there is none).                      *)
(***************************************************************************)

\* An offline `pair remove` has ended before the server is started.
MayBoot == phase = "down" /\ (sweep = Absent \/ "remove" \in OnlineOps)

LoadKey ==
  /\ MayBoot /\ signingKey # Absent
  /\ key' = signingKey
  /\ phase' = "boot"
  /\ UNCHANGED <<marks, store, codes, locks, pc, local, sweep, world, history>>

\* Get and Set are one step here: with one server nobody else writes this
\* entry except a reset, which before the Set is a reset before the Get.
CreateKey(k) ==
  /\ MayBoot /\ signingKey = Absent
  /\ k \notin drawn
  /\ signingKey' = k /\ key' = k
  /\ drawn' = drawn \cup {k}
  /\ phase' = "boot"
  /\ UNCHANGED <<marks, pairingCode, principals, clients, refresh, codes, locks, pc, local,
                 sweep, world, owner, approvals, spent, retired, changedAt>>

BootReadCode ==
  /\ phase = "boot"
  /\ phase' = IF pairingCode # Absent THEN "up" ELSE "bootRotate"
  /\ UNCHANGED <<marks, store, key, codes, locks, pc, local, sweep, world, history>>

\* Pairing.Rotate: a fresh shared code, owned by the anonymous operator.
Rotate(c) ==
  /\ owner[c] = Absent
  /\ owner' = [owner EXCEPT ![c] = Anonymous]
  /\ pairingCode' = c
  /\ UNCHANGED <<signingKey, principals, clients, refresh,
                 approvals, drawn, spent, retired, changedAt>>

BootRotate(c) ==
  /\ phase = "bootRotate"
  /\ Rotate(c)
  /\ phase' = "up"
  /\ UNCHANGED <<marks, key, codes, locks, pc, local, sweep, world>>

\* The process stops (crash, kill, or exit): everything in memory is gone.
Crash ==
  /\ "crash" \in Faults /\ phase # "down"
  /\ phase' = "down" /\ key' = Absent /\ codes' = NoCodes
  /\ clientsMu' = Absent /\ clientsBuf' = NoClients
  /\ refreshMu' = Absent /\ refreshBuf' = NoRefresh
  /\ pc' = Idle /\ local' = NoLocals
  /\ outlived' = FALSE
  /\ UNCHANGED <<store, sweep, world, history, astray, estranged>>

-----------------------------------------------------------------------------
(***************************************************************************)
(* Requests                                                                *)
(***************************************************************************)
Start(t) == phase = "up" /\ pc[t] = "idle"

Goto(t, label, value) ==
  /\ pc' = [pc EXCEPT ![t] = label]
  /\ local' = [local EXCEPT ![t] = value]

Done(t) == Goto(t, "idle", Absent)

\* Mutant of Register: the load is not under the mutex.
RegisterUnlocked(t, c, uris) ==
  /\ Start(t)
  /\ c \notin drawn /\ uris # {}
  /\ drawn' = drawn \cup {c}
  /\ clientsMu' = t
  /\ clientsBuf' = [clients EXCEPT ![c] = uris]
  /\ Goto(t, "register", Absent)
  /\ UNCHANGED <<marks, store, phase, key, codes, refreshMu, refreshBuf, sweep, world,
                 owner, approvals, spent, retired, changedAt>>

\* handleRegister, up to the load of the registry's mutate.
Register(t, c, uris) ==
  /\ Start(t) /\ clientsMu = Absent
  /\ c \notin drawn /\ uris # {}
  /\ drawn' = drawn \cup {c}
  /\ clientsMu' = t
  /\ clientsBuf' = [clients EXCEPT ![c] = uris]
  /\ Goto(t, "register", Absent)
  /\ UNCHANGED <<marks, store, phase, key, codes, refreshMu, refreshBuf, sweep, world,
                 owner, approvals, spent, retired, changedAt>>

RegisterSave(t) ==
  /\ pc[t] = "register"
  /\ clients' = clientsBuf
  /\ clientsMu' = Absent /\ clientsBuf' = NoClients
  /\ Done(t)
  /\ UNCHANGED <<marks, signingKey, pairingCode, principals, refresh, phase, key, codes,
                 refreshMu, refreshBuf, sweep, world, history>>

\* Bound: an authorization starts only while a code is left for it to end with,
\* and a pairing code where a reset may make it rotate.
CodesLeft ==
  LET busy == {t \in Threads : pc[t] \in {"code", "rotate", "match", "approve"}} IN
  /\ Cardinality(busy) < Cardinality(AuthCodes \ drawn)
  /\ "reset" \in OnlineOps =>
        Cardinality(busy) < Cardinality({c \in PairCodes : owner[c] = Absent})

\* authorizeSubmit up to VerifyPrincipal: the client lookup takes the
\* registry's mutex, and the redirect must be one the client registered.
Authorize(t, p) ==
  /\ Start(t) /\ clientsMu = Absent /\ CodesLeft
  /\ clients[p.client] # Absent /\ p.redirect \in clients[p.client]
  /\ Goto(t, "code", p)
  /\ UNCHANGED <<marks, store, phase, key, codes, locks, sweep, world, history>>

\* candidates: Pairing.Code reads the shared code; without one it rotates.
ReadCode(t) ==
  /\ pc[t] = "code"
  /\ IF pairingCode # Absent
       THEN Goto(t, "match", [params |-> local[t], shared |-> pairingCode])
       ELSE Goto(t, "rotate", local[t])
  /\ UNCHANGED <<marks, store, phase, key, codes, locks, sweep, world, history>>

RotateCode(t, c) ==
  /\ pc[t] = "rotate"
  /\ Rotate(c)
  /\ \/ Goto(t, "match", [params |-> local[t], shared |-> c])
     \/ "store" \in Faults /\ Done(t)
  /\ UNCHANGED <<marks, phase, key, codes, locks, sweep, world>>

\* Mutant of GrantedScope: an empty scope is passed on.
RequestedScope(requested) == requested

\* grantedScope: the requested scope if any, else the server's default.
GrantedScope(requested) == IF requested # Absent THEN requested ELSE DefaultScope

GrantFor(p, who) ==
  [client |-> p.client, scope |-> GrantedScope(p.scope), principal |-> who]

\* VerifyPrincipal found who; the approval is that of the code's owner.
Approve(t, who) ==
  LET p == local[t].params IN
  /\ Goto(t, "approve", [grant |-> GrantFor(p, who), redirect |-> p.redirect,
                         challenge |-> p.challenge])
  /\ approvals' = approvals \cup {GrantFor(p, owner[p.entered])}
  /\ UNCHANGED <<marks, store, phase, key, codes, locks, sweep, world,
                 owner, drawn, spent, retired, changedAt>>

\* The shared code is the first candidate: it wins.
MatchShared(t) ==
  /\ pc[t] = "match"
  /\ local[t].params.entered = local[t].shared
  /\ Approve(t, Anonymous)

\* Mutant of MatchNamed: the match is reported, the matched identity is not.
MatchNamedAnonymous(t, n) ==
  /\ pc[t] = "match"
  /\ local[t].params.entered # local[t].shared
  /\ principals[n] # Absent /\ principals[n].code = local[t].params.entered
  /\ Approve(t, Anonymous)

\* principals.load(), outside the mutex, then the named candidates.
MatchNamed(t, n) ==
  /\ pc[t] = "match"
  /\ local[t].params.entered # local[t].shared
  /\ principals[n] # Absent /\ principals[n].code = local[t].params.entered
  /\ Approve(t, [name |-> n, binding |-> principals[n].binding])

\* No candidate matches: the form is shown again.
MatchNone(t) ==
  /\ pc[t] = "match"
  /\ local[t].params.entered # local[t].shared
  /\ \A n \in Names : principals[n] # Absent =>
        principals[n].code # local[t].params.entered
  /\ Done(t)
  /\ UNCHANGED <<marks, store, phase, key, codes, locks, sweep, world, history>>

\* authCodeStore.issue and the redirect that carries the code.
IssueCode(t, c) ==
  /\ pc[t] = "approve"
  /\ c \notin drawn
  /\ drawn' = drawn \cup {c}
  /\ codes' = [codes EXCEPT ![c] =
                 [grant |-> local[t].grant, redirect |-> local[t].redirect,
                  challenge |-> local[t].challenge, expiresAt |-> now + CodeTTL]]
  /\ Done(t)
  /\ UNCHANGED <<marks, store, phase, key, locks, sweep, world,
                 owner, approvals, spent, retired, changedAt>>

\* Issuer.Mint: the claims, signed with the cached key.
Mint(g) == [grant |-> g, key |-> key, exp |-> now + TokenTTL]

\* grantAuthCode's checks after consume: expiry, client, redirect, PKCE.
Redeemable(c, cid, uri, v) ==
  /\ now <= codes[c].expiresAt
  /\ codes[c].grant.client = cid /\ codes[c].redirect = uri
  /\ codes[c].challenge = S256(v)

\* consume deletes the code; issueTokens mints and draws the refresh token.
RedeemCode(t, c, cid, uri, v, r) ==
  /\ Start(t) /\ codes[c] # Absent
  /\ Redeemable(c, cid, uri, v)
  /\ r \notin drawn
  /\ drawn' = drawn \cup {r}
  /\ codes' = [codes EXCEPT ![c] = Absent]
  /\ Goto(t, "issue", [token |-> Mint(codes[c].grant), next |-> r])
  /\ UNCHANGED <<marks, store, phase, key, locks, sweep, world,
                 owner, approvals, spent, retired, changedAt>>

\* The code is gone whether or not the checks pass.
BurnCode(c, cid, uri, v) ==
  /\ phase = "up" /\ codes[c] # Absent
  /\ ~ Redeemable(c, cid, uri, v)
  /\ codes' = [codes EXCEPT ![c] = Absent]
  /\ UNCHANGED <<marks, store, phase, key, locks, pc, local, sweep, world, history>>

\* Mutant of Exchange: the token is looked up and left in the map.
ExchangeKeeps(t, r, cid, r2) ==
  /\ Start(t) /\ refreshMu = Absent
  /\ refresh[r] # Absent /\ r2 \notin drawn
  /\ drawn' = drawn \cup {r2}
  /\ refreshMu' = t
  /\ refreshBuf' = refresh
  /\ Goto(t, "exchange", [from |-> r, grant |-> refresh[r], cid |-> cid, next |-> r2])
  /\ UNCHANGED <<marks, store, phase, key, codes, clientsMu, clientsBuf, sweep, world,
                 owner, approvals, spent, retired, changedAt>>

\* Mutant of Exchange: the load is not under the mutex.
ExchangeUnlocked(t, r, cid, r2) ==
  /\ Start(t)
  /\ refresh[r] # Absent /\ r2 \notin drawn
  /\ drawn' = drawn \cup {r2}
  /\ refreshMu' = t
  /\ refreshBuf' = [refresh EXCEPT ![r] = Absent]
  /\ Goto(t, "exchange", [from |-> r, grant |-> refresh[r], cid |-> cid, next |-> r2])
  /\ UNCHANGED <<marks, store, phase, key, codes, clientsMu, clientsBuf, sweep, world,
                 owner, approvals, spent, retired, changedAt>>

\* Mutant of Exchange: the successor only differs from the stored tokens, as one
\* from a counter that starts again would.
ExchangeReuses(t, r, cid, r2) ==
  /\ Start(t) /\ refreshMu = Absent
  /\ refresh[r] # Absent /\ refresh[r2] = Absent
  /\ drawn' = drawn \cup {r2}
  /\ refreshMu' = t
  /\ refreshBuf' = [refresh EXCEPT ![r] = Absent]
  /\ Goto(t, "exchange", [from |-> r, grant |-> refresh[r], cid |-> cid, next |-> r2])
  /\ UNCHANGED <<marks, store, phase, key, codes, clientsMu, clientsBuf, sweep, world,
                 owner, approvals, spent, retired, changedAt>>

\* refreshStore.exchange: lock, load, delete in memory.  The successor r2 is
\* drawn here rather than in issue, so that the bound on RefreshTokens stops
\* a request before it starts and never half-way.
Exchange(t, r, cid, r2) ==
  /\ Start(t) /\ refreshMu = Absent
  /\ refresh[r] # Absent /\ r2 \notin drawn
  /\ drawn' = drawn \cup {r2}
  /\ refreshMu' = t
  /\ refreshBuf' = [refresh EXCEPT ![r] = Absent]
  /\ Goto(t, "exchange", [from |-> r, grant |-> refresh[r], cid |-> cid, next |-> r2])
  /\ UNCHANGED <<marks, store, phase, key, codes, clientsMu, clientsBuf, sweep, world,
                 owner, approvals, spent, retired, changedAt>>

\* save and unlock; then the client_id check, after the token is consumed.  A
\* save that fails after it took effect ends the request too.
ExchangeSave(t) ==
  LET x == local[t] IN
  /\ pc[t] = "exchange"
  /\ refresh' = refreshBuf
  /\ refreshMu' = Absent /\ refreshBuf' = NoRefresh
  /\ spent' = spent \cup {x.from}
  /\ \/ /\ x.cid \in {Absent, x.grant.client}
        /\ Goto(t, "issue", [token |-> Mint(x.grant), next |-> x.next])
     \/ /\ x.cid \notin {Absent, x.grant.client} \/ "store" \in Faults
        /\ Done(t)
  /\ UNCHANGED <<marks, signingKey, pairingCode, principals, clients, phase, key, codes,
                 clientsMu, clientsBuf, sweep, world,
                 owner, approvals, drawn, retired, changedAt>>

\* refreshStore.issue: lock, load, add the successor in memory.
Issue(t) ==
  /\ pc[t] = "issue" /\ refreshMu = Absent
  /\ refreshMu' = t
  /\ refreshBuf' = [refresh EXCEPT ![local[t].next] = local[t].token.grant]
  /\ Goto(t, "put", local[t])
  /\ UNCHANGED <<marks, store, phase, key, codes, clientsMu, clientsBuf, sweep, world,
                 history>>

\* save, unlock and the token response, which may be lost on the way, or be an
\* error although the save took effect.
IssueSave(t, delivered) ==
  LET x == local[t] IN
  /\ pc[t] = "put"
  /\ delivered \/ Faults \cap {"store", "response"} # {}
  /\ refresh' = refreshBuf
  /\ refreshMu' = Absent /\ refreshBuf' = NoRefresh
  /\ tokens' = IF delivered THEN tokens \cup {x.token} ELSE tokens
  /\ Done(t)
  /\ UNCHANGED <<marks, signingKey, pairingCode, principals, clients, phase, key, codes,
                 clientsMu, clientsBuf, sweep, now, history>>

\* Mutant of Release: the refresh store's mutex stays locked on errors.
ReleaseClients(t) ==
  /\ clientsMu' = IF clientsMu = t THEN Absent ELSE clientsMu
  /\ clientsBuf' = IF clientsMu = t THEN NoClients ELSE clientsBuf
  /\ UNCHANGED <<refreshMu, refreshBuf>>

\* The deferred Unlock of get and mutate.
Release(t) ==
  /\ clientsMu' = IF clientsMu = t THEN Absent ELSE clientsMu
  /\ clientsBuf' = IF clientsMu = t THEN NoClients ELSE clientsBuf
  /\ refreshMu' = IF refreshMu = t THEN Absent ELSE refreshMu
  /\ refreshBuf' = IF refreshMu = t THEN NoRefresh ELSE refreshBuf

\* Mutant of StoreError: the error of issue is ignored, the response sent.
StoreErrorAnswers(t) ==
  /\ "store" \in Faults /\ pc[t] \notin {"idle", "approve"}
  /\ pc[t] = "issue" => refreshMu = Absent
  /\ Release(t)
  /\ Done(t)
  /\ tokens' = tokens \cup {local[u].token : u \in {v \in {t} : pc[v] \in {"issue", "put"}}}
  /\ UNCHANGED <<marks, store, phase, key, codes, sweep, now, history>>

\* SecretStore.Get or Set fails without effect: the handler answers with an error
\* and its deferred Unlock runs.  "approve" touches no store.  A Set that fails
\* after it took effect is part of the step that saves; a registration saved so
\* ends as one whose client never learns its id.
StoreError(t) ==
  /\ "store" \in Faults /\ pc[t] \notin {"idle", "approve"}
  /\ pc[t] = "issue" => refreshMu = Absent
  /\ Release(t)
  /\ Done(t)
  /\ UNCHANGED <<marks, store, phase, key, codes, sweep, world, history>>

\* Issuer.Validate: signed with the cached key, and not expired.
Validate(tok) == tok.key = key /\ now < tok.exp

\* Protect: the running server lets this bearer token through.
Accepted(tok) == phase = "up" /\ Validate(tok)

-----------------------------------------------------------------------------
(***************************************************************************)
(* The operator: one `pair` command at a time, each a process of its own   *)
(* that shares nothing with the server but the SecretStore.  Only these    *)
(* commands write the principals document, so its load and save are one    *)
(* step here (JsonMapStore splits them).                                   *)
(***************************************************************************)
MayOperate(command) ==
  sweep = Absent /\ (phase = "down" \/ command \in OnlineOps)

PairRotate(c) ==
  /\ MayOperate("rotate")
  /\ Rotate(c)
  /\ UNCHANGED <<marks, phase, key, codes, locks, pc, local, sweep, world>>

PairAdd(n, b, c) ==
  /\ MayOperate("add")
  /\ owner[c] = Absent
  /\ owner' = [owner EXCEPT ![c] = [name |-> n, binding |-> b]]
  /\ principals' = [principals EXCEPT ![n] = [code |-> c, binding |-> b]]
  /\ changedAt' = [changedAt EXCEPT ![n] = now]
  /\ UNCHANGED <<marks, signingKey, pairingCode, clients, refresh, phase, key, codes, locks,
                 pc, local, sweep, world, approvals, drawn, spent, retired>>

\* Mutant of PairRemove: the principal goes, its refresh tokens stay.
PairRemoveCodeOnly(n) ==
  /\ MayOperate("remove")
  /\ principals' = [principals EXCEPT ![n] = Absent]
  /\ changedAt' = [changedAt EXCEPT ![n] = now]
  /\ UNCHANGED <<marks, signingKey, pairingCode, clients, refresh, phase, key, codes, locks,
                 pc, local, sweep, world, owner, approvals, drawn, spent, retired>>

\* RemovePrincipal's first half: the pairing code stops verifying.
PairRemove(n) ==
  /\ MayOperate("remove")
  /\ principals' = [principals EXCEPT ![n] = Absent]
  /\ changedAt' = [changedAt EXCEPT ![n] = Absent]
  /\ sweep' = [step |-> "load", name |-> n]
  /\ UNCHANGED <<marks, signingKey, pairingCode, clients, refresh, phase, key, codes, locks,
                 pc, local, world, owner, approvals, drawn, spent, retired>>

OwnedBy(n, m) == {r \in RefreshTokens : m[r] # Absent /\ m[r].principal.name = n}

\* The grant thread t carries, if it has got that far.
Carried(t) ==
  CASE pc[t] \in {"approve", "exchange"} -> {local[t].grant}
    [] pc[t] \in {"issue", "put"} -> {local[t].token.grant}
    [] OTHER -> {}

\* A grant to n the running server holds in memory: in a pending code, with a
\* request, or in the map a request is about to save.
UnderWay(n) ==
  \/ \E c \in AuthCodes : codes[c] # Absent /\ codes[c].grant.principal.name = n
  \/ \E t \in Threads : \E g \in Carried(t) : g.principal.name = n
  \/ OwnedBy(n, refreshBuf) # {}

RemovalEnds(n) ==
  /\ changedAt' = [changedAt EXCEPT ![n] = now]
  /\ astray' = IF UnderWay(n) THEN astray \cup {n} ELSE astray \ {n}

\* Mutant of SweepLoad: the loop stops at the first token it deletes.
SweepLoadFirst ==
  LET n == sweep.name IN
  /\ sweep # Absent /\ sweep.step = "load"
  /\ IF OwnedBy(n, refresh) = {}
       THEN sweep' = Absent /\ RemovalEnds(n)
       ELSE /\ \E r \in OwnedBy(n, refresh) :
                 sweep' = [step |-> "save", name |-> n,
                           buf |-> [refresh EXCEPT ![r] = Absent]]
            /\ UNCHANGED <<changedAt, astray>>
  /\ UNCHANGED <<store, phase, key, codes, locks, pc, local, world,
                 owner, approvals, drawn, spent, retired, estranged, outlived>>

\* removeForPrincipal on a refreshStore of its own: the server's mutex does
\* not hold it back.
SweepLoad ==
  LET n == sweep.name IN
  /\ sweep # Absent /\ sweep.step = "load"
  /\ IF OwnedBy(n, refresh) = {}
       THEN sweep' = Absent /\ RemovalEnds(n)
       ELSE /\ sweep' = [step |-> "save", name |-> n,
                         buf |-> [r \in RefreshTokens |->
                                    IF r \in OwnedBy(n, refresh) THEN Absent
                                    ELSE refresh[r]]]
            /\ UNCHANGED <<changedAt, astray>>
  /\ UNCHANGED <<store, phase, key, codes, locks, pc, local, world,
                 owner, approvals, drawn, spent, retired, estranged, outlived>>

SweepSave ==
  /\ sweep # Absent /\ sweep.step = "save"
  /\ refresh' = sweep.buf
  /\ RemovalEnds(sweep.name)
  /\ sweep' = Absent
  /\ UNCHANGED <<signingKey, pairingCode, principals, clients, phase, key, codes, locks,
                 pc, local, world, owner, approvals, drawn, spent, retired,
                 estranged, outlived>>

\* The store fails in the second half: the command reports it and ends.  (Where
\* the save took effect that is SweepSave, after which more is promised.)
SweepError ==
  /\ "store" \in Faults /\ sweep # Absent
  /\ sweep' = Absent
  /\ UNCHANGED <<marks, store, phase, key, codes, locks, pc, local, world, history>>

\* The clients of the requests and credentials the running server has in memory.
ServedClients ==
  {codes[c].grant.client : c \in {d \in AuthCodes : codes[d] # Absent}}
    \cup {refreshBuf[r].client : r \in {q \in RefreshTokens : refreshBuf[q] # Absent}}
    \cup {local[t].client : t \in {u \in Threads : pc[u] \in {"code", "rotate"}}}
    \cup {local[t].params.client : t \in {u \in Threads : pc[u] = "match"}}
    \cup {g.client : g \in UNION {Carried(t) : t \in Threads}}

ServedAtReset ==
  /\ estranged' = estranged \cup ServedClients
  /\ outlived' = (phase # "down")

\* Mutant of PairReset: the signing key survives the wipe.
PairResetKeepsKey ==
  /\ MayOperate("reset")
  /\ pairingCode' = Absent
  /\ principals' = NoPrincipals /\ clients' = NoClients /\ refresh' = NoRefresh
  /\ retired' = retired \cup ({signingKey} \ {Absent})
  /\ changedAt' = [n \in Names |-> Absent]
  /\ ServedAtReset
  /\ UNCHANGED <<signingKey, phase, key, codes, locks, pc, local, sweep, world,
                 owner, approvals, drawn, spent, astray>>

\* Mutant of PairReset: the refresh tokens survive the wipe.
PairResetKeepsRefresh ==
  /\ MayOperate("reset")
  /\ signingKey' = Absent /\ pairingCode' = Absent
  /\ principals' = NoPrincipals /\ clients' = NoClients
  /\ retired' = retired \cup ({signingKey} \ {Absent})
  /\ changedAt' = [n \in Names |-> Absent]
  /\ ServedAtReset
  /\ UNCHANGED <<refresh, phase, key, codes, locks, pc, local, sweep, world,
                 owner, approvals, drawn, spent, astray>>

\* `pair reset --yes`: KeyringStore.DeleteAll.
PairReset ==
  /\ MayOperate("reset")
  /\ signingKey' = Absent /\ pairingCode' = Absent
  /\ principals' = NoPrincipals /\ clients' = NoClients /\ refresh' = NoRefresh
  /\ retired' = retired \cup ({signingKey} \ {Absent})
  /\ changedAt' = [n \in Names |-> Absent]
  /\ ServedAtReset
  /\ UNCHANGED <<phase, key, codes, locks, pc, local, sweep, world,
                 owner, approvals, drawn, spent, astray>>

Tick ==
  /\ now < MaxClock
  /\ now' = now + 1
  /\ UNCHANGED <<marks, store, phase, key, codes, locks, pc, local, sweep, tokens, history>>

-----------------------------------------------------------------------------
Boot == LoadKey \/ (\E k \in SigningKeys : CreateKey(k)) \/ BootReadCode
          \/ \E c \in PairCodes : BootRotate(c)

Request(t) ==
  \/ \E c \in Clients, uris \in SUBSET Redirects : Register(t, c, uris)
  \/ \E p \in AuthParams : Authorize(t, p)
  \/ \E c \in AuthCodes, cid \in Clients, uri \in Redirects, v \in Verifiers,
        r \in RefreshTokens : RedeemCode(t, c, cid, uri, v, r)
  \/ \E r, r2 \in RefreshTokens, cid \in Clients \cup {Absent} : Exchange(t, r, cid, r2)

Continue(t) ==
  \/ RegisterSave(t)
  \/ ReadCode(t)
  \/ \E c \in PairCodes : RotateCode(t, c)
  \/ MatchShared(t)
  \/ \E n \in Names : MatchNamed(t, n)
  \/ MatchNone(t)
  \/ \E c \in AuthCodes : IssueCode(t, c)
  \/ ExchangeSave(t)
  \/ \E d \in BOOLEAN : IssueSave(t, d)

Operator ==
  \/ \E c \in PairCodes : PairRotate(c)
  \/ \E n \in Names, b \in Binding, c \in PairCodes : PairAdd(n, b, c)
  \/ \E n \in Names : PairRemove(n)
  \/ SweepLoad \/ SweepSave \/ SweepError \/ PairReset

Next ==
  \/ Boot \/ Crash \/ Operator \/ Tick
  \/ \E t \in Threads : Request(t) \/ Continue(t) \/ Issue(t) \/ StoreError(t)
  \/ \E c \in AuthCodes, cid \in Clients, uri \in Redirects, v \in Verifiers :
        BurnCode(c, cid, uri, v)

Spec == Init /\ [][Next]_vars

(***************************************************************************)
(* A goroutine that can run does; a goroutine waiting for a sync.Mutex is  *)
(* not overtaken forever (starvation mode), hence SF on the one step of a  *)
(* request in flight that waits for one.  Nothing is assumed of clients,   *)
(* operator, faults or boot.                                               *)
(***************************************************************************)
FairSpec ==
  /\ Spec
  /\ \A t \in Threads : WF_vars(Continue(t)) /\ SF_vars(Issue(t))

-----------------------------------------------------------------------------
(***************************************************************************)
(* Properties                                                              *)
(***************************************************************************)

\* No privilege without approval: every pending code, stored refresh token
\* and delivered access token carries a client, a scope and a principal (name
\* AND binding) that the owner of a pairing code approved together, through
\* any number of rotations, restarts and concurrent `pair` commands.
ApprovedOnly ==
  /\ \A c \in AuthCodes : codes[c] # Absent => codes[c].grant \in approvals
  /\ \A r \in RefreshTokens : refresh[r] # Absent => refresh[r] \in approvals
  /\ \A tok \in tokens : tok.grant \in approvals

\* The codes on file are those of their owners, and so is the shared code a
\* request has read.
PairingProvenance ==
  /\ pairingCode # Absent => owner[pairingCode] = Anonymous
  /\ \A n \in Names : principals[n] # Absent =>
        owner[principals[n].code] = [name |-> n, binding |-> principals[n].binding]
  /\ \A t \in Threads : pc[t] = "match" => owner[local[t].shared] = Anonymous

\* ApprovedOnly for the copies in flight as well: maps between load and save,
\* grants a handler carries.
GrantProvenance ==
  /\ ApprovedOnly
  /\ \A r \in RefreshTokens : refreshBuf[r] # Absent => refreshBuf[r] \in approvals
  /\ sweep # Absent /\ sweep.step = "save" =>
        \A r \in RefreshTokens : sweep.buf[r] # Absent => sweep.buf[r] \in approvals
  /\ \A t \in Threads :
        /\ pc[t] \in {"approve", "exchange"} => local[t].grant \in approvals
        /\ pc[t] \in {"issue", "put"} => local[t].token.grant \in approvals

\* The inductive invariant behind ApprovedOnly.
Provenance == PairingProvenance /\ GrantProvenance

\* refresh.go:15 "the exchanged token is invalidated": once its exchange is
\* saved, a refresh token is never in the store again, so it buys tokens once.
SpentStaysSpent == \A r \in spent : refresh[r] = Absent

PendingCodes == {c \in AuthCodes : codes[c] # Absent}
StoredTokens == {r \in RefreshTokens : refresh[r] # Absent}
GrantsInFlight == {t \in Threads : pc[t] \in {"issue", "put"}}

\* One approval, one live credential: the codes pending, the refresh tokens
\* stored and the grants on their way into the store are never more than the
\* authorization codes ever issued, so neither consume nor exchange is ever
\* won by two requests, and nothing comes back after a crash.
OneCredentialPerApproval ==
  Cardinality(PendingCodes) + Cardinality(StoredTokens) + Cardinality(GrantsInFlight)
    <= Cardinality(drawn \cap AuthCodes)

\* pair.go:63 "Every connector must re-register and re-pair": credentials and
\* registrations go together, so nothing outlives the client it was issued to,
\* except what a running server had under way for a client when it was wiped.
ClientsKnown ==
  /\ \A r \in RefreshTokens : refresh[r] # Absent =>
        clients[refresh[r].client] # Absent \/ refresh[r].client \in estranged
  /\ \A c \in AuthCodes : codes[c] # Absent =>
        clients[codes[c].grant.client] # Absent \/ codes[c].grant.client \in estranged

Removed(n) == principals[n] = Absent /\ changedAt[n] # Absent

\* No token issued to n is accepted later than TokenTTL after the removal, and n
\* has no way left to get another.
Revoked(n) ==
  /\ OwnedBy(n, refresh) = {}
  /\ \A c \in AuthCodes : codes[c] # Absent => codes[c].grant.principal.name # n
  /\ \A tok \in tokens : tok.grant.principal.name = n =>
        tok.exp <= changedAt[n] + TokenTTL

\* design-docs/multi-user.md: removing a principal deletes its code and every
\* refresh token issued under it, "the revocation window is the access-token TTL".
RevocationWindow == \A n \in Names : Removed(n) => Revoked(n)

\* What that comes to beside a running server, whatever it does during and after
\* the removal, in whichever order the two save the same document: a removed
\* principal is out within the window, for good, unless the server had a grant to
\* it under way when the removal ended.
RemovedStayOut == \A n \in Names \ astray : Removed(n) => Revoked(n)

\* design-docs/multi-user.md: "rotating the signing key invalidates every token
\* immediately": no token signed with a wiped key is accepted, by no server but
\* the one that was running at the wipe and caches the key.
ResetInvalidates == \A tok \in tokens : tok.key \in retired /\ Accepted(tok) => outlived

\* pair.go:101 "already-issued tokens keep their old binding until expiry",
\* multi-user.md "same window as revocation": later than TokenTTL after `pair add`
\* has rebound n, no refresh request begins to mint for n with another binding.
OldBindingLapses ==
  [][\A t \in Threads, n \in Names :
       (/\ pc[t] = "idle" /\ pc'[t] = "exchange"
        /\ principals[n] # Absent /\ changedAt[n] # Absent
        /\ now > changedAt[n] + TokenTTL
        /\ local'[t].grant.principal.name = n)
       => local'[t].grant.principal.binding = principals[n].binding]_vars

(***************************************************************************)
(* The authority this server implements: each document and each handler as *)
(* the claims it stands for.                                               *)
(***************************************************************************)
Live == {[cred |-> c, grant |-> codes[c].grant] : c \in PendingCodes}
          \cup {[cred |-> r, grant |-> refresh[r]] : r \in StoredTokens}
Due == {[cred |-> local[t].next, grant |-> local[t].token.grant] : t \in GrantsInFlight}
Consents == {[session |-> t, grant |-> local[t].grant] :
               t \in {u \in Threads : pc[u] = "approve"}}

\* Successors drawn by requests under way.
Reserved == {local[t].next : t \in {u \in Threads : pc[u] \in {"exchange", "issue", "put"}}}
Gone == {c \in (AuthCodes \cup RefreshTokens) \cap drawn :
           c \notin PendingCodes \cup StoredTokens \cup Reserved}

Enrolled == {[name |-> n, binding |-> principals[n].binding] :
               n \in {m \in Names : principals[m] # Absent}}
Registered == {c \in Clients : clients[c] # Absent}

A == INSTANCE Authority WITH
       Sessions <- Threads, Creds <- AuthCodes \cup RefreshTokens, Lasting <- RefreshTokens,
       Grants <- Grant, TTL <- TokenTTL,
       enrolled <- Enrolled, registered <- Registered, consents <- Consents,
       live <- Live, due <- Due, gone <- Gone

\* Through every interleaving of handlers, mutexes, saves, crashes and errors
\* the server does what one authority does that consumes, replaces and revokes
\* a credential in one step.
Implements == A!ASpec

\* authcode.go:53 "single-use: gone whether or not it's still valid", and the same
\* for refresh tokens: a credential once used, refused, lost, revoked or wiped is
\* in no document and on its way to nobody ever after, whoever saves what later.
GoneForGood == [][Gone \subseteq Gone']_vars

\* Every request in flight is answered: no path keeps a mutex, and a thread
\* waiting for the refresh store's mutex gets it.
RequestsEnd == \A t \in Threads : pc[t] # "idle" ~> pc[t] = "idle"
=============================================================================
