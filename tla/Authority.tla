----------------------------- MODULE Authority -----------------------------
(***************************************************************************)
(* What the OAuth layer promises the operator, without mutexes, documents, *)
(* handlers or restarts: credentials are one-shot, each stands for one     *)
(* consent, and a withdrawn principal gets no more of them.  AuthServer is *)
(* the detailed specification that is shown to implement this one.         *)
(*                                                                         *)
(* A claim [cred, grant] is a credential (authorization code or refresh    *)
(* token) with the grant it stands for.                                    *)
(***************************************************************************)
EXTENDS Naturals

CONSTANTS
  Sessions,   \* requests for consent that may be under way at once
  Creds,
  Lasting,    \* the credentials that outlive the server process
  Grants,     \* records with at least a client and a principal
  Names, Clients,
  Anonymous,  \* the principal behind the shared pairing code
  TTL         \* how long an access token lives

VARIABLES
  enrolled,    \* principals that may consent, besides Anonymous
  registered,  \* clients that may ask
  consents,    \* [session, grant]: given, and no credential issued for it yet
  live,        \* claims a client can use
  due,         \* claims that replace a used one, on their way to the client
  gone,        \* credentials that are never live again
  tokens,      \* access tokens delivered
  now

avars == <<enrolled, registered, consents, live, due, gone, tokens, now>>

Named(S, n) == {x \in S : x.grant.principal.name = n}
CredsOf(S) == {x.cred : x \in S}
Fresh(c) == c \notin gone /\ c \notin CredsOf(live \cup due)

\* The credentials S are gone for good, and with them any that were drawn for a
\* request that failed.
Bury(S) == \E C \in SUBSET {c \in Creds : Fresh(c)} : gone' = gone \cup S \cup C

AInit ==
  /\ enrolled = {} /\ registered = {} /\ consents = {}
  /\ live = {} /\ due = {} /\ gone = {} /\ tokens = {} /\ now = 0

Enrol(p) ==
  /\ enrolled' = {q \in enrolled : q.name # p.name} \cup {p}
  /\ UNCHANGED <<registered, consents, live, due, gone, tokens, now>>

\* From here on n consents to nothing.
Withdraw(n) ==
  /\ enrolled' = {q \in enrolled : q.name # n}
  /\ UNCHANGED <<registered, consents, live, due, gone, tokens, now>>

\* The claims of a withdrawn n end, and nobody else's.
Revoke(n) ==
  /\ \A q \in enrolled : q.name # n
  /\ consents' = consents \ Named(consents, n)
  /\ live' = live \ Named(live, n) /\ due' = due \ Named(due, n)
  /\ Bury(CredsOf(Named(live \cup due, n)))
  /\ UNCHANGED <<enrolled, registered, tokens, now>>

Join(c) ==
  /\ registered' = registered \cup {c}
  /\ UNCHANGED <<enrolled, consents, live, due, gone, tokens, now>>

\* A principal of standing consents to a grant for a registered client.
Consent(s, g) ==
  /\ \A x \in consents : x.session # s
  /\ g.client \in registered /\ g.principal \in enrolled \cup {Anonymous}
  /\ consents' = consents \cup {[session |-> s, grant |-> g]}
  /\ UNCHANGED <<enrolled, registered, live, due, gone, tokens, now>>

\* One credential for one consent, of a principal that is still enrolled.
Issue(x, c) ==
  /\ x \in consents /\ Fresh(c)
  /\ x.grant.principal.name \in {q.name : q \in enrolled \cup {Anonymous}}
  /\ consents' = consents \ {x}
  /\ live' = live \cup {[cred |-> c, grant |-> x.grant]}
  /\ UNCHANGED <<enrolled, registered, due, gone, tokens, now>>

\* A claim is used once; one other credential will stand for its grant.
Use(x, c) ==
  /\ x \in live /\ Fresh(c)
  /\ live' = live \ {x}
  /\ due' = due \cup {[cred |-> c, grant |-> x.grant]}
  /\ gone' = gone \cup {x.cred}
  /\ UNCHANGED <<enrolled, registered, consents, tokens, now>>

\* The client gets it, with an access token for the same grant, or the response
\* is lost.
Deliver(x) ==
  /\ x \in due
  /\ due' = due \ {x} /\ live' = live \cup {x}
  /\ tokens \subseteq tokens'
  /\ \A k \in tokens' \ tokens : k.grant = x.grant /\ k.exp <= now + TTL
  /\ UNCHANGED <<enrolled, registered, consents, gone, now>>

\* A claim is presented wrongly (expired, wrong client, redirect or verifier).
Refuse(x) ==
  /\ x \in live
  /\ live' = live \ {x}
  /\ Bury({x.cred})
  /\ UNCHANGED <<enrolled, registered, consents, due, tokens, now>>

\* A request fails after it has drawn a credential, or used its predecessor.
Fail(S) ==
  /\ S \subseteq due
  /\ due' = due \ S
  /\ Bury(CredsOf(S))
  /\ UNCHANGED <<enrolled, registered, consents, live, tokens, now>>

\* The process dies: what lasts is as live as it was.
Die ==
  /\ consents' = {} /\ due' = {}
  /\ live' = {x \in live : x.cred \in Lasting}
  /\ Bury(CredsOf(due \cup (live \ live')))
  /\ UNCHANGED <<enrolled, registered, tokens, now>>

\* Nothing is left.
Reset ==
  /\ enrolled' = {} /\ registered' = {} /\ consents' = {} /\ live' = {} /\ due' = {}
  /\ Bury(CredsOf(live \cup due))
  /\ UNCHANGED <<tokens, now>>

Pass ==
  /\ now' = now + 1
  /\ UNCHANGED <<enrolled, registered, consents, live, due, gone, tokens>>

ANext ==
  \/ \E p \in enrolled' : Enrol(p)
  \/ \E n \in Names : Withdraw(n) \/ Revoke(n)
  \/ \E c \in Clients : Join(c)
  \/ \E s \in Sessions, g \in Grants : Consent(s, g)
  \/ \E x \in consents, c \in Creds : Issue(x, c)
  \/ \E x \in live, c \in Creds : Use(x, c)
  \/ \E x \in due : Deliver(x)
  \/ \E x \in live : Refuse(x)
  \/ \E S \in SUBSET due : Fail(S)
  \/ Die \/ Reset \/ Pass

ASpec == AInit /\ [][ANext]_avars

\* A credential is in one place: it stands for one grant, it is not both in a
\* client's hands and on its way, and what is gone is in neither.
OnePlace ==
  /\ \A x, y \in live \cup due : x.cred = y.cred => x = y
  /\ live \cap due = {}
  /\ CredsOf(live \cup due) \cap gone = {}
=============================================================================
