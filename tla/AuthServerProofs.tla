-------------------------- MODULE AuthServerProofs --------------------------
(***************************************************************************)
(* For all constants: any number of clients, tokens, codes, principals and *)
(* request threads, any `pair` commands online, any faults, no clock bound *)
(* that matters.                                                           *)
(***************************************************************************)
EXTENDS AuthServer, TLAPS

USE TTLAssumption, ScopeAssumption, AbsentAssumption

-----------------------------------------------------------------------------
(***************************************************************************)
(* What the operators the actions are built from return.                   *)
(***************************************************************************)

\* The empty documents and the zero PrincipalGrant have their types.
LEMMA ZeroValues ==
  /\ NoClients \in ClientMap /\ NoRefresh \in RefreshMap
  /\ NoPrincipals \in PrincipalMap /\ Anonymous \in Principal
  BY DEF NoClients, ClientMap, NoRefresh, RefreshMap, NoPrincipals, PrincipalMap,
         Anonymous, Principal, Binding

\* authorizeSubmit builds a well-formed grant for an identified principal.
LEMMA GrantForType ==
  ASSUME NEW p \in AuthParams, NEW who \in Principal PROVE GrantFor(p, who) \in Grant
  BY DEF GrantFor, GrantedScope, AuthParams, Grant

\* Mint signs with the cached key, so it needs a booted server.
LEMMA MintType ==
  ASSUME NEW g \in Grant, key \in SigningKeys, now \in Nat PROVE Mint(g) \in Token
  BY DEF Mint, Token

\* What the server serves at a reset it serves for clients.
LEMMA ServedType == ASSUME TypeOK PROVE ServedClients \subseteq Clients
<1>1. \A c \in AuthCodes : codes[c] # Absent => codes[c].grant.client \in Clients
  BY DEF TypeOK, AuthGrant, Grant
<1>2. \A r \in RefreshTokens : refreshBuf[r] # Absent => refreshBuf[r].client \in Clients
  BY DEF TypeOK, RefreshMap, Grant
<1>3. \A t \in Threads :
        /\ pc[t] = "code" \/ pc[t] = "rotate" => local[t] \in AuthParams
        /\ pc[t] = "match" => local[t].params \in AuthParams
  BY DEF TypeOK, Matching
<1>4. \A p \in AuthParams : p.client \in Clients
  BY DEF AuthParams
<1>5. \A t \in Threads : \A g \in Carried(t) : g.client \in Clients
  BY DEF TypeOK, Carried, Label, Approved, Exchanging, Issuing, Token, Grant
<1>6. \A g \in UNION {Carried(t) : t \in Threads} : g.client \in Clients
  BY <1>5
<1>7. QED
  <2>1. {codes[c].grant.client : c \in {d \in AuthCodes : codes[d] # Absent}} \subseteq Clients
    BY <1>1
  <2>2. {refreshBuf[r].client : r \in {q \in RefreshTokens : refreshBuf[q] # Absent}}
          \subseteq Clients
    BY <1>2
  <2>3. {local[t].client : t \in {u \in Threads : pc[u] \in {"code", "rotate"}}} \subseteq Clients
    <3> DEFINE Holding == {u \in Threads : pc[u] \in {"code", "rotate"}}
    <3>1. ASSUME NEW t \in Holding PROVE local[t].client \in Clients
      <4>1. t \in Threads /\ (pc[t] = "code" \/ pc[t] = "rotate")
        OBVIOUS
      <4>2. local[t] \in AuthParams
        BY <1>3, <4>1
      <4>3. QED
        BY <1>4, <4>2
    <3> HIDE DEF Holding
    <3>2. {local[t].client : t \in Holding} \subseteq Clients
      BY <3>1
    <3>3. QED
      BY <3>2 DEF Holding
  <2>4. {local[t].params.client : t \in {u \in Threads : pc[u] = "match"}} \subseteq Clients
    BY <1>3, <1>4
  <2>5. {g.client : g \in UNION {Carried(t) : t \in Threads}} \subseteq Clients
    BY <1>6
  <2>6. QED
    BY <2>1, <2>2, <2>3, <2>4, <2>5 DEF ServedClients

-----------------------------------------------------------------------------
\* Every document, every in-memory map and every value a handler carries
\* between two steps stays well formed.
LEMMA TypeStep == TypeOK /\ PairingProvenance /\ [Next]_vars => TypeOK'
<1> SUFFICES ASSUME TypeOK, PairingProvenance, [Next]_vars PROVE TypeOK'
  OBVIOUS
<1> USE ZeroValues DEF TypeOK, Label, store, locks, world, history, marks
<1>1. ASSUME LoadKey PROVE TypeOK'
  BY <1>1 DEF LoadKey, MayBoot
<1>2. ASSUME NEW k \in SigningKeys, CreateKey(k) PROVE TypeOK'
  BY <1>2 DEF CreateKey, MayBoot
<1>3. ASSUME BootReadCode PROVE TypeOK'
  BY <1>3 DEF BootReadCode
<1>4. ASSUME NEW c \in PairCodes, BootRotate(c) PROVE TypeOK'
  BY <1>4 DEF BootRotate, Rotate
<1>5. ASSUME Crash PROVE TypeOK'
  BY <1>5 DEF Crash, NoCodes, Idle, NoLocals
<1>6. ASSUME NEW t \in Threads, NEW c \in Clients, NEW uris \in SUBSET Redirects,
             Register(t, c, uris)
      PROVE TypeOK'
  BY <1>6 DEF Register, Start, Goto, ClientMap
<1>7. ASSUME NEW t \in Threads, RegisterSave(t) PROVE TypeOK'
  BY <1>7 DEF RegisterSave, Done, Goto
<1>8. ASSUME NEW t \in Threads, NEW p \in AuthParams, Authorize(t, p) PROVE TypeOK'
  BY <1>8 DEF Authorize, Start, Goto, Local
<1>9. ASSUME NEW t \in Threads, ReadCode(t) PROVE TypeOK'
  <2>1. pairingCode # Absent =>
          [params |-> local[t], shared |-> pairingCode] \in Matching
    BY <1>9 DEF ReadCode, Matching
  <2>2. QED
    BY <1>9, <2>1 DEF ReadCode, Goto, Local
<1>10. ASSUME NEW t \in Threads, NEW c \in PairCodes, RotateCode(t, c) PROVE TypeOK'
  <2>1. [params |-> local[t], shared |-> c] \in Matching
    BY <1>10 DEF RotateCode, Matching
  <2>2. QED
    BY <1>10, <2>1 DEF RotateCode, Rotate, Done, Goto, Local
<1>11. ASSUME NEW t \in Threads, NEW who \in Principal, pc[t] = "match",
              owner[local[t].params.entered] \in Principal, Approve(t, who)
       PROVE TypeOK'
  <2> DEFINE p == local[t].params
  <2>1. p \in AuthParams
    BY <1>11 DEF Matching
  <2>2. GrantFor(p, who) \in Grant /\ GrantFor(p, owner[p.entered]) \in Grant
    BY <1>11, <2>1, GrantForType
  <2>3. [grant |-> GrantFor(p, who), redirect |-> p.redirect,
         challenge |-> p.challenge] \in Approved
    BY <2>1, <2>2 DEF Approved, AuthParams
  <2>4. QED
    BY <1>11, <2>2, <2>3 DEF Approve, Goto, Local
<1>12. ASSUME NEW t \in Threads, MatchShared(t) PROVE TypeOK'
  <2>1. owner[local[t].params.entered] = Anonymous
    BY <1>12 DEF MatchShared, PairingProvenance
  <2>2. QED
    BY <1>11, <1>12, <2>1 DEF MatchShared
<1>13. ASSUME NEW t \in Threads, NEW n \in Names, MatchNamed(t, n) PROVE TypeOK'
  <2> DEFINE who == [name |-> n, binding |-> principals[n].binding]
  <2>1. who \in Principal
    BY <1>13 DEF MatchNamed, PrincipalMap, Principal
  <2>2. owner[local[t].params.entered] = who
    BY <1>13 DEF MatchNamed, PairingProvenance
  <2>3. QED
    BY <1>11, <1>13, <2>1, <2>2 DEF MatchNamed
<1>14. ASSUME NEW t \in Threads, MatchNone(t) PROVE TypeOK'
  BY <1>14 DEF MatchNone, Done, Goto
<1>15. ASSUME NEW t \in Threads, NEW c \in AuthCodes, IssueCode(t, c) PROVE TypeOK'
  <2>1. [grant |-> local[t].grant, redirect |-> local[t].redirect,
         challenge |-> local[t].challenge, expiresAt |-> now + CodeTTL] \in AuthGrant
    BY <1>15 DEF IssueCode, Approved, AuthGrant
  <2>2. QED
    BY <1>15, <2>1 DEF IssueCode, Done, Goto
<1>16. ASSUME NEW t \in Threads, NEW c \in AuthCodes, NEW cid \in Clients,
              NEW uri \in Redirects, NEW v \in Verifiers, NEW r \in RefreshTokens,
              RedeemCode(t, c, cid, uri, v, r)
       PROVE TypeOK'
  <2>1. codes[c].grant \in Grant
    BY <1>16 DEF RedeemCode, AuthGrant
  <2>2. [token |-> Mint(codes[c].grant), next |-> r] \in Issuing
    BY <1>16, <2>1, MintType DEF RedeemCode, Start, Issuing
  <2>3. QED
    BY <1>16, <2>2 DEF RedeemCode, Start, Goto, Local
<1>17. ASSUME NEW c \in AuthCodes, NEW cid \in Clients, NEW uri \in Redirects,
              NEW v \in Verifiers, BurnCode(c, cid, uri, v)
       PROVE TypeOK'
  BY <1>17 DEF BurnCode
<1>18. ASSUME NEW t \in Threads, NEW r \in RefreshTokens, NEW r2 \in RefreshTokens,
              NEW cid \in Clients \cup {Absent}, Exchange(t, r, cid, r2)
       PROVE TypeOK'
  <2>1. refresh[r] \in Grant
    BY <1>18 DEF Exchange, RefreshMap
  <2>2. [from |-> r, grant |-> refresh[r], cid |-> cid, next |-> r2] \in Exchanging
    BY <2>1 DEF Exchanging
  <2>3. [refresh EXCEPT ![r] = Absent] \in RefreshMap
    BY DEF RefreshMap
  <2>4. QED
    BY <1>18, <2>2, <2>3 DEF Exchange, Start, Goto, Local
<1>19. ASSUME NEW t \in Threads, ExchangeSave(t) PROVE TypeOK'
  <2> DEFINE x == local[t]
  <2>1. x \in Exchanging
    BY <1>19 DEF ExchangeSave
  <2>2. [token |-> Mint(x.grant), next |-> x.next] \in Issuing
    BY <1>19, <2>1, MintType DEF ExchangeSave, Exchanging, Issuing
  <2>3. x.from \in RefreshTokens
    BY <2>1 DEF Exchanging
  <2>4. CASE Goto(t, "issue", [token |-> Mint(x.grant), next |-> x.next])
    BY <1>19, <2>2, <2>3, <2>4 DEF ExchangeSave, Goto, Local
  <2>5. CASE Done(t)
    BY <1>19, <2>3, <2>5 DEF ExchangeSave, Done, Goto
  <2>6. QED
    BY <1>19, <2>4, <2>5 DEF ExchangeSave
<1>20. ASSUME NEW t \in Threads, Issue(t) PROVE TypeOK'
  <2>1. local[t] \in Issuing /\ local[t].token.grant \in Grant
    BY <1>20 DEF Issue, Issuing, Token
  <2>2. [refresh EXCEPT ![local[t].next] = local[t].token.grant] \in RefreshMap
    BY <2>1 DEF RefreshMap
  <2>3. QED
    BY <1>20, <2>1, <2>2 DEF Issue, Goto, Local
<1>21. ASSUME NEW t \in Threads, NEW d \in BOOLEAN, IssueSave(t, d) PROVE TypeOK'
  <2>1. local[t].token \in Token /\ local[t].next \in RefreshTokens
    BY <1>21 DEF IssueSave, Issuing
  <2>2. QED
    BY <1>21, <2>1 DEF IssueSave, Done, Goto
<1>22. ASSUME NEW t \in Threads, StoreError(t) PROVE TypeOK'
  BY <1>22 DEF StoreError, Release, Done, Goto
<1>23. ASSUME NEW c \in PairCodes, PairRotate(c) PROVE TypeOK'
  BY <1>23 DEF PairRotate, Rotate
<1>24. ASSUME NEW n \in Names, NEW b \in Binding, NEW c \in PairCodes, PairAdd(n, b, c)
       PROVE TypeOK'
  <2>1. [name |-> n, binding |-> b] \in Principal
    BY DEF Principal
  <2>2. [principals EXCEPT ![n] = [code |-> c, binding |-> b]] \in PrincipalMap
    BY DEF PrincipalMap
  <2>3. QED
    BY <1>24, <2>1, <2>2 DEF PairAdd
<1>25. ASSUME NEW n \in Names, PairRemove(n) PROVE TypeOK'
  <2>1. [principals EXCEPT ![n] = Absent] \in PrincipalMap
    BY DEF PrincipalMap
  <2>2. QED
    BY <1>25, <2>1 DEF PairRemove
<1>26. ASSUME SweepLoad PROVE TypeOK'
  <2> DEFINE b == [r \in RefreshTokens |->
                     IF r \in OwnedBy(sweep.name, refresh) THEN Absent ELSE refresh[r]]
  <2>1. b \in RefreshMap
    BY DEF RefreshMap
  <2>2. sweep.name \in Names
    BY <1>26 DEF SweepLoad
  <2>3. QED
    BY <1>26, <2>1, <2>2 DEF SweepLoad, RemovalEnds
<1>27. ASSUME SweepSave PROVE TypeOK'
  <2>1. sweep.name \in Names /\ sweep.buf \in RefreshMap
    BY <1>27 DEF SweepSave
  <2>2. QED
    BY <1>27, <2>1 DEF SweepSave, RemovalEnds
<1>28. ASSUME SweepError PROVE TypeOK'
  BY <1>28 DEF SweepError
<1>29. ASSUME PairReset PROVE TypeOK'
  BY <1>29, ServedType DEF PairReset, ServedAtReset
<1>30. ASSUME Tick PROVE TypeOK'
  BY <1>30 DEF Tick
<1>31. CASE UNCHANGED vars
  BY <1>31 DEF vars
<1> HIDE ZeroValues DEF TypeOK
<1>32. QED
  BY <1>1, <1>2, <1>3, <1>4, <1>5, <1>6, <1>7, <1>8, <1>9, <1>10, <1>14, <1>15,
     <1>16, <1>17, <1>18, <1>19, <1>20, <1>21, <1>22, <1>23, <1>24, <1>25, <1>26, <1>27,
     <1>28, <1>29, <1>30, <1>31, <1>12, <1>13
     DEF Next, Boot, Request, Continue, Operator

-----------------------------------------------------------------------------
\* The codes on file stay those of their owners: a generated code is fresh, so
\* it takes nobody else's, and a request keeps the shared code it has read.
LEMMA PairingStep == TypeOK /\ PairingProvenance /\ [Next]_vars => PairingProvenance'
<1> SUFFICES ASSUME TypeOK, PairingProvenance, [Next]_vars PROVE PairingProvenance'
  OBVIOUS
<1>0. /\ pairingCode \in PairCodes \cup {Absent} /\ principals \in PrincipalMap
      /\ owner \in [PairCodes -> Principal \cup {Absent}]
      /\ pc \in [Threads -> Label] /\ local \in [Threads -> Local \cup {Absent}]
      /\ \A t \in Threads : pc[t] = "match" => local[t].shared \in PairCodes
      /\ Anonymous # Absent
      /\ \A n \in Names, b \in Binding : [name |-> n, binding |-> b] # Absent
      /\ \A n \in Names : principals[n] # Absent =>
           principals[n].code \in PairCodes /\ principals[n].binding \in Binding
  <2>1. /\ pairingCode \in PairCodes \cup {Absent} /\ principals \in PrincipalMap
        /\ owner \in [PairCodes -> Principal \cup {Absent}]
        /\ pc \in [Threads -> Label] /\ local \in [Threads -> Local \cup {Absent}]
    BY DEF TypeOK
  <2>2. \A t \in Threads : pc[t] = "match" => local[t].shared \in PairCodes
    BY DEF TypeOK, Matching
  <2>3. Anonymous # Absent
    BY ZeroValues, AbsentNoPrincipal
  <2>4. \A n \in Names, b \in Binding : [name |-> n, binding |-> b] # Absent
    <3>1. \A n \in Names, b \in Binding : [name |-> n, binding |-> b] \in Principal
      BY DEF Principal
    <3>2. QED
      BY <3>1, AbsentNoPrincipal
  <2>5. \A n \in Names : principals[n] # Absent =>
           principals[n].code \in PairCodes /\ principals[n].binding \in Binding
    BY <2>1 DEF PrincipalMap
  <2>6. QED
    BY <2>1, <2>2, <2>3, <2>4, <2>5
<1> USE <1>0 DEF PairingProvenance, Label, PrincipalMap, store, locks, world, history
<1>1. ASSUME LoadKey PROVE PairingProvenance'
  BY <1>1 DEF LoadKey, MayBoot
<1>2. ASSUME NEW k \in SigningKeys, CreateKey(k) PROVE PairingProvenance'
  BY <1>2 DEF CreateKey, MayBoot
<1>3. ASSUME BootReadCode PROVE PairingProvenance'
  BY <1>3 DEF BootReadCode
<1>4. ASSUME NEW c \in PairCodes, BootRotate(c) PROVE PairingProvenance'
  BY <1>4 DEF BootRotate, Rotate
<1>5. ASSUME Crash PROVE PairingProvenance'
  BY <1>5 DEF Crash, Idle
<1>6. ASSUME NEW t \in Threads, NEW c \in Clients, NEW uris \in SUBSET Redirects,
      Register(t, c, uris) PROVE PairingProvenance'
  BY <1>6 DEF Register, Goto
<1>7. ASSUME NEW t \in Threads, RegisterSave(t) PROVE PairingProvenance'
  BY <1>7 DEF RegisterSave, Done, Goto
<1>8. ASSUME NEW t \in Threads, NEW p \in AuthParams, Authorize(t, p) PROVE
      PairingProvenance'
  BY <1>8 DEF Authorize, Goto
<1>9. ASSUME NEW t \in Threads, ReadCode(t) PROVE PairingProvenance'
  BY <1>9 DEF ReadCode, Goto
<1>10. ASSUME NEW t \in Threads, NEW c \in PairCodes, RotateCode(t, c) PROVE
      PairingProvenance'
  BY <1>10 DEF RotateCode, Rotate, Done, Goto
<1>11. ASSUME NEW t \in Threads, MatchShared(t) PROVE PairingProvenance'
  BY <1>11 DEF MatchShared, Approve, Goto
<1>12. ASSUME NEW t \in Threads, NEW n \in Names, MatchNamed(t, n) PROVE
      PairingProvenance'
  BY <1>12 DEF MatchNamed, Approve, Goto
<1>13. ASSUME NEW t \in Threads, MatchNone(t) PROVE PairingProvenance'
  BY <1>13 DEF MatchNone, Done, Goto
<1>14. ASSUME NEW t \in Threads, NEW c \in AuthCodes, IssueCode(t, c) PROVE
      PairingProvenance'
  BY <1>14 DEF IssueCode, Done, Goto
<1>15. ASSUME NEW t \in Threads, NEW c \in AuthCodes, NEW cid \in Clients, NEW uri \in
      Redirects, NEW v \in Verifiers, NEW r \in RefreshTokens, RedeemCode(t, c, cid,
      uri, v, r) PROVE PairingProvenance'
  BY <1>15 DEF RedeemCode, Goto
<1>16. ASSUME NEW c \in AuthCodes, NEW cid \in Clients, NEW uri \in Redirects, NEW v
      \in Verifiers, BurnCode(c, cid, uri, v) PROVE PairingProvenance'
  BY <1>16 DEF BurnCode
<1>17. ASSUME NEW t \in Threads, NEW r \in RefreshTokens, NEW r2 \in RefreshTokens,
      NEW cid \in Clients \cup {Absent}, Exchange(t, r, cid, r2) PROVE
      PairingProvenance'
  BY <1>17 DEF Exchange, Goto
<1>18. ASSUME NEW t \in Threads, ExchangeSave(t) PROVE PairingProvenance'
  BY <1>18 DEF ExchangeSave, Done, Goto
<1>19. ASSUME NEW t \in Threads, Issue(t) PROVE PairingProvenance'
  BY <1>19 DEF Issue, Goto
<1>20. ASSUME NEW t \in Threads, NEW d \in BOOLEAN, IssueSave(t, d) PROVE
      PairingProvenance'
  BY <1>20 DEF IssueSave, Done, Goto
<1>21. ASSUME NEW t \in Threads, StoreError(t) PROVE PairingProvenance'
  BY <1>21 DEF StoreError, Done, Goto
<1>22. ASSUME NEW c \in PairCodes, PairRotate(c) PROVE PairingProvenance'
  BY <1>22 DEF PairRotate, Rotate
<1>23. ASSUME NEW n \in Names, NEW b \in Binding, NEW c \in PairCodes, PairAdd(n, b,
      c) PROVE PairingProvenance'
  BY <1>23 DEF PairAdd
<1>24. ASSUME NEW n \in Names, PairRemove(n) PROVE PairingProvenance'
  BY <1>24 DEF PairRemove
<1>25. ASSUME SweepLoad PROVE PairingProvenance'
  BY <1>25 DEF SweepLoad
<1>26. ASSUME SweepSave PROVE PairingProvenance'
  BY <1>26 DEF SweepSave
<1>27. ASSUME SweepError PROVE PairingProvenance'
  BY <1>27 DEF SweepError
<1>28. ASSUME PairReset PROVE PairingProvenance'
  BY <1>28 DEF PairReset, NoPrincipals
<1>29. ASSUME Tick PROVE PairingProvenance'
  BY <1>29 DEF Tick
<1>30. CASE UNCHANGED vars
  BY <1>30 DEF vars
<1> HIDE <1>0 DEF PairingProvenance
<1>31. QED
  BY <1>1, <1>2, <1>3, <1>4, <1>5, <1>6, <1>7, <1>8, <1>9, <1>10, <1>11, <1>12,
     <1>13, <1>14, <1>15, <1>16, <1>17, <1>18, <1>19, <1>20, <1>21, <1>22, <1>23,
     <1>24, <1>25, <1>26, <1>27, <1>28, <1>29, <1>30
     DEF Next, Boot, Request, Continue, Operator

-----------------------------------------------------------------------------
\* A code, a refresh token, a token or a copy of one in flight only ever gets
\* a grant that one of them had before, or that was approved in this step.
LEMMA GrantStep ==
  TypeOK /\ PairingProvenance /\ GrantProvenance /\ [Next]_vars => GrantProvenance'
<1> SUFFICES ASSUME TypeOK, PairingProvenance, GrantProvenance, [Next]_vars
             PROVE GrantProvenance'
  OBVIOUS
<1> USE DEF GrantProvenance, ApprovedOnly, store, locks, world, history
<1> USE DEF TypeOK, Label, RefreshMap
<1>1. ASSUME LoadKey PROVE GrantProvenance'
  BY <1>1 DEF LoadKey, MayBoot
<1>2. ASSUME NEW k \in SigningKeys, CreateKey(k) PROVE GrantProvenance'
  BY <1>2 DEF CreateKey, MayBoot
<1>3. ASSUME BootReadCode PROVE GrantProvenance'
  BY <1>3 DEF BootReadCode
<1>4. ASSUME NEW c \in PairCodes, BootRotate(c) PROVE GrantProvenance'
  BY <1>4 DEF BootRotate, Rotate
<1>5. ASSUME Crash PROVE GrantProvenance'
  BY <1>5 DEF Crash, Idle, NoCodes, NoRefresh
<1>6. ASSUME NEW t \in Threads, NEW c \in Clients, NEW uris \in SUBSET Redirects,
      Register(t, c, uris) PROVE GrantProvenance'
  BY <1>6 DEF Register, Goto, Start
<1>7. ASSUME NEW t \in Threads, RegisterSave(t) PROVE GrantProvenance'
  BY <1>7 DEF RegisterSave, Done, Goto
<1>8. ASSUME NEW t \in Threads, NEW p \in AuthParams, Authorize(t, p) PROVE
      GrantProvenance'
  BY <1>8 DEF Authorize, Goto, Start
<1>9. ASSUME NEW t \in Threads, ReadCode(t) PROVE GrantProvenance'
  BY <1>9 DEF ReadCode, Goto
<1>10. ASSUME NEW t \in Threads, NEW c \in PairCodes, RotateCode(t, c) PROVE
      GrantProvenance'
  BY <1>10 DEF RotateCode, Rotate, Done, Goto
<1>11. ASSUME NEW t \in Threads, MatchShared(t) PROVE GrantProvenance'
  <2>1. owner[local[t].params.entered] = Anonymous
    BY <1>11 DEF MatchShared, PairingProvenance
  <2>2. QED
    BY <1>11, <2>1 DEF MatchShared, Approve, Goto
<1>12. ASSUME NEW t \in Threads, NEW n \in Names, MatchNamed(t, n) PROVE
      GrantProvenance'
  <2>1. owner[local[t].params.entered] = [name |-> n, binding |-> principals[n].binding]
    BY <1>12 DEF MatchNamed, PairingProvenance
  <2>2. QED
    BY <1>12, <2>1 DEF MatchNamed, Approve, Goto
<1>13. ASSUME NEW t \in Threads, MatchNone(t) PROVE GrantProvenance'
  BY <1>13 DEF MatchNone, Done, Goto
<1>14. ASSUME NEW t \in Threads, NEW c \in AuthCodes, IssueCode(t, c) PROVE
      GrantProvenance'
  BY <1>14 DEF IssueCode, Done, Goto
<1>15. ASSUME NEW t \in Threads, NEW c \in AuthCodes, NEW cid \in Clients, NEW uri \in
      Redirects, NEW v \in Verifiers, NEW r \in RefreshTokens, RedeemCode(t, c, cid,
      uri, v, r) PROVE GrantProvenance'
  BY <1>15 DEF RedeemCode, Goto, Start, Mint
<1>16. ASSUME NEW c \in AuthCodes, NEW cid \in Clients, NEW uri \in Redirects, NEW v
      \in Verifiers, BurnCode(c, cid, uri, v) PROVE GrantProvenance'
  BY <1>16 DEF BurnCode
<1>17. ASSUME NEW t \in Threads, NEW r \in RefreshTokens, NEW r2 \in RefreshTokens,
      NEW cid \in Clients \cup {Absent}, Exchange(t, r, cid, r2) PROVE
      GrantProvenance'
  BY <1>17 DEF Exchange, Goto, Start
<1>18. ASSUME NEW t \in Threads, ExchangeSave(t) PROVE GrantProvenance'
  BY <1>18 DEF ExchangeSave, Done, Goto, Mint, NoRefresh
<1>19. ASSUME NEW t \in Threads, Issue(t) PROVE GrantProvenance'
  BY <1>19 DEF Issue, Goto
<1>20. ASSUME NEW t \in Threads, NEW d \in BOOLEAN, IssueSave(t, d) PROVE
      GrantProvenance'
  BY <1>20 DEF IssueSave, Done, Goto, NoRefresh
<1>21. ASSUME NEW t \in Threads, StoreError(t) PROVE GrantProvenance'
  BY <1>21 DEF StoreError, Done, Goto, Release, NoRefresh
<1>22. ASSUME NEW c \in PairCodes, PairRotate(c) PROVE GrantProvenance'
  BY <1>22 DEF PairRotate, Rotate
<1>23. ASSUME NEW n \in Names, NEW b \in Binding, NEW c \in PairCodes, PairAdd(n, b,
      c) PROVE GrantProvenance'
  BY <1>23 DEF PairAdd
<1>24. ASSUME NEW n \in Names, PairRemove(n) PROVE GrantProvenance'
  BY <1>24 DEF PairRemove
<1>25. ASSUME SweepLoad PROVE GrantProvenance'
  BY <1>25 DEF SweepLoad
<1>26. ASSUME SweepSave PROVE GrantProvenance'
  BY <1>26 DEF SweepSave
<1>27. ASSUME SweepError PROVE GrantProvenance'
  BY <1>27 DEF SweepError
<1>28. ASSUME PairReset PROVE GrantProvenance'
  BY <1>28 DEF PairReset, NoRefresh
<1>29. ASSUME Tick PROVE GrantProvenance'
  BY <1>29 DEF Tick
<1>30. CASE UNCHANGED vars
  BY <1>30 DEF vars
<1> HIDE DEF GrantProvenance, TypeOK
<1>31. QED
  BY <1>1, <1>2, <1>3, <1>4, <1>5, <1>6, <1>7, <1>8, <1>9, <1>10, <1>11, <1>12,
     <1>13, <1>14, <1>15, <1>16, <1>17, <1>18, <1>19, <1>20, <1>21, <1>22, <1>23,
     <1>24, <1>25, <1>26, <1>27, <1>28, <1>29, <1>30
     DEF Next, Boot, Request, Continue, Operator

-----------------------------------------------------------------------------
\* Initially nothing is stored, carried or held.
LEMMA InitInv == Init => TypeOK /\ Provenance
<1>1. Init => TypeOK
  <2> SUFFICES ASSUME Init PROVE TypeOK
    OBVIOUS
  <2>1. astray \subseteq Names /\ estranged \subseteq Clients /\ outlived \in BOOLEAN
    BY DEF Init
  <2>2. QED
    BY ZeroValues, <2>1 DEF Init, TypeOK, Label, NoCodes, Idle, NoLocals
<1>2. Init => Provenance
  BY DEF Init, Provenance, PairingProvenance, GrantProvenance, ApprovedOnly,
         NoCodes, NoRefresh, NoPrincipals, Idle
<1>3. QED
  BY <1>1, <1>2

\* Types hold in every reachable state.
THEOREM TypeCorrect == Spec => []TypeOK
<1>1. Init => TypeOK /\ PairingProvenance
  BY InitInv DEF Provenance
<1>2. TypeOK /\ PairingProvenance /\ [Next]_vars => (TypeOK /\ PairingProvenance)'
  BY TypeStep, PairingStep
<1>3. QED
  BY <1>1, <1>2, PTL DEF Spec

\* The inductive invariant: identities and grants keep their provenance, in the
\* store, in memory and in flight.
THEOREM ProvenanceCorrect == Spec => []Provenance
<1>1. Init => TypeOK /\ PairingProvenance /\ GrantProvenance
  BY InitInv DEF Provenance
<1>2. TypeOK /\ PairingProvenance /\ GrantProvenance /\ [Next]_vars
        => (TypeOK /\ PairingProvenance /\ GrantProvenance)'
  BY TypeStep, PairingStep, GrantStep
<1>3. QED
  BY <1>1, <1>2, PTL DEF Spec, Provenance

\* No privilege without approval, whatever `pair` commands run beside the
\* server and whatever fails: every code, refresh token and access token
\* carries a client, scope and principal approved together by the owner of a
\* pairing code.
THEOREM ApprovedOnlyCorrect == Spec => []ApprovedOnly
<1>1. Provenance => ApprovedOnly
  BY DEF Provenance, GrantProvenance
<1>2. QED
  BY <1>1, ProvenanceCorrect, PTL
=============================================================================
