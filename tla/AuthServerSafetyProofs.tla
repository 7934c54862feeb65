----------------------- MODULE AuthServerSafetyProofs -----------------------
(***************************************************************************)
(* Single use of refresh tokens, revocation, registration and reset, for   *)
(* all constants: any number of threads and tokens, any faults.  Removal,  *)
(* reset and registration are proved beside a running server.  Single use  *)
(* and the refinement name the `pair` command they need offline, because   *)
(* beside a running server its save undoes the server's (README, section   *)
(* 6); the other commands run beside the server.                           *)
(***************************************************************************)
EXTENDS AuthServerProofs, FiniteSetTheorems

USE TTLAssumption, ScopeAssumption, AbsentAssumption

\* The command is run only while the server is stopped.
RemoveOffline == "remove" \notin OnlineOps
ResetOffline == "reset" \notin OnlineOps

-----------------------------------------------------------------------------
(***************************************************************************)
(* Mutexes, a stopped server, an offline sweep                             *)
(***************************************************************************)

\* A mutex is held by exactly the handler that is between the load and the
\* save it protects, and only a holder has a map in memory.
MutexHeld ==
  /\ \A t \in Threads : pc[t] \in {"exchange", "put"} <=> refreshMu = t
  /\ \A t \in Threads : pc[t] = "register" <=> clientsMu = t
  /\ refreshMu = Absent => refreshBuf = NoRefresh

\* A server that does not serve has no pending codes, a stopped one no key.
ServerDown ==
  /\ phase # "up" => codes = NoCodes
  /\ phase = "down" => key = Absent

\* An offline `pair remove` runs while the server is down, and saves the refresh
\* tokens that are in the store, less those of the principal it removes.
SweepOffline ==
  /\ sweep # Absent => phase = "down"
  /\ sweep # Absent /\ sweep.step = "save" =>
       \A r \in RefreshTokens :
         /\ sweep.buf[r] \in {Absent, refresh[r]}
         /\ sweep.buf[r] # Absent => sweep.buf[r].principal.name # sweep.name

\* Every path of a handler, the error paths included, unlocks what it locked.
LEMMA MutexStep == TypeOK /\ MutexHeld /\ [Next]_vars => MutexHeld'
<1> SUFFICES ASSUME TypeOK, MutexHeld, [Next]_vars PROVE MutexHeld'
  OBVIOUS
<1>0. /\ pc \in [Threads -> Label] /\ Absent \notin Threads
      /\ \A t \in Threads : pc[t] # "idle" => phase = "up"
  BY DEF TypeOK
<1> USE <1>0 DEF MutexHeld, Label, store, locks, world, history
<1>1. ASSUME LoadKey PROVE MutexHeld'
  BY <1>1 DEF LoadKey, MayBoot
<1>2. ASSUME NEW k \in SigningKeys, CreateKey(k) PROVE MutexHeld'
  BY <1>2 DEF CreateKey, MayBoot
<1>3. ASSUME BootReadCode PROVE MutexHeld'
  BY <1>3 DEF BootReadCode
<1>4. ASSUME NEW c \in PairCodes, BootRotate(c) PROVE MutexHeld'
  BY <1>4 DEF BootRotate, Rotate
<1>5. ASSUME Crash PROVE MutexHeld'
  BY <1>5 DEF Crash, Idle, NoLocals, NoCodes, NoRefresh
<1>6. ASSUME NEW t \in Threads, NEW c \in Clients, NEW uris \in SUBSET Redirects,
             Register(t, c, uris) PROVE MutexHeld'
  BY <1>6 DEF Register, Start, Goto
<1>7. ASSUME NEW t \in Threads, RegisterSave(t) PROVE MutexHeld'
  BY <1>7 DEF RegisterSave, Done, Goto
<1>8. ASSUME NEW t \in Threads, NEW p \in AuthParams, Authorize(t, p) PROVE MutexHeld'
  BY <1>8 DEF Authorize, Start, Goto
<1>9. ASSUME NEW t \in Threads, ReadCode(t) PROVE MutexHeld'
  BY <1>9 DEF ReadCode, Goto
<1>10. ASSUME NEW t \in Threads, NEW c \in PairCodes, RotateCode(t, c)
       PROVE MutexHeld'
  BY <1>10 DEF RotateCode, Rotate, Done, Goto
<1>11. ASSUME NEW t \in Threads, MatchShared(t) PROVE MutexHeld'
  BY <1>11 DEF MatchShared, Approve, Goto
<1>12. ASSUME NEW t \in Threads, NEW n \in Names, MatchNamed(t, n) PROVE MutexHeld'
  BY <1>12 DEF MatchNamed, Approve, Goto
<1>13. ASSUME NEW t \in Threads, MatchNone(t) PROVE MutexHeld'
  BY <1>13 DEF MatchNone, Done, Goto
<1>14. ASSUME NEW t \in Threads, NEW c \in AuthCodes, IssueCode(t, c) PROVE MutexHeld'
  BY <1>14 DEF IssueCode, Done, Goto
<1>15. ASSUME NEW t \in Threads, NEW c \in AuthCodes, NEW cid \in Clients,
              NEW uri \in Redirects, NEW v \in Verifiers, NEW r \in RefreshTokens,
              RedeemCode(t, c, cid, uri, v, r) PROVE MutexHeld'
  BY <1>15 DEF RedeemCode, Start, Goto
<1>16. ASSUME NEW c \in AuthCodes, NEW cid \in Clients, NEW uri \in Redirects,
              NEW v \in Verifiers, BurnCode(c, cid, uri, v) PROVE MutexHeld'
  BY <1>16 DEF BurnCode
<1>17. ASSUME NEW t \in Threads, NEW r \in RefreshTokens, NEW r2 \in RefreshTokens,
              NEW cid \in Clients \cup {Absent}, Exchange(t, r, cid, r2)
       PROVE MutexHeld'
  BY <1>17 DEF Exchange, Start, Goto
<1>18. ASSUME NEW t \in Threads, ExchangeSave(t) PROVE MutexHeld'
  BY <1>18 DEF ExchangeSave, Done, Goto
<1>19. ASSUME NEW t \in Threads, Issue(t) PROVE MutexHeld'
  BY <1>19 DEF Issue, Goto
<1>20. ASSUME NEW t \in Threads, NEW d \in BOOLEAN, IssueSave(t, d) PROVE MutexHeld'
  BY <1>20 DEF IssueSave, Done, Goto
<1>21. ASSUME NEW t \in Threads, StoreError(t) PROVE MutexHeld'
  BY <1>21 DEF StoreError, Release, Done, Goto
<1>22. ASSUME NEW c \in PairCodes, PairRotate(c) PROVE MutexHeld'
  BY <1>22 DEF PairRotate, Rotate
<1>23. ASSUME NEW n \in Names, NEW b \in Binding, NEW c \in PairCodes,
              PairAdd(n, b, c) PROVE MutexHeld'
  BY <1>23 DEF PairAdd
<1>24. ASSUME NEW n \in Names, PairRemove(n) PROVE MutexHeld'
  BY <1>24 DEF PairRemove, MayOperate
<1>25. ASSUME SweepLoad PROVE MutexHeld'
  BY <1>25 DEF SweepLoad, OwnedBy
<1>26. ASSUME SweepSave PROVE MutexHeld'
  BY <1>26 DEF SweepSave
<1>27. ASSUME SweepError PROVE MutexHeld'
  BY <1>27 DEF SweepError
<1>28. ASSUME PairReset PROVE MutexHeld'
  BY <1>28 DEF PairReset, MayOperate
<1>29. ASSUME Tick PROVE MutexHeld'
  BY <1>29 DEF Tick
<1>30. CASE UNCHANGED vars
  BY <1>30 DEF vars
<1> HIDE <1>0 DEF MutexHeld
<1> QED
  BY <1>1, <1>2, <1>3, <1>4, <1>5, <1>6, <1>7, <1>8, <1>9, <1>10, <1>11, <1>12, <1>13,
     <1>14, <1>15, <1>16, <1>17, <1>18, <1>19, <1>20, <1>21, <1>22, <1>23, <1>24,
     <1>25, <1>26, <1>27, <1>28, <1>29, <1>30
     DEF Next, Boot, Request, Continue, Operator

\* Stopping the process clears what it kept in memory, and codes are issued only
\* by a server that is up.
LEMMA ServerDownStep == TypeOK /\ ServerDown /\ [Next]_vars => ServerDown'
<1> SUFFICES ASSUME TypeOK, ServerDown, [Next]_vars PROVE ServerDown'
  OBVIOUS
<1>0. /\ pc \in [Threads -> Label] /\ phase # "down" => key \in SigningKeys
      /\ \A t \in Threads : pc[t] # "idle" => phase = "up"
  BY DEF TypeOK
<1> USE <1>0 DEF ServerDown, Label, store, locks, world, history
<1>1. ASSUME LoadKey PROVE ServerDown'
  BY <1>1 DEF LoadKey, MayBoot
<1>2. ASSUME NEW k \in SigningKeys, CreateKey(k) PROVE ServerDown'
  BY <1>2 DEF CreateKey, MayBoot
<1>3. ASSUME BootReadCode PROVE ServerDown'
  BY <1>3 DEF BootReadCode
<1>4. ASSUME NEW c \in PairCodes, BootRotate(c) PROVE ServerDown'
  BY <1>4 DEF BootRotate, Rotate
<1>5. ASSUME Crash PROVE ServerDown'
  BY <1>5 DEF Crash, Idle, NoLocals, NoCodes, NoRefresh
<1>6. ASSUME NEW t \in Threads, NEW c \in Clients, NEW uris \in SUBSET Redirects,
             Register(t, c, uris) PROVE ServerDown'
  BY <1>6 DEF Register, Start, Goto
<1>7. ASSUME NEW t \in Threads, RegisterSave(t) PROVE ServerDown'
  BY <1>7 DEF RegisterSave, Done, Goto
<1>8. ASSUME NEW t \in Threads, NEW p \in AuthParams, Authorize(t, p)
      PROVE ServerDown'
  BY <1>8 DEF Authorize, Start, Goto
<1>9. ASSUME NEW t \in Threads, ReadCode(t) PROVE ServerDown'
  BY <1>9 DEF ReadCode, Goto
<1>10. ASSUME NEW t \in Threads, NEW c \in PairCodes, RotateCode(t, c)
       PROVE ServerDown'
  BY <1>10 DEF RotateCode, Rotate, Done, Goto
<1>11. ASSUME NEW t \in Threads, MatchShared(t) PROVE ServerDown'
  BY <1>11 DEF MatchShared, Approve, Goto
<1>12. ASSUME NEW t \in Threads, NEW n \in Names, MatchNamed(t, n) PROVE ServerDown'
  BY <1>12 DEF MatchNamed, Approve, Goto
<1>13. ASSUME NEW t \in Threads, MatchNone(t) PROVE ServerDown'
  BY <1>13 DEF MatchNone, Done, Goto
<1>14. ASSUME NEW t \in Threads, NEW c \in AuthCodes, IssueCode(t, c)
       PROVE ServerDown'
  BY <1>14 DEF IssueCode, Done, Goto
<1>15. ASSUME NEW t \in Threads, NEW c \in AuthCodes, NEW cid \in Clients,
              NEW uri \in Redirects, NEW v \in Verifiers, NEW r \in RefreshTokens,
              RedeemCode(t, c, cid, uri, v, r) PROVE ServerDown'
  BY <1>15 DEF RedeemCode, Start, Goto
<1>16. ASSUME NEW c \in AuthCodes, NEW cid \in Clients, NEW uri \in Redirects,
              NEW v \in Verifiers, BurnCode(c, cid, uri, v) PROVE ServerDown'
  BY <1>16 DEF BurnCode
<1>17. ASSUME NEW t \in Threads, NEW r \in RefreshTokens, NEW r2 \in RefreshTokens,
              NEW cid \in Clients \cup {Absent}, Exchange(t, r, cid, r2)
       PROVE ServerDown'
  BY <1>17 DEF Exchange, Start, Goto
<1>18. ASSUME NEW t \in Threads, ExchangeSave(t) PROVE ServerDown'
  BY <1>18 DEF ExchangeSave, Done, Goto
<1>19. ASSUME NEW t \in Threads, Issue(t) PROVE ServerDown'
  BY <1>19 DEF Issue, Goto
<1>20. ASSUME NEW t \in Threads, NEW d \in BOOLEAN, IssueSave(t, d) PROVE ServerDown'
  BY <1>20 DEF IssueSave, Done, Goto
<1>21. ASSUME NEW t \in Threads, StoreError(t) PROVE ServerDown'
  BY <1>21 DEF StoreError, Release, Done, Goto
<1>22. ASSUME NEW c \in PairCodes, PairRotate(c) PROVE ServerDown'
  BY <1>22 DEF PairRotate, Rotate
<1>23. ASSUME NEW n \in Names, NEW b \in Binding, NEW c \in PairCodes,
              PairAdd(n, b, c) PROVE ServerDown'
  BY <1>23 DEF PairAdd
<1>24. ASSUME NEW n \in Names, PairRemove(n) PROVE ServerDown'
  BY <1>24 DEF PairRemove, MayOperate
<1>25. ASSUME SweepLoad PROVE ServerDown'
  BY <1>25 DEF SweepLoad, OwnedBy
<1>26. ASSUME SweepSave PROVE ServerDown'
  BY <1>26 DEF SweepSave
<1>27. ASSUME SweepError PROVE ServerDown'
  BY <1>27 DEF SweepError
<1>28. ASSUME PairReset PROVE ServerDown'
  BY <1>28 DEF PairReset, MayOperate
<1>29. ASSUME Tick PROVE ServerDown'
  BY <1>29 DEF Tick
<1>30. CASE UNCHANGED vars
  BY <1>30 DEF vars
<1> HIDE <1>0 DEF ServerDown
<1> QED
  BY <1>1, <1>2, <1>3, <1>4, <1>5, <1>6, <1>7, <1>8, <1>9, <1>10, <1>11, <1>12, <1>13,
     <1>14, <1>15, <1>16, <1>17, <1>18, <1>19, <1>20, <1>21, <1>22, <1>23, <1>24,
     <1>25, <1>26, <1>27, <1>28, <1>29, <1>30
     DEF Next, Boot, Request, Continue, Operator

\* Between the two halves of an offline `pair remove` nothing else writes the
\* refresh tokens.
LEMMA SweepStep ==
  ASSUME RemoveOffline
  PROVE  TypeOK /\ SweepOffline /\ [Next]_vars => SweepOffline'
<1> SUFFICES ASSUME TypeOK, SweepOffline, [Next]_vars PROVE SweepOffline'
  OBVIOUS
<1>0. /\ pc \in [Threads -> Label] /\ refresh \in RefreshMap
      /\ \A t \in Threads : pc[t] # "idle" => phase = "up"
  BY DEF TypeOK
<1> USE <1>0 DEF RemoveOffline, SweepOffline, Label, RefreshMap,
                store, locks, world, history
<1>1. ASSUME LoadKey PROVE SweepOffline'
  BY <1>1 DEF LoadKey, MayBoot
<1>2. ASSUME NEW k \in SigningKeys, CreateKey(k) PROVE SweepOffline'
  BY <1>2 DEF CreateKey, MayBoot
<1>3. ASSUME BootReadCode PROVE SweepOffline'
  BY <1>3 DEF BootReadCode
<1>4. ASSUME NEW c \in PairCodes, BootRotate(c) PROVE SweepOffline'
  BY <1>4 DEF BootRotate, Rotate
<1>5. ASSUME Crash PROVE SweepOffline'
  BY <1>5 DEF Crash, Idle, NoLocals, NoCodes, NoRefresh
<1>6. ASSUME NEW t \in Threads, NEW c \in Clients, NEW uris \in SUBSET Redirects,
             Register(t, c, uris) PROVE SweepOffline'
  BY <1>6 DEF Register, Start, Goto
<1>7. ASSUME NEW t \in Threads, RegisterSave(t) PROVE SweepOffline'
  BY <1>7 DEF RegisterSave, Done, Goto
<1>8. ASSUME NEW t \in Threads, NEW p \in AuthParams, Authorize(t, p)
      PROVE SweepOffline'
  BY <1>8 DEF Authorize, Start, Goto
<1>9. ASSUME NEW t \in Threads, ReadCode(t) PROVE SweepOffline'
  BY <1>9 DEF ReadCode, Goto
<1>10. ASSUME NEW t \in Threads, NEW c \in PairCodes, RotateCode(t, c)
       PROVE SweepOffline'
  BY <1>10 DEF RotateCode, Rotate, Done, Goto
<1>11. ASSUME NEW t \in Threads, MatchShared(t) PROVE SweepOffline'
  BY <1>11 DEF MatchShared, Approve, Goto
<1>12. ASSUME NEW t \in Threads, NEW n \in Names, MatchNamed(t, n) PROVE SweepOffline'
  BY <1>12 DEF MatchNamed, Approve, Goto
<1>13. ASSUME NEW t \in Threads, MatchNone(t) PROVE SweepOffline'
  BY <1>13 DEF MatchNone, Done, Goto
<1>14. ASSUME NEW t \in Threads, NEW c \in AuthCodes, IssueCode(t, c)
       PROVE SweepOffline'
  BY <1>14 DEF IssueCode, Done, Goto
<1>15. ASSUME NEW t \in Threads, NEW c \in AuthCodes, NEW cid \in Clients,
              NEW uri \in Redirects, NEW v \in Verifiers, NEW r \in RefreshTokens,
              RedeemCode(t, c, cid, uri, v, r) PROVE SweepOffline'
  BY <1>15 DEF RedeemCode, Start, Goto
<1>16. ASSUME NEW c \in AuthCodes, NEW cid \in Clients, NEW uri \in Redirects,
              NEW v \in Verifiers, BurnCode(c, cid, uri, v) PROVE SweepOffline'
  BY <1>16 DEF BurnCode
<1>17. ASSUME NEW t \in Threads, NEW r \in RefreshTokens, NEW r2 \in RefreshTokens,
              NEW cid \in Clients \cup {Absent}, Exchange(t, r, cid, r2)
       PROVE SweepOffline'
  BY <1>17 DEF Exchange, Start, Goto
<1>18. ASSUME NEW t \in Threads, ExchangeSave(t) PROVE SweepOffline'
  BY <1>18 DEF ExchangeSave, Done, Goto
<1>19. ASSUME NEW t \in Threads, Issue(t) PROVE SweepOffline'
  BY <1>19 DEF Issue, Goto
<1>20. ASSUME NEW t \in Threads, NEW d \in BOOLEAN, IssueSave(t, d)
       PROVE SweepOffline'
  BY <1>20 DEF IssueSave, Done, Goto
<1>21. ASSUME NEW t \in Threads, StoreError(t) PROVE SweepOffline'
  BY <1>21 DEF StoreError, Release, Done, Goto
<1>22. ASSUME NEW c \in PairCodes, PairRotate(c) PROVE SweepOffline'
  BY <1>22 DEF PairRotate, Rotate
<1>23. ASSUME NEW n \in Names, NEW b \in Binding, NEW c \in PairCodes,
              PairAdd(n, b, c) PROVE SweepOffline'
  BY <1>23 DEF PairAdd
<1>24. ASSUME NEW n \in Names, PairRemove(n) PROVE SweepOffline'
  BY <1>24 DEF PairRemove, MayOperate
<1>25. ASSUME SweepLoad PROVE SweepOffline'
  BY <1>25 DEF SweepLoad, OwnedBy
<1>26. ASSUME SweepSave PROVE SweepOffline'
  BY <1>26 DEF SweepSave
<1>27. ASSUME SweepError PROVE SweepOffline'
  BY <1>27 DEF SweepError
<1>28. ASSUME PairReset PROVE SweepOffline'
  BY <1>28 DEF PairReset, MayOperate
<1>29. ASSUME Tick PROVE SweepOffline'
  BY <1>29 DEF Tick
<1>30. CASE UNCHANGED vars
  BY <1>30 DEF vars
<1> HIDE <1>0 DEF SweepOffline
<1> QED
  BY <1>1, <1>2, <1>3, <1>4, <1>5, <1>6, <1>7, <1>8, <1>9, <1>10, <1>11, <1>12, <1>13,
     <1>14, <1>15, <1>16, <1>17, <1>18, <1>19, <1>20, <1>21, <1>22, <1>23, <1>24,
     <1>25, <1>26, <1>27, <1>28, <1>29, <1>30
     DEF Next, Boot, Request, Continue, Operator

-----------------------------------------------------------------------------
(***************************************************************************)
(* Single use                                                              *)
(***************************************************************************)

\* A handler that has drawn a successor refresh token not yet saved.
Flying(t) == pc[t] \in {"exchange", "issue", "put"}

\* Every token stored, loaded or spent was drawn; a spent one is in no map, and
\* no handler is about to save it; a successor is one handler's own and in no
\* map before that handler puts it there; a token being exchanged is no one's
\* successor.
Successors ==
  /\ \A r \in RefreshTokens :
       (refresh[r] # Absent \/ refreshBuf[r] # Absent \/ r \in spent) => r \in drawn
  /\ \A r \in spent : refresh[r] = Absent /\ refreshBuf[r] = Absent
  /\ \A t \in Threads : Flying(t) =>
       /\ local[t].next \in drawn /\ local[t].next \notin spent
       /\ refresh[local[t].next] = Absent
       /\ pc[t] # "put" => refreshBuf[local[t].next] = Absent
  /\ \A t, u \in Threads :
       Flying(t) /\ Flying(u) /\ t # u => local[t].next # local[u].next
  /\ \A t \in Threads : pc[t] = "exchange" =>
       /\ local[t].from \in drawn /\ refreshBuf[local[t].from] = Absent
       /\ \A u \in Threads : Flying(u) => local[u].next # local[t].from

\* Drawing, loading, saving and wiping tokens keep all of that, because only one
\* handler at a time is between a load and its save.
LEMMA SuccessorsStep ==
  TypeOK /\ MutexHeld /\ SweepOffline /\ Successors /\ [Next]_vars => Successors'
<1> SUFFICES ASSUME TypeOK, MutexHeld, SweepOffline, Successors, [Next]_vars
             PROVE  Successors'
  OBVIOUS
<1>0. /\ pc \in [Threads -> Label] /\ local \in [Threads -> Local \cup {Absent}]
      /\ refresh \in RefreshMap /\ refreshBuf \in RefreshMap
      /\ spent \subseteq RefreshTokens
      /\ \A t \in Threads : pc[t] # "idle" => phase = "up"
      /\ \A t \in Threads : Flying(t) => local[t].next \in RefreshTokens
      /\ \A t \in Threads : pc[t] = "exchange" => local[t].from \in RefreshTokens
  BY DEF TypeOK, Flying, Exchanging, Issuing
<1> USE <1>0 DEF MutexHeld, Successors, Flying, Label, RefreshMap, NoRefresh,
                store, locks, world, history
<1>1. ASSUME LoadKey PROVE Successors'
  BY <1>1 DEF LoadKey, MayBoot
<1>2. ASSUME NEW k \in SigningKeys, CreateKey(k) PROVE Successors'
  BY <1>2 DEF CreateKey, MayBoot
<1>3. ASSUME BootReadCode PROVE Successors'
  BY <1>3 DEF BootReadCode
<1>4. ASSUME NEW c \in PairCodes, BootRotate(c) PROVE Successors'
  BY <1>4 DEF BootRotate, Rotate
<1>5. ASSUME Crash PROVE Successors'
  BY <1>5 DEF Crash, Idle, NoLocals, NoCodes, NoRefresh
<1>6. ASSUME NEW t \in Threads, NEW c \in Clients, NEW uris \in SUBSET Redirects,
             Register(t, c, uris) PROVE Successors'
  BY <1>6 DEF Register, Start, Goto
<1>7. ASSUME NEW t \in Threads, RegisterSave(t) PROVE Successors'
  BY <1>7 DEF RegisterSave, Done, Goto
<1>8. ASSUME NEW t \in Threads, NEW p \in AuthParams, Authorize(t, p)
      PROVE Successors'
  BY <1>8 DEF Authorize, Start, Goto
<1>9. ASSUME NEW t \in Threads, ReadCode(t) PROVE Successors'
  BY <1>9 DEF ReadCode, Goto
<1>10. ASSUME NEW t \in Threads, NEW c \in PairCodes, RotateCode(t, c)
       PROVE Successors'
  BY <1>10 DEF RotateCode, Rotate, Done, Goto
<1>11. ASSUME NEW t \in Threads, MatchShared(t) PROVE Successors'
  BY <1>11 DEF MatchShared, Approve, Goto
<1>12. ASSUME NEW t \in Threads, NEW n \in Names, MatchNamed(t, n) PROVE Successors'
  BY <1>12 DEF MatchNamed, Approve, Goto
<1>13. ASSUME NEW t \in Threads, MatchNone(t) PROVE Successors'
  BY <1>13 DEF MatchNone, Done, Goto
<1>14. ASSUME NEW t \in Threads, NEW c \in AuthCodes, IssueCode(t, c)
       PROVE Successors'
  BY <1>14 DEF IssueCode, Done, Goto
<1>15. ASSUME NEW t \in Threads, NEW c \in AuthCodes, NEW cid \in Clients,
              NEW uri \in Redirects, NEW v \in Verifiers, NEW r \in RefreshTokens,
              RedeemCode(t, c, cid, uri, v, r) PROVE Successors'
  BY <1>15 DEF RedeemCode, Start, Goto
<1>16. ASSUME NEW c \in AuthCodes, NEW cid \in Clients, NEW uri \in Redirects,
              NEW v \in Verifiers, BurnCode(c, cid, uri, v) PROVE Successors'
  BY <1>16 DEF BurnCode
<1>17. ASSUME NEW t \in Threads, NEW r \in RefreshTokens, NEW r2 \in RefreshTokens,
              NEW cid \in Clients \cup {Absent}, Exchange(t, r, cid, r2)
       PROVE Successors'
  BY <1>17 DEF Exchange, Start, Goto
<1>18. ASSUME NEW t \in Threads, ExchangeSave(t) PROVE Successors'
  BY <1>18 DEF ExchangeSave, Done, Goto
<1>19. ASSUME NEW t \in Threads, Issue(t) PROVE Successors'
  BY <1>19 DEF Issue, Goto
<1>20. ASSUME NEW t \in Threads, NEW d \in BOOLEAN, IssueSave(t, d) PROVE Successors'
  BY <1>20 DEF IssueSave, Done, Goto
<1>21. ASSUME NEW t \in Threads, StoreError(t) PROVE Successors'
  BY <1>21 DEF StoreError, Release, Done, Goto
<1>22. ASSUME NEW c \in PairCodes, PairRotate(c) PROVE Successors'
  BY <1>22 DEF PairRotate, Rotate
<1>23. ASSUME NEW n \in Names, NEW b \in Binding, NEW c \in PairCodes,
              PairAdd(n, b, c) PROVE Successors'
  BY <1>23 DEF PairAdd
<1>24. ASSUME NEW n \in Names, PairRemove(n) PROVE Successors'
  BY <1>24 DEF PairRemove, MayOperate
<1>25. ASSUME SweepLoad PROVE Successors'
  BY <1>25 DEF SweepLoad, OwnedBy
<1>26. ASSUME SweepSave PROVE Successors'
  BY <1>26 DEF SweepSave, SweepOffline
<1>27. ASSUME SweepError PROVE Successors'
  BY <1>27 DEF SweepError
<1>28. ASSUME PairReset PROVE Successors'
  BY <1>28 DEF PairReset, MayOperate
<1>29. ASSUME Tick PROVE Successors'
  BY <1>29 DEF Tick
<1>30. CASE UNCHANGED vars
  BY <1>30 DEF vars
<1> HIDE <1>0 DEF MutexHeld, Successors
<1> QED
  BY <1>1, <1>2, <1>3, <1>4, <1>5, <1>6, <1>7, <1>8, <1>9, <1>10, <1>11, <1>12, <1>13,
     <1>14, <1>15, <1>16, <1>17, <1>18, <1>19, <1>20, <1>21, <1>22, <1>23, <1>24,
     <1>25, <1>26, <1>27, <1>28, <1>29, <1>30
     DEF Next, Boot, Request, Continue, Operator

-----------------------------------------------------------------------------
(***************************************************************************)
(* One credential per approval, counted                                    *)
(***************************************************************************)

\* The refresh tokens the store had when the holder of its mutex loaded it, or
\* has now when nobody holds it: what the holder's save may bring back after a
\* reset in between.
Loaded ==
  {r \in RefreshTokens :
     \/ refreshMu = Absent /\ refresh[r] # Absent
     \/ /\ refreshMu # Absent /\ pc[refreshMu] = "exchange"
        /\ refreshBuf[r] # Absent \/ r = local[refreshMu].from
     \/ /\ refreshMu # Absent /\ pc[refreshMu] = "put"
        /\ refreshBuf[r] # Absent /\ r # local[refreshMu].next}

\* The bound of OneCredentialPerApproval holds for the loaded tokens, which
\* include the stored ones; finitely many identifiers were ever drawn.
Credits ==
  /\ IsFiniteSet(drawn) /\ IsFiniteSet(GrantsInFlight)
  /\ PendingCodes \subseteq drawn /\ Loaded \subseteq drawn
  /\ StoredTokens \subseteq Loaded
  /\ Cardinality(PendingCodes) + Cardinality(Loaded) + Cardinality(GrantsInFlight)
       <= Cardinality(drawn \cap AuthCodes)

\* A step that adds no credential.
Spends ==
  /\ PendingCodes' \subseteq PendingCodes /\ GrantsInFlight' \subseteq GrantsInFlight
  /\ Loaded' \subseteq Loaded /\ StoredTokens' \subseteq Loaded'
  /\ \E x : drawn' \in {drawn, drawn \cup {x}}

\* A set that only shrinks.
LEMMA Keeps ==
  ASSUME NEW S, NEW T, IsFiniteSet(S), T \subseteq S
  PROVE  IsFiniteSet(T) /\ Cardinality(T) \in Nat /\ Cardinality(T) <= Cardinality(S)
  BY FS_Subset, FS_CardinalityType

\* A set that gets at most one more element.
LEMMA Gains ==
  ASSUME NEW S, NEW T, NEW x, IsFiniteSet(S), T \subseteq S \cup {x}
  PROVE  IsFiniteSet(T) /\ Cardinality(T) \in Nat /\ Cardinality(T) <= Cardinality(S) + 1
<1>1. IsFiniteSet(S \cup {x}) /\ Cardinality(S \cup {x}) <= Cardinality(S) + 1
  BY FS_AddElement, FS_CardinalityType
<1> QED
  BY <1>1, FS_Subset, FS_CardinalityType

\* A set that gives up one of its elements.
LEMMA Loses ==
  ASSUME NEW S, NEW T, NEW x \in S, IsFiniteSet(S), T \subseteq S \ {x}
  PROVE  IsFiniteSet(T) /\ Cardinality(T) \in Nat /\ Cardinality(T) + 1 <= Cardinality(S)
<1>1. /\ IsFiniteSet(S \ {x}) /\ Cardinality(S \ {x}) = Cardinality(S) - 1
      /\ Cardinality(S) \in Nat /\ Cardinality(S \ {x}) \in Nat
  BY FS_RemoveElement, FS_CardinalityType
<1> QED
  BY <1>1, FS_Subset, FS_CardinalityType

\* The sets Credits counts are finite.
LEMMA CreditsFinite ==
  ASSUME Credits
  PROVE  /\ IsFiniteSet(PendingCodes) /\ Cardinality(PendingCodes) \in Nat
         /\ IsFiniteSet(Loaded) /\ Cardinality(Loaded) \in Nat
         /\ IsFiniteSet(GrantsInFlight) /\ Cardinality(GrantsInFlight) \in Nat
         /\ IsFiniteSet(drawn \cap AuthCodes) /\ Cardinality(drawn \cap AuthCodes) \in Nat
  BY FS_Subset, FS_CardinalityType DEF Credits

\* Drawing at most one identifier keeps the count of issued codes.
LEMMA Draws ==
  ASSUME NEW D, NEW E, NEW x, IsFiniteSet(D), E \in {D, D \cup {x}}
  PROVE  /\ IsFiniteSet(E) /\ Cardinality(E \cap AuthCodes) \in Nat
         /\ Cardinality(D \cap AuthCodes) <= Cardinality(E \cap AuthCodes)
<1>1. IsFiniteSet(E)
  BY FS_AddElement
<1>2. IsFiniteSet(E \cap AuthCodes)
  BY <1>1, FS_Subset
<1>3. D \cap AuthCodes \subseteq E \cap AuthCodes
  OBVIOUS
<1> QED
  BY <1>1, <1>2, <1>3, FS_Subset, FS_CardinalityType

\* A step that adds no credential keeps the bound.
LEMMA SpendsCredits == ASSUME Credits, Spends PROVE Credits'
<1>1. PICK x : drawn' \in {drawn, drawn \cup {x}}
  BY DEF Spends
<1>2. /\ IsFiniteSet(drawn') /\ Cardinality(drawn' \cap AuthCodes) \in Nat
      /\ Cardinality(drawn \cap AuthCodes) <= Cardinality(drawn' \cap AuthCodes)
  <2>1. IsFiniteSet(drawn)
    BY DEF Credits
  <2> QED
    BY <1>1, <2>1, Draws
<1>3. /\ Cardinality(PendingCodes') \in Nat
      /\ Cardinality(PendingCodes') <= Cardinality(PendingCodes)
  BY CreditsFinite, Keeps DEF Spends
<1>4. Cardinality(Loaded') \in Nat /\ Cardinality(Loaded') <= Cardinality(Loaded)
  BY CreditsFinite, Keeps DEF Spends
<1>5. /\ IsFiniteSet(GrantsInFlight') /\ Cardinality(GrantsInFlight') \in Nat
      /\ Cardinality(GrantsInFlight') <= Cardinality(GrantsInFlight)
  BY CreditsFinite, Keeps DEF Spends
<1>6. /\ PendingCodes' \subseteq drawn' /\ Loaded' \subseteq drawn'
      /\ StoredTokens' \subseteq Loaded'
  BY <1>1 DEF Credits, Spends
<1> QED
  BY <1>2, <1>3, <1>4, <1>5, <1>6, CreditsFinite DEF Credits

\* The other steps trade: IssueCode adds a code and an issued code, RedeemCode
\* turns a code into a grant in flight, ExchangeSave a stored token into one,
\* IssueSave a grant in flight into a stored token.
LEMMA CreditsStep ==
  ASSUME RemoveOffline
  PROVE  TypeOK /\ MutexHeld /\ ServerDown /\ SweepOffline /\ Successors /\ Credits
           /\ [Next]_vars => Credits'
<1> SUFFICES ASSUME TypeOK, MutexHeld, ServerDown, SweepOffline, Successors, Credits,
                    [Next]_vars
             PROVE  Credits'
  OBVIOUS
<1>0. /\ pc \in [Threads -> Label] /\ local \in [Threads -> Local \cup {Absent}]
      /\ refresh \in RefreshMap /\ refreshBuf \in RefreshMap
      /\ refreshMu \in Threads \cup {Absent}
      /\ codes \in [AuthCodes -> AuthGrant \cup {Absent}]
      /\ \A t \in Threads : pc[t] # "idle" => phase = "up"
      /\ \A t \in Threads : Flying(t) => local[t].next \in RefreshTokens
      /\ \A t \in Threads : pc[t] = "exchange" => local[t].from \in RefreshTokens
      /\ sweep # Absent /\ sweep.step = "save" => sweep.buf \in RefreshMap
  BY DEF TypeOK, Flying, Exchanging, Issuing
<1>a. StoredTokens \subseteq Loaded
  BY DEF Credits
<1> USE <1>0, <1>a DEF MutexHeld, Successors, Flying, Label, RefreshMap,
                 NoRefresh, RemoveOffline, store, locks, world, history
<1>1. ASSUME LoadKey PROVE Spends
  BY <1>1 DEF LoadKey, MayBoot, Spends, PendingCodes, StoredTokens, GrantsInFlight,
       Loaded
<1>2. ASSUME NEW k \in SigningKeys, CreateKey(k) PROVE Spends
  BY <1>2 DEF CreateKey, MayBoot, Spends, PendingCodes, StoredTokens, GrantsInFlight,
       Loaded
<1>3. ASSUME BootReadCode PROVE Spends
  BY <1>3 DEF BootReadCode, Spends, PendingCodes, StoredTokens, GrantsInFlight, Loaded
<1>4. ASSUME NEW c \in PairCodes, BootRotate(c) PROVE Spends
  BY <1>4 DEF BootRotate, Rotate, Spends, PendingCodes, StoredTokens, GrantsInFlight,
       Loaded
<1>5. ASSUME Crash PROVE Spends
  BY <1>5 DEF Crash, Idle, NoLocals, NoCodes, NoRefresh, Spends, PendingCodes,
       StoredTokens, GrantsInFlight, Loaded
<1>6. ASSUME NEW t \in Threads, NEW c \in Clients, NEW uris \in SUBSET Redirects,
             Register(t, c, uris) PROVE Spends
  <2>1. /\ UNCHANGED <<refresh, codes, refreshMu, refreshBuf>> /\ drawn' = drawn \cup {c}
        /\ pc[t] = "idle" /\ pc' = [pc EXCEPT ![t] = "register"]
        /\ \A u \in Threads \ {t} : local'[u] = local[u]
    BY <1>6 DEF Register, Start, Goto
  <2>2. /\ PendingCodes' = PendingCodes /\ StoredTokens' = StoredTokens
        /\ GrantsInFlight' = GrantsInFlight
    BY <2>1 DEF PendingCodes, StoredTokens, GrantsInFlight
  <2>3. Loaded' = Loaded
    BY <2>1 DEF Loaded
  <2> QED
    BY <2>1, <2>2, <2>3 DEF Spends
<1>7. ASSUME NEW t \in Threads, RegisterSave(t) PROVE Spends
  BY <1>7 DEF RegisterSave, Done, Goto, Spends, PendingCodes, StoredTokens,
       GrantsInFlight, Loaded
<1>8. ASSUME NEW t \in Threads, NEW p \in AuthParams, Authorize(t, p) PROVE Spends
  BY <1>8 DEF Authorize, Start, Goto, Spends, PendingCodes, StoredTokens,
       GrantsInFlight, Loaded
<1>9. ASSUME NEW t \in Threads, ReadCode(t) PROVE Spends
  BY <1>9 DEF ReadCode, Goto, Spends, PendingCodes, StoredTokens, GrantsInFlight,
       Loaded
<1>10. ASSUME NEW t \in Threads, NEW c \in PairCodes, RotateCode(t, c) PROVE Spends
  BY <1>10 DEF RotateCode, Rotate, Done, Goto, Spends, PendingCodes, StoredTokens,
       GrantsInFlight, Loaded
<1>11. ASSUME NEW t \in Threads, MatchShared(t) PROVE Spends
  BY <1>11 DEF MatchShared, Approve, Goto, Spends, PendingCodes, StoredTokens,
       GrantsInFlight, Loaded
<1>12. ASSUME NEW t \in Threads, NEW n \in Names, MatchNamed(t, n) PROVE Spends
  BY <1>12 DEF MatchNamed, Approve, Goto, Spends, PendingCodes, StoredTokens,
       GrantsInFlight, Loaded
<1>13. ASSUME NEW t \in Threads, MatchNone(t) PROVE Spends
  BY <1>13 DEF MatchNone, Done, Goto, Spends, PendingCodes, StoredTokens,
       GrantsInFlight, Loaded
<1>14. ASSUME NEW t \in Threads, NEW c \in AuthCodes, IssueCode(t, c) PROVE Credits'
  <2>1. /\ PendingCodes' \subseteq PendingCodes \cup {c} /\ drawn' = drawn \cup {c}
        /\ Loaded' \subseteq Loaded /\ GrantsInFlight' \subseteq GrantsInFlight
        /\ StoredTokens' \subseteq Loaded' /\ c \notin drawn
    BY <1>14 DEF IssueCode, Done, Goto, PendingCodes, StoredTokens, GrantsInFlight,
         Loaded
  <2>2. /\ Cardinality(PendingCodes') \in Nat
        /\ Cardinality(PendingCodes') <= Cardinality(PendingCodes) + 1
    BY <2>1, CreditsFinite, Gains
  <2>3. Cardinality(Loaded') \in Nat /\ Cardinality(Loaded') <= Cardinality(Loaded)
    BY <2>1, CreditsFinite, Keeps
  <2>4. /\ IsFiniteSet(GrantsInFlight') /\ Cardinality(GrantsInFlight') \in Nat
        /\ Cardinality(GrantsInFlight') <= Cardinality(GrantsInFlight)
    BY <2>1, CreditsFinite, Keeps
  <2>5. IsFiniteSet(drawn')
    BY <2>1, FS_AddElement DEF Credits
  <2>6. Cardinality(drawn' \cap AuthCodes) = Cardinality(drawn \cap AuthCodes) + 1
    <3>1. /\ drawn' \cap AuthCodes = (drawn \cap AuthCodes) \cup {c}
          /\ c \notin drawn \cap AuthCodes
      BY <2>1
    <3> QED
      BY <3>1, CreditsFinite, FS_AddElement
  <2> HIDE DEF MutexHeld, Successors
  <2> QED
    BY <2>1, <2>2, <2>3, <2>4, <2>5, <2>6, CreditsFinite DEF Credits
<1>15. ASSUME NEW t \in Threads, NEW c \in AuthCodes, NEW cid \in Clients,
              NEW uri \in Redirects, NEW v \in Verifiers, NEW r \in RefreshTokens,
              RedeemCode(t, c, cid, uri, v, r) PROVE Credits'
  <2>1. /\ PendingCodes' \subseteq PendingCodes \ {c} /\ c \in PendingCodes
        /\ GrantsInFlight' \subseteq GrantsInFlight \cup {t}
        /\ Loaded' \subseteq Loaded /\ StoredTokens' \subseteq Loaded'
        /\ drawn' = drawn \cup {r}
    BY <1>15 DEF RedeemCode, Start, Goto, PendingCodes, StoredTokens, GrantsInFlight,
         Loaded
  <2>2. /\ Cardinality(PendingCodes') \in Nat
        /\ Cardinality(PendingCodes') + 1 <= Cardinality(PendingCodes)
    BY <2>1, CreditsFinite, Loses
  <2>3. Cardinality(Loaded') \in Nat /\ Cardinality(Loaded') <= Cardinality(Loaded)
    BY <2>1, CreditsFinite, Keeps
  <2>4. /\ IsFiniteSet(GrantsInFlight') /\ Cardinality(GrantsInFlight') \in Nat
        /\ Cardinality(GrantsInFlight') <= Cardinality(GrantsInFlight) + 1
    BY <2>1, CreditsFinite, Gains
  <2>5. /\ IsFiniteSet(drawn') /\ Cardinality(drawn' \cap AuthCodes) \in Nat
        /\ Cardinality(drawn \cap AuthCodes) <= Cardinality(drawn' \cap AuthCodes)
    <3>1. IsFiniteSet(drawn)
      BY DEF Credits
    <3> QED
      BY <2>1, <3>1, Draws
  <2> HIDE DEF MutexHeld, Successors
  <2> QED
    BY <2>1, <2>2, <2>3, <2>4, <2>5, CreditsFinite DEF Credits
<1>16. ASSUME NEW c \in AuthCodes, NEW cid \in Clients, NEW uri \in Redirects,
              NEW v \in Verifiers, BurnCode(c, cid, uri, v) PROVE Spends
  BY <1>16 DEF BurnCode, Spends, PendingCodes, StoredTokens, GrantsInFlight, Loaded
<1>17. ASSUME NEW t \in Threads, NEW r \in RefreshTokens, NEW r2 \in RefreshTokens,
              NEW cid \in Clients \cup {Absent}, Exchange(t, r, cid, r2) PROVE Spends
  <2>1. Loaded' \subseteq Loaded /\ StoredTokens' \subseteq Loaded'
    BY <1>17 DEF Exchange, Start, Goto, StoredTokens, Loaded
  <2>2. PendingCodes' = PendingCodes /\ GrantsInFlight' \subseteq GrantsInFlight
    BY <1>17 DEF Exchange, Start, Goto, PendingCodes, GrantsInFlight
  <2> QED
    BY <1>17, <2>1, <2>2 DEF Exchange, Spends
<1>18. ASSUME NEW t \in Threads, ExchangeSave(t) PROVE Credits'
  <2> DEFINE r == local[t].from
  <2>1. /\ r \in Loaded /\ Loaded' \subseteq Loaded \ {r}
        /\ StoredTokens' \subseteq Loaded'
    BY <1>18 DEF ExchangeSave, Done, Goto, StoredTokens, Loaded
  <2>2. GrantsInFlight' \subseteq GrantsInFlight \cup {t}
    BY <1>18 DEF ExchangeSave, Done, Goto, GrantsInFlight
  <2>3. PendingCodes' = PendingCodes /\ drawn' = drawn
    BY <1>18 DEF ExchangeSave, PendingCodes
  <2>4. Cardinality(Loaded') \in Nat /\ Cardinality(Loaded') + 1 <=
        Cardinality(Loaded)
    BY <2>1, CreditsFinite, Loses
  <2>5. /\ IsFiniteSet(GrantsInFlight') /\ Cardinality(GrantsInFlight') \in Nat
        /\ Cardinality(GrantsInFlight') <= Cardinality(GrantsInFlight) + 1
    BY <2>2, CreditsFinite, Gains
  <2> HIDE DEF MutexHeld, Successors
  <2> QED
    BY <2>1, <2>2, <2>3, <2>4, <2>5, CreditsFinite DEF Credits
<1>19. ASSUME NEW t \in Threads, Issue(t) PROVE Spends
  BY <1>19 DEF Issue, Goto, Spends, PendingCodes, StoredTokens, GrantsInFlight, Loaded
<1>20. ASSUME NEW t \in Threads, NEW d \in BOOLEAN, IssueSave(t, d) PROVE Credits'
  <2> DEFINE r == local[t].next
  <2>1. Loaded' \subseteq Loaded \cup {r} /\ StoredTokens' \subseteq Loaded'
    BY <1>20 DEF IssueSave, Done, Goto, StoredTokens, Loaded
  <2>2. t \in GrantsInFlight /\ GrantsInFlight' \subseteq GrantsInFlight \ {t}
    BY <1>20 DEF IssueSave, Done, Goto, GrantsInFlight
  <2>3. PendingCodes' = PendingCodes /\ drawn' = drawn /\ r \in drawn
    BY <1>20 DEF IssueSave, PendingCodes
  <2>4. Cardinality(Loaded') \in Nat /\ Cardinality(Loaded') <= Cardinality(Loaded) +
        1
    BY <2>1, CreditsFinite, Gains
  <2>5. /\ IsFiniteSet(GrantsInFlight') /\ Cardinality(GrantsInFlight') \in Nat
        /\ Cardinality(GrantsInFlight') + 1 <= Cardinality(GrantsInFlight)
    BY <2>2, CreditsFinite, Loses
  <2> HIDE DEF MutexHeld, Successors
  <2> QED
    BY <2>1, <2>2, <2>3, <2>4, <2>5, CreditsFinite DEF Credits
<1>21. ASSUME NEW t \in Threads, StoreError(t) PROVE Spends
  BY <1>21 DEF StoreError, Release, Done, Goto, Spends, PendingCodes, StoredTokens,
       GrantsInFlight, Loaded
<1>22. ASSUME NEW c \in PairCodes, PairRotate(c) PROVE Spends
  BY <1>22 DEF PairRotate, Rotate, Spends, PendingCodes, StoredTokens, GrantsInFlight,
       Loaded
<1>23. ASSUME NEW n \in Names, NEW b \in Binding, NEW c \in PairCodes,
              PairAdd(n, b, c) PROVE Spends
  BY <1>23 DEF PairAdd, Spends, PendingCodes, StoredTokens, GrantsInFlight, Loaded
<1>24. ASSUME NEW n \in Names, PairRemove(n) PROVE Spends
  BY <1>24 DEF PairRemove, MayOperate, Spends, PendingCodes, StoredTokens,
       GrantsInFlight, Loaded
<1>25. ASSUME SweepLoad PROVE Spends
  BY <1>25 DEF SweepLoad, OwnedBy, Spends, PendingCodes, StoredTokens, GrantsInFlight,
       Loaded
<1>26. ASSUME SweepSave PROVE Spends
  BY <1>26 DEF SweepSave, SweepOffline, Spends, PendingCodes, StoredTokens,
       GrantsInFlight, Loaded
<1>27. ASSUME SweepError PROVE Spends
  BY <1>27 DEF SweepError, Spends, PendingCodes, StoredTokens, GrantsInFlight, Loaded
<1>28. ASSUME PairReset PROVE Spends
  BY <1>28 DEF PairReset, MayOperate, Spends, PendingCodes, StoredTokens,
       GrantsInFlight, Loaded
<1>29. ASSUME Tick PROVE Spends
  BY <1>29 DEF Tick, Spends, PendingCodes, StoredTokens, GrantsInFlight, Loaded
<1>30. ASSUME UNCHANGED vars PROVE Spends
  <2>1. /\ PendingCodes' = PendingCodes /\ GrantsInFlight' = GrantsInFlight
        /\ Loaded' = Loaded /\ StoredTokens' = StoredTokens /\ drawn' = drawn
    BY <1>30 DEF vars, PendingCodes, StoredTokens, GrantsInFlight, Loaded
  <2> QED
    BY <2>1 DEF Spends
<1>31. Spends => Credits'
  BY SpendsCredits
<1> HIDE DEF MutexHeld, Successors
<1> QED
  BY <1>1, <1>2, <1>3, <1>4, <1>5, <1>6, <1>7, <1>8, <1>9, <1>10, <1>11, <1>12, <1>13,
     <1>14, <1>15, <1>16, <1>17, <1>18, <1>19, <1>20, <1>21, <1>22, <1>23, <1>24,
     <1>25, <1>26, <1>27, <1>28, <1>29, <1>30, <1>31
     DEF Next, Boot, Request, Continue, Operator

-----------------------------------------------------------------------------
(***************************************************************************)
(* Revocation                                                              *)
(***************************************************************************)

\* No token, delivered or about to be, outlives TokenTTL from now.
TokenAges ==
  /\ \A tok \in tokens : tok.exp <= now + TokenTTL
  /\ \A t \in Threads :
       pc[t] \in {"issue", "put"} => local[t].token.exp <= now + TokenTTL

\* RemovedStayOut for the copies in flight as well: a removed principal is in no
\* map between load and save, the one of a later removal included, and in no grant
\* a handler carries.
Forgotten ==
  /\ sweep # Absent /\ sweep.step = "save" =>
       \A r \in RefreshTokens :
         sweep.buf[r] # Absent => sweep.buf[r].principal.name # sweep.name
  /\ \A n \in Names \ astray : Removed(n) =>
    /\ \A r \in RefreshTokens :
         /\ refresh[r] # Absent => refresh[r].principal.name # n
         /\ refreshBuf[r] # Absent => refreshBuf[r].principal.name # n
    /\ sweep # Absent /\ sweep.step = "save" =>
         \A r \in RefreshTokens :
           sweep.buf[r] # Absent => sweep.buf[r].principal.name # n
    /\ \A c \in AuthCodes : codes[c] # Absent => codes[c].grant.principal.name # n
    /\ \A t \in Threads :
         /\ pc[t] \in {"approve", "exchange"} => local[t].grant.principal.name # n
         /\ pc[t] \in {"issue", "put"} => local[t].token.grant.principal.name # n
    /\ \A tok \in tokens : tok.grant.principal.name = n =>
         tok.exp <= changedAt[n] + TokenTTL

\* Mint stamps now + TokenTTL, and the clock only advances.
LEMMA AgesStep == TypeOK /\ TokenAges /\ [Next]_vars => TokenAges'
<1> SUFFICES ASSUME TypeOK, TokenAges, [Next]_vars PROVE TokenAges'
  OBVIOUS
<1>0. /\ pc \in [Threads -> Label] /\ local \in [Threads -> Local \cup {Absent}]
      /\ now \in Nat /\ \A tok \in tokens : tok.exp \in Nat
      /\ \A t \in Threads : pc[t] \in {"issue", "put"} => local[t].token.exp \in Nat
  BY DEF TypeOK, Issuing, Token
<1> USE <1>0 DEF TokenAges, Label, store, locks, world, history
<1>1. ASSUME LoadKey PROVE TokenAges'
  BY <1>1 DEF LoadKey, MayBoot
<1>2. ASSUME NEW k \in SigningKeys, CreateKey(k) PROVE TokenAges'
  BY <1>2 DEF CreateKey, MayBoot
<1>3. ASSUME BootReadCode PROVE TokenAges'
  BY <1>3 DEF BootReadCode
<1>4. ASSUME NEW c \in PairCodes, BootRotate(c) PROVE TokenAges'
  BY <1>4 DEF BootRotate, Rotate
<1>5. ASSUME Crash PROVE TokenAges'
  BY <1>5 DEF Crash, Idle, NoLocals, NoCodes, NoRefresh
<1>6. ASSUME NEW t \in Threads, NEW c \in Clients, NEW uris \in SUBSET Redirects,
             Register(t, c, uris) PROVE TokenAges'
  BY <1>6 DEF Register, Start, Goto
<1>7. ASSUME NEW t \in Threads, RegisterSave(t) PROVE TokenAges'
  BY <1>7 DEF RegisterSave, Done, Goto
<1>8. ASSUME NEW t \in Threads, NEW p \in AuthParams, Authorize(t, p) PROVE TokenAges'
  BY <1>8 DEF Authorize, Start, Goto
<1>9. ASSUME NEW t \in Threads, ReadCode(t) PROVE TokenAges'
  BY <1>9 DEF ReadCode, Goto
<1>10. ASSUME NEW t \in Threads, NEW c \in PairCodes, RotateCode(t, c)
       PROVE TokenAges'
  BY <1>10 DEF RotateCode, Rotate, Done, Goto
<1>11. ASSUME NEW t \in Threads, MatchShared(t) PROVE TokenAges'
  BY <1>11 DEF MatchShared, Approve, Goto
<1>12. ASSUME NEW t \in Threads, NEW n \in Names, MatchNamed(t, n) PROVE TokenAges'
  BY <1>12 DEF MatchNamed, Approve, Goto
<1>13. ASSUME NEW t \in Threads, MatchNone(t) PROVE TokenAges'
  BY <1>13 DEF MatchNone, Done, Goto
<1>14. ASSUME NEW t \in Threads, NEW c \in AuthCodes, IssueCode(t, c) PROVE TokenAges'
  BY <1>14 DEF IssueCode, Done, Goto
<1>15. ASSUME NEW t \in Threads, NEW c \in AuthCodes, NEW cid \in Clients,
              NEW uri \in Redirects, NEW v \in Verifiers, NEW r \in RefreshTokens,
              RedeemCode(t, c, cid, uri, v, r) PROVE TokenAges'
  BY <1>15 DEF RedeemCode, Start, Goto, Mint
<1>16. ASSUME NEW c \in AuthCodes, NEW cid \in Clients, NEW uri \in Redirects,
              NEW v \in Verifiers, BurnCode(c, cid, uri, v) PROVE TokenAges'
  BY <1>16 DEF BurnCode
<1>17. ASSUME NEW t \in Threads, NEW r \in RefreshTokens, NEW r2 \in RefreshTokens,
              NEW cid \in Clients \cup {Absent}, Exchange(t, r, cid, r2)
       PROVE TokenAges'
  BY <1>17 DEF Exchange, Start, Goto
<1>18. ASSUME NEW t \in Threads, ExchangeSave(t) PROVE TokenAges'
  BY <1>18 DEF ExchangeSave, Done, Goto, Mint
<1>19. ASSUME NEW t \in Threads, Issue(t) PROVE TokenAges'
  BY <1>19 DEF Issue, Goto
<1>20. ASSUME NEW t \in Threads, NEW d \in BOOLEAN, IssueSave(t, d) PROVE TokenAges'
  BY <1>20 DEF IssueSave, Done, Goto
<1>21. ASSUME NEW t \in Threads, StoreError(t) PROVE TokenAges'
  BY <1>21 DEF StoreError, Release, Done, Goto
<1>22. ASSUME NEW c \in PairCodes, PairRotate(c) PROVE TokenAges'
  BY <1>22 DEF PairRotate, Rotate
<1>23. ASSUME NEW n \in Names, NEW b \in Binding, NEW c \in PairCodes,
              PairAdd(n, b, c) PROVE TokenAges'
  BY <1>23 DEF PairAdd
<1>24. ASSUME NEW n \in Names, PairRemove(n) PROVE TokenAges'
  BY <1>24 DEF PairRemove, MayOperate
<1>25. ASSUME SweepLoad PROVE TokenAges'
  BY <1>25 DEF SweepLoad, OwnedBy
<1>26. ASSUME SweepSave PROVE TokenAges'
  BY <1>26 DEF SweepSave
<1>27. ASSUME SweepError PROVE TokenAges'
  BY <1>27 DEF SweepError
<1>28. ASSUME PairReset PROVE TokenAges'
  BY <1>28 DEF PairReset, MayOperate
<1>29. ASSUME Tick PROVE TokenAges'
  BY <1>29 DEF Tick
<1>30. CASE UNCHANGED vars
  BY <1>30 DEF vars
<1> HIDE <1>0 DEF TokenAges
<1> QED
  BY <1>1, <1>2, <1>3, <1>4, <1>5, <1>6, <1>7, <1>8, <1>9, <1>10, <1>11, <1>12, <1>13,
     <1>14, <1>15, <1>16, <1>17, <1>18, <1>19, <1>20, <1>21, <1>22, <1>23, <1>24,
     <1>25, <1>26, <1>27, <1>28, <1>29, <1>30
     DEF Next, Boot, Request, Continue, Operator

\* When a removal ends, either its principal is marked or nothing of it is under
\* way, and the marks of the others stay.
LEMMA Ended ==
  ASSUME TypeOK, NEW n \in Names, RemovalEnds(n)
  PROVE  /\ changedAt'[n] = now
         /\ \A m \in Names \ {n} :
              changedAt'[m] = changedAt[m] /\ (m \in astray' <=> m \in astray)
         /\ n \notin astray' =>
              /\ \A r \in RefreshTokens :
                   refreshBuf[r] # Absent => refreshBuf[r].principal.name # n
              /\ \A c \in AuthCodes : codes[c] # Absent => codes[c].grant.principal.name # n
              /\ \A t \in Threads :
                   /\ pc[t] \in {"approve", "exchange"} => local[t].grant.principal.name # n
                   /\ pc[t] \in {"issue", "put"} => local[t].token.grant.principal.name # n
<1>1. changedAt' = [changedAt EXCEPT ![n] = now]
      /\ astray' = IF UnderWay(n) THEN astray \cup {n} ELSE astray \ {n}
  BY DEF RemovalEnds
<1>2. changedAt \in [Names -> Nat \cup {Absent}]
  BY DEF TypeOK
<1>3. n \notin astray' => ~ UnderWay(n)
  BY <1>1
<1>4. ~ UnderWay(n) =>
        /\ \A r \in RefreshTokens :
             refreshBuf[r] # Absent => refreshBuf[r].principal.name # n
        /\ \A c \in AuthCodes : codes[c] # Absent => codes[c].grant.principal.name # n
        /\ \A t \in Threads : \A g \in Carried(t) : g.principal.name # n
  BY DEF UnderWay, OwnedBy
<1>5. \A t \in Threads :
        /\ pc[t] \in {"approve", "exchange"} => local[t].grant \in Carried(t)
        /\ pc[t] \in {"issue", "put"} => local[t].token.grant \in Carried(t)
  BY DEF Carried
<1>6. QED
  BY <1>1, <1>2, <1>3, <1>4, <1>5

\* A grant for n starts with a match of n's pairing code, which a removal has
\* deleted: what is not under way when the removal ends never will be.
LEMMA ForgottenStep ==
  TypeOK /\ MutexHeld /\ TokenAges /\ Forgotten /\ [Next]_vars => Forgotten'
<1> SUFFICES ASSUME TypeOK, MutexHeld, TokenAges, Forgotten, [Next]_vars
             PROVE  Forgotten'
  OBVIOUS
<1>0. /\ pc \in [Threads -> Label] /\ local \in [Threads -> Local \cup {Absent}]
      /\ refresh \in RefreshMap /\ refreshBuf \in RefreshMap
      /\ refreshMu \in Threads \cup {Absent}
      /\ codes \in [AuthCodes -> AuthGrant \cup {Absent}]
      /\ changedAt \in [Names -> Nat \cup {Absent}] /\ principals \in PrincipalMap
      /\ now \in Nat /\ \A tok \in tokens : tok.exp \in Nat
      /\ \A t \in Threads : pc[t] # "idle" => phase = "up"
      /\ sweep # Absent => sweep.name \in Names
      /\ \A t \in Threads : pc[t] \in {"issue", "put"} => local[t].next \in RefreshTokens
      /\ \A t \in Threads : pc[t] = "exchange" => local[t].from \in RefreshTokens
  BY DEF TypeOK, Exchanging, Issuing, Token
<1> USE <1>0, NameAssumption
    DEF Forgotten, Removed, Label, RefreshMap, PrincipalMap, NoRefresh, NoCodes,
        store, locks, world, history, marks
<1>1. ASSUME LoadKey PROVE Forgotten'
  BY <1>1 DEF LoadKey, MayBoot
<1>2. ASSUME NEW k \in SigningKeys, CreateKey(k) PROVE Forgotten'
  BY <1>2 DEF CreateKey, MayBoot
<1>3. ASSUME BootReadCode PROVE Forgotten'
  BY <1>3 DEF BootReadCode
<1>4. ASSUME NEW c \in PairCodes, BootRotate(c) PROVE Forgotten'
  BY <1>4 DEF BootRotate, Rotate
<1>5. ASSUME Crash PROVE Forgotten'
  BY <1>5 DEF Crash, Idle, NoLocals, NoCodes, NoRefresh
<1>6. ASSUME NEW t \in Threads, NEW c \in Clients, NEW uris \in SUBSET Redirects,
             Register(t, c, uris) PROVE Forgotten'
  BY <1>6 DEF Register, Start, Goto
<1>7. ASSUME NEW t \in Threads, RegisterSave(t) PROVE Forgotten'
  BY <1>7 DEF RegisterSave, Done, Goto
<1>8. ASSUME NEW t \in Threads, NEW p \in AuthParams, Authorize(t, p) PROVE Forgotten'
  BY <1>8 DEF Authorize, Start, Goto
<1>9. ASSUME NEW t \in Threads, ReadCode(t) PROVE Forgotten'
  BY <1>9 DEF ReadCode, Goto
<1>10. ASSUME NEW t \in Threads, NEW c \in PairCodes, RotateCode(t, c)
       PROVE Forgotten'
  BY <1>10 DEF RotateCode, Rotate, Done, Goto
<1>11. ASSUME NEW t \in Threads, MatchShared(t) PROVE Forgotten'
  <2>1. /\ pc' = [pc EXCEPT ![t] = "approve"] /\ local'[t].grant.principal = Anonymous
        /\ \A u \in Threads \ {t} : local'[u] = local[u]
        /\ UNCHANGED <<principals, refresh, refreshBuf, codes, tokens, changedAt, sweep, astray>>
    BY <1>11 DEF MatchShared, Approve, Goto, GrantFor
  <2>2. local'[t].grant.principal.name \notin Names
    BY <2>1, NameAssumption DEF Anonymous
  <2>3. \A u \in Threads :
          /\ pc'[u] \in {"exchange", "issue", "put"} => u # t
          /\ u # t => pc'[u] = pc[u] /\ local'[u] = local[u]
    BY <2>1
  <2>4. ASSUME NEW n \in Names \ astray, Removed(n), NEW u \in Threads
        PROVE  /\ pc'[u] \in {"approve", "exchange"} => local'[u].grant.principal.name # n
               /\ pc'[u] \in {"issue", "put"} => local'[u].token.grant.principal.name # n
    <3>1. CASE u = t
      BY <2>2, <2>3, <2>4, <3>1
    <3>2. CASE u # t
      <4>1. /\ pc[u] \in {"approve", "exchange"} => local[u].grant.principal.name # n
            /\ pc[u] \in {"issue", "put"} => local[u].token.grant.principal.name # n
        BY <2>4
      <4>2. pc'[u] = pc[u] /\ local'[u] = local[u]
        BY <2>3, <3>2
      <4>3. QED
        BY <4>1, <4>2
    <3>3. QED
      BY <3>1, <3>2
  <2>5. QED
    BY <2>1, <2>4
<1>12. ASSUME NEW t \in Threads, NEW n \in Names, MatchNamed(t, n) PROVE Forgotten'
  <2>1. /\ pc' = [pc EXCEPT ![t] = "approve"] /\ local'[t].grant.principal.name = n
        /\ \A u \in Threads \ {t} : local'[u] = local[u]
        /\ UNCHANGED <<principals, refresh, refreshBuf, codes, tokens, changedAt, sweep, astray>>
    BY <1>12 DEF MatchNamed, Approve, Goto, GrantFor
  <2>2. ~ Removed(n)
    BY <1>12 DEF MatchNamed
  <2>3. \A u \in Threads :
          /\ pc'[u] \in {"exchange", "issue", "put"} => u # t
          /\ u # t => pc'[u] = pc[u] /\ local'[u] = local[u]
    BY <2>1
  <2>4. ASSUME NEW m \in Names \ astray, Removed(m), NEW u \in Threads
        PROVE  /\ pc'[u] \in {"approve", "exchange"} => local'[u].grant.principal.name # m
               /\ pc'[u] \in {"issue", "put"} => local'[u].token.grant.principal.name # m
    <3>1. m # n
      BY <2>2, <2>4
    <3>2. CASE u = t
      BY <2>1, <2>3, <3>1, <3>2
    <3>3. CASE u # t
      <4>1. /\ pc[u] \in {"approve", "exchange"} => local[u].grant.principal.name # m
            /\ pc[u] \in {"issue", "put"} => local[u].token.grant.principal.name # m
        BY <2>4
      <4>2. pc'[u] = pc[u] /\ local'[u] = local[u]
        BY <2>3, <3>3
      <4>3. QED
        BY <4>1, <4>2
    <3>4. QED
      BY <3>2, <3>3
  <2>5. QED
    BY <2>1, <2>4
<1>13. ASSUME NEW t \in Threads, MatchNone(t) PROVE Forgotten'
  BY <1>13 DEF MatchNone, Done, Goto
<1>14. ASSUME NEW t \in Threads, NEW c \in AuthCodes, IssueCode(t, c) PROVE Forgotten'
  BY <1>14 DEF IssueCode, Done, Goto
<1>15. ASSUME NEW t \in Threads, NEW c \in AuthCodes, NEW cid \in Clients,
              NEW uri \in Redirects, NEW v \in Verifiers, NEW r \in RefreshTokens,
              RedeemCode(t, c, cid, uri, v, r) PROVE Forgotten'
  BY <1>15 DEF RedeemCode, Start, Goto, Mint
<1>16. ASSUME NEW c \in AuthCodes, NEW cid \in Clients, NEW uri \in Redirects,
              NEW v \in Verifiers, BurnCode(c, cid, uri, v) PROVE Forgotten'
  BY <1>16 DEF BurnCode
<1>17. ASSUME NEW t \in Threads, NEW r \in RefreshTokens, NEW r2 \in RefreshTokens,
              NEW cid \in Clients \cup {Absent}, Exchange(t, r, cid, r2)
       PROVE Forgotten'
  BY <1>17 DEF Exchange, Start, Goto
<1>18. ASSUME NEW t \in Threads, ExchangeSave(t) PROVE Forgotten'
  BY <1>18 DEF ExchangeSave, Done, Goto, Mint
<1>19. ASSUME NEW t \in Threads, Issue(t) PROVE Forgotten'
  BY <1>19 DEF Issue, Goto
<1>20. ASSUME NEW t \in Threads, NEW d \in BOOLEAN, IssueSave(t, d) PROVE Forgotten'
  BY <1>20 DEF IssueSave, Done, Goto
<1>21. ASSUME NEW t \in Threads, StoreError(t) PROVE Forgotten'
  BY <1>21 DEF StoreError, Release, Done, Goto
<1>22. ASSUME NEW c \in PairCodes, PairRotate(c) PROVE Forgotten'
  BY <1>22 DEF PairRotate, Rotate
<1>23. ASSUME NEW n \in Names, NEW b \in Binding, NEW c \in PairCodes,
              PairAdd(n, b, c) PROVE Forgotten'
  <2>1. [code |-> c, binding |-> b] # Absent
    BY AbsentNoPrincipal
  <2> QED
    BY <1>23, <2>1 DEF PairAdd
<1>24. ASSUME NEW n \in Names, PairRemove(n) PROVE Forgotten'
  BY <1>24 DEF PairRemove, MayOperate
<1>25. ASSUME SweepLoad PROVE Forgotten'
  <2> DEFINE m == sweep.name
  <2>1. m \in Names
    BY <1>25 DEF SweepLoad
  <2>2. /\ UNCHANGED <<refresh, refreshBuf, codes, principals, tokens, pc, local, now>>
        /\ sweep # Absent /\ sweep.step = "load"
    BY <1>25 DEF SweepLoad
  <2>3. CASE OwnedBy(m, refresh) = {}
    <3>1. RemovalEnds(m) /\ sweep' = Absent
      BY <1>25, <2>3 DEF SweepLoad
    <3>2. \A r \in RefreshTokens : refresh[r] # Absent => refresh[r].principal.name # m
      BY <2>3 DEF OwnedBy
    <3>3. \A tok \in tokens : tok.exp <= now + TokenTTL
      BY DEF TokenAges
    <3>4. QED
      BY <2>1, <2>2, <3>1, <3>2, <3>3, Ended
  <2>4. CASE OwnedBy(m, refresh) # {}
    BY <1>25, <2>1, <2>2, <2>4 DEF SweepLoad, OwnedBy
  <2>5. QED
    BY <2>3, <2>4
<1>26. ASSUME SweepSave PROVE Forgotten'
  <2> DEFINE m == sweep.name
  <2>1. /\ m \in Names /\ RemovalEnds(m) /\ sweep' = Absent /\ refresh' = sweep.buf
        /\ UNCHANGED <<refreshBuf, codes, principals, tokens, pc, local, now>>
        /\ sweep # Absent /\ sweep.step = "save"
    BY <1>26 DEF SweepSave
  <2>2. \A tok \in tokens : tok.exp <= now + TokenTTL
    BY DEF TokenAges
  <2>3. QED
    BY <2>1, <2>2, Ended
<1>27. ASSUME SweepError PROVE Forgotten'
  BY <1>27 DEF SweepError
<1>28. ASSUME PairReset PROVE Forgotten'
  BY <1>28 DEF PairReset, MayOperate
<1>29. ASSUME Tick PROVE Forgotten'
  BY <1>29 DEF Tick
<1>30. CASE UNCHANGED vars
  BY <1>30 DEF vars
<1> HIDE <1>0, NameAssumption DEF Forgotten
<1> QED
  BY <1>1, <1>2, <1>3, <1>4, <1>5, <1>6, <1>7, <1>8, <1>9, <1>10, <1>11, <1>12, <1>13,
     <1>14, <1>15, <1>16, <1>17, <1>18, <1>19, <1>20, <1>21, <1>22, <1>23, <1>24,
     <1>25, <1>26, <1>27, <1>28, <1>29, <1>30
     DEF Next, Boot, Request, Continue, Operator

-----------------------------------------------------------------------------
(***************************************************************************)
(* Registration and reset                                                  *)
(***************************************************************************)

\* A client that is on file, or was served when it was wiped.
Known(c) == clients[c] # Absent \/ c \in estranged

\* ClientsKnown for the copies in flight as well; a registration being saved
\* keeps every client that is on file.
Registrations ==
  /\ ClientsKnown
  /\ \A r \in RefreshTokens :
       refreshBuf[r] # Absent => Known(refreshBuf[r].client)
  /\ sweep # Absent /\ sweep.step = "save" =>
       \A r \in RefreshTokens :
         sweep.buf[r] # Absent => Known(sweep.buf[r].client)
  /\ \A t \in Threads :
       /\ pc[t] \in {"code", "rotate"} => Known(local[t].client)
       /\ pc[t] = "match" => Known(local[t].params.client)
       /\ pc[t] \in {"approve", "exchange"} => Known(local[t].grant.client)
       /\ pc[t] \in {"issue", "put"} => Known(local[t].token.grant.client)
       /\ pc[t] = "register" =>
            \A c \in Clients : clients[c] # Absent => clientsBuf[c] # Absent
  /\ \A c \in Clients : clients[c] # Absent \/ clientsBuf[c] # Absent => c \in drawn

NoneEstranged == estranged = {}

\* A server never boots with a wiped key, and cannot draw one again.
KeysFresh ==
  /\ signingKey \notin retired
  /\ phase # "down" /\ key \in retired => outlived
  /\ retired \subseteq drawn
  /\ signingKey # Absent => signingKey \in drawn

\* A client leaves the registry only in a reset, which takes the stored credentials
\* with it and marks the clients of those in the server's memory.
LEMMA RegistrationsStep ==
  TypeOK /\ MutexHeld /\ Registrations /\ [Next]_vars => Registrations'
<1> SUFFICES ASSUME TypeOK, MutexHeld, Registrations, [Next]_vars PROVE Registrations'
  OBVIOUS
<1>0. /\ pc \in [Threads -> Label] /\ local \in [Threads -> Local \cup {Absent}]
      /\ refresh \in RefreshMap /\ refreshBuf \in RefreshMap
      /\ refreshMu \in Threads \cup {Absent}
      /\ clients \in ClientMap /\ clientsBuf \in ClientMap
      /\ codes \in [AuthCodes -> AuthGrant \cup {Absent}]
      /\ \A t \in Threads : pc[t] # "idle" => phase = "up"
  BY DEF TypeOK
<1>a. /\ \A r \in RefreshTokens :
           /\ refresh[r] # Absent => refresh[r].client \in Clients
           /\ refreshBuf[r] # Absent => refreshBuf[r].client \in Clients
      /\ \A c \in AuthCodes : codes[c] # Absent => codes[c].grant.client \in Clients
  BY <1>0 DEF RefreshMap, AuthGrant, Grant
<1>b. \A t \in Threads :
        /\ pc[t] \in {"code", "rotate"} => local[t].client \in Clients
        /\ pc[t] = "match" => local[t].params.client \in Clients
        /\ pc[t] = "approve" => local[t].grant.client \in Clients
        /\ pc[t] = "exchange" => local[t].grant.client \in Clients
        /\ pc[t] \in {"issue", "put"} => /\ local[t].token.grant.client \in Clients
                                         /\ local[t].next \in RefreshTokens
  BY DEF TypeOK, AuthParams, Matching, Approved, Exchanging, Issuing, Token, Grant
<1>c. sweep # Absent /\ sweep.step = "save" =>
        \A r \in RefreshTokens :
          sweep.buf[r] # Absent => sweep.buf[r].client \in Clients
  BY DEF TypeOK, RefreshMap, Grant
<1> USE <1>0, <1>a, <1>b, <1>c
    DEF MutexHeld, Registrations, ClientsKnown, Known, Label, RefreshMap, ClientMap,
        NoRefresh, NoCodes, NoClients, store, locks, world, history, marks
<1>1. ASSUME LoadKey PROVE Registrations'
  BY <1>1 DEF LoadKey, MayBoot
<1>2. ASSUME NEW k \in SigningKeys, CreateKey(k) PROVE Registrations'
  BY <1>2 DEF CreateKey, MayBoot
<1>3. ASSUME BootReadCode PROVE Registrations'
  BY <1>3 DEF BootReadCode
<1>4. ASSUME NEW c \in PairCodes, BootRotate(c) PROVE Registrations'
  BY <1>4 DEF BootRotate, Rotate
<1>5. ASSUME Crash PROVE Registrations'
  BY <1>5 DEF Crash, Idle, NoLocals, NoCodes, NoRefresh
<1>6. ASSUME NEW t \in Threads, NEW c \in Clients, NEW uris \in SUBSET Redirects,
             Register(t, c, uris) PROVE Registrations'
  BY <1>6 DEF Register, Start, Goto
<1>7. ASSUME NEW t \in Threads, RegisterSave(t) PROVE Registrations'
  BY <1>7 DEF RegisterSave, Done, Goto
<1>8. ASSUME NEW t \in Threads, NEW p \in AuthParams, Authorize(t, p)
      PROVE Registrations'
  BY <1>8 DEF Authorize, Start, Goto
<1>9. ASSUME NEW t \in Threads, ReadCode(t) PROVE Registrations'
  BY <1>9 DEF ReadCode, Goto
<1>10. ASSUME NEW t \in Threads, NEW c \in PairCodes, RotateCode(t, c)
       PROVE Registrations'
  BY <1>10 DEF RotateCode, Rotate, Done, Goto
<1>11. ASSUME NEW t \in Threads, MatchShared(t) PROVE Registrations'
  BY <1>11 DEF MatchShared, Approve, Goto, GrantFor
<1>12. ASSUME NEW t \in Threads, NEW n \in Names, MatchNamed(t, n)
       PROVE Registrations'
  BY <1>12 DEF MatchNamed, Approve, Goto, GrantFor
<1>13. ASSUME NEW t \in Threads, MatchNone(t) PROVE Registrations'
  BY <1>13 DEF MatchNone, Done, Goto
<1>14. ASSUME NEW t \in Threads, NEW c \in AuthCodes, IssueCode(t, c)
       PROVE Registrations'
  BY <1>14 DEF IssueCode, Done, Goto
<1>15. ASSUME NEW t \in Threads, NEW c \in AuthCodes, NEW cid \in Clients,
              NEW uri \in Redirects, NEW v \in Verifiers, NEW r \in RefreshTokens,
              RedeemCode(t, c, cid, uri, v, r) PROVE Registrations'
  BY <1>15 DEF RedeemCode, Start, Goto, Mint
<1>16. ASSUME NEW c \in AuthCodes, NEW cid \in Clients, NEW uri \in Redirects,
              NEW v \in Verifiers, BurnCode(c, cid, uri, v) PROVE Registrations'
  BY <1>16 DEF BurnCode
<1>17. ASSUME NEW t \in Threads, NEW r \in RefreshTokens, NEW r2 \in RefreshTokens,
              NEW cid \in Clients \cup {Absent}, Exchange(t, r, cid, r2)
       PROVE Registrations'
  BY <1>17 DEF Exchange, Start, Goto
<1>18. ASSUME NEW t \in Threads, ExchangeSave(t) PROVE Registrations'
  BY <1>18 DEF ExchangeSave, Done, Goto, Mint
<1>19. ASSUME NEW t \in Threads, Issue(t) PROVE Registrations'
  BY <1>19 DEF Issue, Goto
<1>20. ASSUME NEW t \in Threads, NEW d \in BOOLEAN, IssueSave(t, d)
       PROVE Registrations'
  BY <1>20 DEF IssueSave, Done, Goto
<1>21. ASSUME NEW t \in Threads, StoreError(t) PROVE Registrations'
  BY <1>21 DEF StoreError, Release, Done, Goto
<1>22. ASSUME NEW c \in PairCodes, PairRotate(c) PROVE Registrations'
  BY <1>22 DEF PairRotate, Rotate
<1>23. ASSUME NEW n \in Names, NEW b \in Binding, NEW c \in PairCodes,
              PairAdd(n, b, c) PROVE Registrations'
  BY <1>23 DEF PairAdd
<1>24. ASSUME NEW n \in Names, PairRemove(n) PROVE Registrations'
  BY <1>24 DEF PairRemove, MayOperate
<1>25. ASSUME SweepLoad PROVE Registrations'
  BY <1>25 DEF SweepLoad, OwnedBy
<1>26. ASSUME SweepSave PROVE Registrations'
  BY <1>26 DEF SweepSave
<1>27. ASSUME SweepError PROVE Registrations'
  BY <1>27 DEF SweepError
<1>28. ASSUME PairReset PROVE Registrations'
  <2>1. /\ refresh' = NoRefresh /\ clients' = NoClients /\ sweep' = Absent
        /\ estranged' = estranged \cup ServedClients
        /\ UNCHANGED <<codes, refreshBuf, clientsBuf, pc, local, drawn>>
    BY <1>28 DEF PairReset, MayOperate, ServedAtReset
  <2>2. /\ \A c \in AuthCodes : codes[c] # Absent => codes[c].grant.client \in ServedClients
        /\ \A r \in RefreshTokens :
             refreshBuf[r] # Absent => refreshBuf[r].client \in ServedClients
        /\ \A t \in Threads :
             /\ pc[t] \in {"code", "rotate"} => local[t].client \in ServedClients
             /\ pc[t] = "match" => local[t].params.client \in ServedClients
    BY DEF ServedClients
  <2>3. \A t \in Threads :
          /\ pc[t] \in {"approve", "exchange"} => local[t].grant.client \in ServedClients
          /\ pc[t] \in {"issue", "put"} => local[t].token.grant.client \in ServedClients
    <3>1. \A t \in Threads :
            /\ pc[t] \in {"approve", "exchange"} => local[t].grant \in Carried(t)
            /\ pc[t] \in {"issue", "put"} => local[t].token.grant \in Carried(t)
      BY DEF Carried
    <3>2. \A t \in Threads : \A g \in Carried(t) : g.client \in ServedClients
      BY DEF ServedClients
    <3>3. QED
      BY <3>1, <3>2
  <2>4. QED
    BY <2>1, <2>2, <2>3
<1>29. ASSUME Tick PROVE Registrations'
  BY <1>29 DEF Tick
<1>30. CASE UNCHANGED vars
  BY <1>30 DEF vars
<1> HIDE DEF MutexHeld, Registrations
<1> QED
  BY <1>1, <1>2, <1>3, <1>4, <1>5, <1>6, <1>7, <1>8, <1>9, <1>10, <1>11, <1>12, <1>13,
     <1>14, <1>15, <1>16, <1>17, <1>18, <1>19, <1>20, <1>21, <1>22, <1>23, <1>24,
     <1>25, <1>26, <1>27, <1>28, <1>29, <1>30
     DEF Next, Boot, Request, Continue, Operator

\* A reset of a stopped server finds no client served.
LEMMA EstrangedStep ==
  ASSUME ResetOffline
  PROVE  TypeOK /\ MutexHeld /\ ServerDown /\ NoneEstranged /\ [Next]_vars
           => NoneEstranged'
<1> SUFFICES ASSUME TypeOK, MutexHeld, ServerDown, NoneEstranged, [Next]_vars
             PROVE  estranged' = {}
  BY DEF NoneEstranged
<1>0. estranged = {}
  BY DEF NoneEstranged
<1>1. CASE PairReset
  <2>1. phase = "down"
    BY <1>1 DEF PairReset, MayOperate, ResetOffline
  <2>2. \A t \in Threads : pc[t] = "idle"
    BY <2>1 DEF TypeOK
  <2>3. refreshBuf = NoRefresh
    <3>1. refreshMu \notin Threads
      BY <2>2 DEF MutexHeld
    <3>2. QED
      BY <3>1 DEF MutexHeld, TypeOK
  <2>4. ServedClients = {}
    BY <2>1, <2>2, <2>3 DEF ServedClients, Carried, ServerDown, NoCodes, NoRefresh
  <2>5. QED
    BY <1>0, <1>1, <2>4 DEF PairReset, ServedAtReset
<1>2. CASE Boot \/ Crash \/ Tick
  BY <1>0, <1>2 DEF Boot, LoadKey, CreateKey, BootReadCode, BootRotate, Crash, Tick, marks
<1>3. ASSUME NEW t \in Threads, Request(t) PROVE UNCHANGED estranged
  BY <1>3 DEF Request, Register, Authorize, RedeemCode, Exchange, marks
<1>4. ASSUME NEW t \in Threads, Continue(t) PROVE UNCHANGED estranged
  BY <1>4 DEF Continue, RegisterSave, ReadCode, RotateCode, MatchShared, MatchNamed, Approve,
       MatchNone, IssueCode, ExchangeSave, IssueSave, marks
<1>5. ASSUME NEW t \in Threads, Issue(t) \/ StoreError(t) PROVE UNCHANGED estranged
  BY <1>5 DEF Issue, StoreError, marks
<1>6. ASSUME Operator, ~ PairReset PROVE UNCHANGED estranged
  BY <1>6 DEF Operator, PairRotate, PairAdd, PairRemove, SweepLoad, SweepSave, SweepError, marks
<1>7. ASSUME NEW c \in AuthCodes, NEW cid \in Clients, NEW uri \in Redirects,
             NEW v \in Verifiers, BurnCode(c, cid, uri, v) PROVE UNCHANGED estranged
  BY <1>7 DEF BurnCode, marks
<1>8. CASE UNCHANGED vars
  BY <1>0, <1>8 DEF vars, marks
<1>9. QED
  BY <1>0, <1>1, <1>2, <1>3, <1>4, <1>5, <1>6, <1>7, <1>8 DEF Next

\* The key is drawn fresh after a reset, and only the server that ran has the old one.
LEMMA KeysStep == TypeOK /\ KeysFresh /\ [Next]_vars => KeysFresh'
<1> SUFFICES ASSUME TypeOK, KeysFresh, [Next]_vars PROVE KeysFresh'
  OBVIOUS
<1>0. Absent \notin retired /\ \A t \in Threads : pc[t] # "idle" => phase = "up"
  BY DEF TypeOK
<1> USE <1>0 DEF KeysFresh, store, locks, world, history, marks
<1>1. ASSUME LoadKey PROVE KeysFresh'
  BY <1>1 DEF LoadKey, MayBoot
<1>2. ASSUME NEW k \in SigningKeys, CreateKey(k) PROVE KeysFresh'
  BY <1>2 DEF CreateKey, MayBoot
<1>3. ASSUME BootReadCode PROVE KeysFresh'
  BY <1>3 DEF BootReadCode
<1>4. ASSUME NEW c \in PairCodes, BootRotate(c) PROVE KeysFresh'
  BY <1>4 DEF BootRotate, Rotate
<1>5. ASSUME Crash PROVE KeysFresh'
  BY <1>5 DEF Crash, Idle, NoLocals, NoCodes, NoRefresh
<1>6. ASSUME NEW t \in Threads, NEW c \in Clients, NEW uris \in SUBSET Redirects,
             Register(t, c, uris) PROVE KeysFresh'
  BY <1>6 DEF Register, Start, Goto
<1>7. ASSUME NEW t \in Threads, RegisterSave(t) PROVE KeysFresh'
  BY <1>7 DEF RegisterSave, Done, Goto
<1>8. ASSUME NEW t \in Threads, NEW p \in AuthParams, Authorize(t, p) PROVE KeysFresh'
  BY <1>8 DEF Authorize, Start, Goto
<1>9. ASSUME NEW t \in Threads, ReadCode(t) PROVE KeysFresh'
  BY <1>9 DEF ReadCode, Goto
<1>10. ASSUME NEW t \in Threads, NEW c \in PairCodes, RotateCode(t, c)
       PROVE KeysFresh'
  BY <1>10 DEF RotateCode, Rotate, Done, Goto
<1>11. ASSUME NEW t \in Threads, MatchShared(t) PROVE KeysFresh'
  BY <1>11 DEF MatchShared, Approve, Goto
<1>12. ASSUME NEW t \in Threads, NEW n \in Names, MatchNamed(t, n) PROVE KeysFresh'
  BY <1>12 DEF MatchNamed, Approve, Goto
<1>13. ASSUME NEW t \in Threads, MatchNone(t) PROVE KeysFresh'
  BY <1>13 DEF MatchNone, Done, Goto
<1>14. ASSUME NEW t \in Threads, NEW c \in AuthCodes, IssueCode(t, c) PROVE KeysFresh'
  BY <1>14 DEF IssueCode, Done, Goto
<1>15. ASSUME NEW t \in Threads, NEW c \in AuthCodes, NEW cid \in Clients,
              NEW uri \in Redirects, NEW v \in Verifiers, NEW r \in RefreshTokens,
              RedeemCode(t, c, cid, uri, v, r) PROVE KeysFresh'
  BY <1>15 DEF RedeemCode, Start, Goto
<1>16. ASSUME NEW c \in AuthCodes, NEW cid \in Clients, NEW uri \in Redirects,
              NEW v \in Verifiers, BurnCode(c, cid, uri, v) PROVE KeysFresh'
  BY <1>16 DEF BurnCode
<1>17. ASSUME NEW t \in Threads, NEW r \in RefreshTokens, NEW r2 \in RefreshTokens,
              NEW cid \in Clients \cup {Absent}, Exchange(t, r, cid, r2)
       PROVE KeysFresh'
  BY <1>17 DEF Exchange, Start, Goto
<1>18. ASSUME NEW t \in Threads, ExchangeSave(t) PROVE KeysFresh'
  BY <1>18 DEF ExchangeSave, Done, Goto
<1>19. ASSUME NEW t \in Threads, Issue(t) PROVE KeysFresh'
  BY <1>19 DEF Issue, Goto
<1>20. ASSUME NEW t \in Threads, NEW d \in BOOLEAN, IssueSave(t, d) PROVE KeysFresh'
  BY <1>20 DEF IssueSave, Done, Goto
<1>21. ASSUME NEW t \in Threads, StoreError(t) PROVE KeysFresh'
  BY <1>21 DEF StoreError, Release, Done, Goto
<1>22. ASSUME NEW c \in PairCodes, PairRotate(c) PROVE KeysFresh'
  BY <1>22 DEF PairRotate, Rotate
<1>23. ASSUME NEW n \in Names, NEW b \in Binding, NEW c \in PairCodes,
              PairAdd(n, b, c) PROVE KeysFresh'
  BY <1>23 DEF PairAdd
<1>24. ASSUME NEW n \in Names, PairRemove(n) PROVE KeysFresh'
  BY <1>24 DEF PairRemove, MayOperate
<1>25. ASSUME SweepLoad PROVE KeysFresh'
  BY <1>25 DEF SweepLoad, OwnedBy
<1>26. ASSUME SweepSave PROVE KeysFresh'
  BY <1>26 DEF SweepSave
<1>27. ASSUME SweepError PROVE KeysFresh'
  BY <1>27 DEF SweepError
<1>28. ASSUME PairReset PROVE KeysFresh'
  <2>1. Absent \notin SigningKeys /\ signingKey \in SigningKeys \cup {Absent}
    BY DEF TypeOK
  <2>2. QED
    BY <1>28, <2>1 DEF PairReset, MayOperate, ServedAtReset
<1>29. ASSUME Tick PROVE KeysFresh'
  BY <1>29 DEF Tick
<1>30. CASE UNCHANGED vars
  BY <1>30 DEF vars
<1> HIDE <1>0 DEF KeysFresh
<1> QED
  BY <1>1, <1>2, <1>3, <1>4, <1>5, <1>6, <1>7, <1>8, <1>9, <1>10, <1>11, <1>12, <1>13,
     <1>14, <1>15, <1>16, <1>17, <1>18, <1>19, <1>20, <1>21, <1>22, <1>23, <1>24,
     <1>25, <1>26, <1>27, <1>28, <1>29, <1>30
     DEF Next, Boot, Request, Continue, Operator

-----------------------------------------------------------------------------
(***************************************************************************)
(* The authority                                                           *)
(***************************************************************************)

\* What a handler or an offline sweep is about to save is its own change to the
\* document as it is now: no save undoes another.  A handler about to issue a
\* code speaks for a principal that is enrolled, a sweep for one that is not.
Current ==
  /\ \A t \in Threads : pc[t] = "exchange" =>
       /\ refresh[local[t].from] = local[t].grant
       /\ refreshBuf = [refresh EXCEPT ![local[t].from] = Absent]
  /\ \A t \in Threads : pc[t] = "put" =>
       refreshBuf = [refresh EXCEPT ![local[t].next] = local[t].token.grant]
  /\ \A t \in Threads : pc[t] = "register" =>
       \E c \in Clients : /\ clientsBuf[c] # Absent
                          /\ \A d \in Clients \ {c} : clientsBuf[d] = clients[d]
  /\ \A t \in Threads : pc[t] = "approve" =>
       LET n == local[t].grant.principal.name IN n = NoName \/ principals[n] # Absent
  /\ sweep # Absent => principals[sweep.name] = Absent
  /\ sweep # Absent /\ sweep.step = "save" =>
       sweep.buf = [r \in RefreshTokens |->
                      IF refresh[r] # Absent /\ refresh[r].principal.name = sweep.name
                      THEN Absent ELSE refresh[r]]

\* Only the holder of a mutex saves, and an offline command finds no handler.
LEMMA CurrentStep ==
  ASSUME RemoveOffline, ResetOffline
  PROVE  TypeOK /\ MutexHeld /\ SweepOffline /\ Current /\ [Next]_vars => Current'
<1> SUFFICES ASSUME TypeOK, MutexHeld, SweepOffline, Current, [Next]_vars
             PROVE  Current'
  OBVIOUS
<1>0. /\ pc \in [Threads -> Label] /\ local \in [Threads -> Local \cup {Absent}]
      /\ refresh \in RefreshMap /\ refreshBuf \in RefreshMap
      /\ clients \in ClientMap /\ clientsBuf \in ClientMap
      /\ principals \in PrincipalMap
      /\ \A t \in Threads : pc[t] # "idle" => phase = "up"
      /\ sweep # Absent => sweep.name \in Names
      /\ \A t \in Threads : pc[t] \in {"issue", "put"} => local[t].next \in RefreshTokens
      /\ \A t \in Threads : pc[t] = "exchange" => local[t].from \in RefreshTokens
      /\ \A t \in Threads :
           pc[t] = "approve" => local[t].grant.principal.name \in Names \cup {NoName}
  BY DEF TypeOK, Exchanging, Issuing, Approved, Grant, Principal
<1>a. sweep # Absent => phase = "down"
  BY DEF SweepOffline
<1> USE <1>0, <1>a DEF MutexHeld, Current, Label, RefreshMap, ClientMap, PrincipalMap,
        NoRefresh, NoClients, RemoveOffline, ResetOffline, store, locks, world, history
<1>1. ASSUME LoadKey PROVE Current'
  BY <1>1 DEF LoadKey, MayBoot
<1>2. ASSUME NEW k \in SigningKeys, CreateKey(k) PROVE Current'
  BY <1>2 DEF CreateKey, MayBoot
<1>3. ASSUME BootReadCode PROVE Current'
  BY <1>3 DEF BootReadCode
<1>4. ASSUME NEW c \in PairCodes, BootRotate(c) PROVE Current'
  BY <1>4 DEF BootRotate, Rotate
<1>5. ASSUME Crash PROVE Current'
  BY <1>5 DEF Crash, Idle, NoLocals
<1>6. ASSUME NEW t \in Threads, NEW c \in Clients, NEW uris \in SUBSET Redirects,
             Register(t, c, uris) PROVE Current'
  <2>1. uris # Absent
    BY AbsentNoEntry
  <2> QED
    BY <1>6, <2>1 DEF Register, Start, Goto
<1>7. ASSUME NEW t \in Threads, RegisterSave(t) PROVE Current'
  BY <1>7 DEF RegisterSave, Done, Goto
<1>8. ASSUME NEW t \in Threads, NEW p \in AuthParams, Authorize(t, p) PROVE Current'
  BY <1>8 DEF Authorize, Start, Goto
<1>9. ASSUME NEW t \in Threads, ReadCode(t) PROVE Current'
  BY <1>9 DEF ReadCode, Goto
<1>10. ASSUME NEW t \in Threads, NEW c \in PairCodes, RotateCode(t, c) PROVE Current'
  BY <1>10 DEF RotateCode, Rotate, Done, Goto
<1>11. ASSUME NEW t \in Threads, MatchShared(t) PROVE Current'
  <2>1. /\ pc' = [pc EXCEPT ![t] = "approve"] /\ local'[t].grant.principal = Anonymous
        /\ pc[t] = "match" /\ \A u \in Threads \ {t} : local'[u] = local[u]
        /\ UNCHANGED <<store, locks, sweep>>
    BY <1>11 DEF MatchShared, Approve, Goto, GrantFor
  <2>2. local'[t].grant.principal.name = NoName
    BY <2>1 DEF Anonymous
  <2> QED
    BY <2>1, <2>2
<1>12. ASSUME NEW t \in Threads, NEW n \in Names, MatchNamed(t, n) PROVE Current'
  <2>1. /\ pc' = [pc EXCEPT ![t] = "approve"] /\ local'[t].grant.principal.name = n
        /\ pc[t] = "match" /\ \A u \in Threads \ {t} : local'[u] = local[u]
        /\ principals[n] # Absent /\ UNCHANGED <<store, locks, sweep>>
    BY <1>12 DEF MatchNamed, Approve, Goto, GrantFor
  <2> QED
    BY <2>1
<1>13. ASSUME NEW t \in Threads, MatchNone(t) PROVE Current'
  BY <1>13 DEF MatchNone, Done, Goto
<1>14. ASSUME NEW t \in Threads, NEW c \in AuthCodes, IssueCode(t, c) PROVE Current'
  BY <1>14 DEF IssueCode, Done, Goto
<1>15. ASSUME NEW t \in Threads, NEW c \in AuthCodes, NEW cid \in Clients,
              NEW uri \in Redirects, NEW v \in Verifiers, NEW r \in RefreshTokens,
              RedeemCode(t, c, cid, uri, v, r) PROVE Current'
  BY <1>15 DEF RedeemCode, Start, Goto, Mint
<1>16. ASSUME NEW c \in AuthCodes, NEW cid \in Clients, NEW uri \in Redirects,
              NEW v \in Verifiers, BurnCode(c, cid, uri, v) PROVE Current'
  BY <1>16 DEF BurnCode
<1>17. ASSUME NEW t \in Threads, NEW r \in RefreshTokens, NEW r2 \in RefreshTokens,
              NEW cid \in Clients \cup {Absent}, Exchange(t, r, cid, r2) PROVE Current'
  <2>1. /\ pc[t] = "idle" /\ refreshMu = Absent /\ phase = "up"
        /\ UNCHANGED <<refresh, clients, clientsBuf, principals, sweep>>
        /\ refreshBuf' = [refresh EXCEPT ![r] = Absent]
    BY <1>17 DEF Exchange, Start
  <2>2. /\ pc'[t] = "exchange" /\ local'[t].from = r /\ local'[t].grant = refresh[r]
        /\ \A u \in Threads \ {t} : pc'[u] = pc[u] /\ local'[u] = local[u]
    BY <1>17 DEF Exchange, Goto
  <2>3. \A u \in Threads : pc[u] \notin {"exchange", "put"}
    BY <2>1
  <2>4. ASSUME NEW u \in Threads
        PROVE  /\ pc'[u] = "exchange" =>
                    /\ u = t /\ refresh'[local'[u].from] = local'[u].grant
                    /\ refreshBuf' = [refresh' EXCEPT ![local'[u].from] = Absent]
               /\ pc'[u] # "put"
    BY <2>1, <2>2, <2>3
  <2>5. sweep' = Absent
    BY <2>1
  <2>6. ASSUME NEW u \in Threads, pc'[u] = "register"
        PROVE  \E c \in Clients : /\ clientsBuf'[c] # Absent
                                  /\ \A d \in Clients \ {c} : clientsBuf'[d] = clients'[d]
    BY <2>1, <2>2, <2>6
  <2>7. ASSUME NEW u \in Threads, pc'[u] = "approve"
        PROVE  \/ local'[u].grant.principal.name = NoName
               \/ principals'[local'[u].grant.principal.name] # Absent
    BY <2>1, <2>2, <2>7
  <2> HIDE <1>0, <1>a DEF MutexHeld
  <2> QED
    BY <2>4, <2>5, <2>6, <2>7
<1>18. ASSUME NEW t \in Threads, ExchangeSave(t) PROVE Current'
  <2>1. /\ pc[t] = "exchange" /\ refreshMu = t
        /\ UNCHANGED <<clients, clientsBuf, principals, sweep>>
    BY <1>18 DEF ExchangeSave
  <2>2. /\ pc'[t] \in {"issue", "idle"}
        /\ \A u \in Threads \ {t} : pc'[u] = pc[u] /\ local'[u] = local[u]
    BY <1>18 DEF ExchangeSave, Done, Goto
  <2>3. \A u \in Threads : pc'[u] \notin {"exchange", "put"}
    BY <2>1, <2>2
  <2>4. sweep' = Absent
    BY <2>1
  <2>5. ASSUME NEW u \in Threads, pc'[u] = "register"
        PROVE  \E c \in Clients : /\ clientsBuf'[c] # Absent
                                  /\ \A d \in Clients \ {c} : clientsBuf'[d] = clients'[d]
    BY <2>1, <2>2, <2>5
  <2>6. ASSUME NEW u \in Threads, pc'[u] = "approve"
        PROVE  \/ local'[u].grant.principal.name = NoName
               \/ principals'[local'[u].grant.principal.name] # Absent
    BY <2>1, <2>2, <2>6
  <2> HIDE <1>0, <1>a DEF MutexHeld
  <2> QED
    BY <2>3, <2>4, <2>5, <2>6
<1>19. ASSUME NEW t \in Threads, Issue(t) PROVE Current'
  <2>1. /\ pc[t] = "issue" /\ refreshMu = Absent
        /\ UNCHANGED <<refresh, clients, clientsBuf, principals, sweep>>
        /\ refreshBuf' = [refresh EXCEPT ![local[t].next] = local[t].token.grant]
    BY <1>19 DEF Issue
  <2>2. /\ pc'[t] = "put" /\ local'[t] = local[t]
        /\ \A u \in Threads \ {t} : pc'[u] = pc[u] /\ local'[u] = local[u]
    BY <1>19 DEF Issue, Goto
  <2>3. \A u \in Threads : pc[u] \notin {"exchange", "put"}
    BY <2>1
  <2>4. ASSUME NEW u \in Threads
        PROVE  /\ pc'[u] # "exchange"
               /\ pc'[u] = "put" =>
                    refreshBuf' = [refresh' EXCEPT
                                     ![local'[u].next] = local'[u].token.grant]
    BY <2>1, <2>2, <2>3
  <2>5. sweep' = Absent
    BY <2>1
  <2>6. ASSUME NEW u \in Threads, pc'[u] = "register"
        PROVE  \E c \in Clients : /\ clientsBuf'[c] # Absent
                                  /\ \A d \in Clients \ {c} : clientsBuf'[d] = clients'[d]
    BY <2>1, <2>2, <2>6
  <2>7. ASSUME NEW u \in Threads, pc'[u] = "approve"
        PROVE  \/ local'[u].grant.principal.name = NoName
               \/ principals'[local'[u].grant.principal.name] # Absent
    BY <2>1, <2>2, <2>7
  <2> HIDE <1>0, <1>a DEF MutexHeld
  <2> QED
    BY <2>4, <2>5, <2>6, <2>7
<1>20. ASSUME NEW t \in Threads, NEW d \in BOOLEAN, IssueSave(t, d) PROVE Current'
  BY <1>20 DEF IssueSave, Done, Goto
<1>21. ASSUME NEW t \in Threads, StoreError(t) PROVE Current'
  BY <1>21 DEF StoreError, Release, Done, Goto
<1>22. ASSUME NEW c \in PairCodes, PairRotate(c) PROVE Current'
  BY <1>22 DEF PairRotate, Rotate
<1>23. ASSUME NEW n \in Names, NEW b \in Binding, NEW c \in PairCodes, PairAdd(n, b, c)
       PROVE  Current'
  <2>1. [code |-> c, binding |-> b] # Absent
    BY AbsentNoPrincipal
  <2> QED
    BY <1>23, <2>1 DEF PairAdd, MayOperate
<1>24. ASSUME NEW n \in Names, PairRemove(n) PROVE Current'
  BY <1>24 DEF PairRemove, MayOperate
<1>25. ASSUME SweepLoad PROVE Current'
  BY <1>25 DEF SweepLoad, OwnedBy
<1>26. ASSUME SweepSave PROVE Current'
  BY <1>26 DEF SweepSave
<1>27. ASSUME SweepError PROVE Current'
  BY <1>27 DEF SweepError
<1>28. ASSUME PairReset PROVE Current'
  BY <1>28 DEF PairReset, MayOperate
<1>29. ASSUME Tick PROVE Current'
  BY <1>29 DEF Tick
<1>30. CASE UNCHANGED vars
  BY <1>30 DEF vars
<1> HIDE <1>0, <1>a DEF MutexHeld, Current
<1> QED
  BY <1>1, <1>2, <1>3, <1>4, <1>5, <1>6, <1>7, <1>8, <1>9, <1>10, <1>11, <1>12, <1>13,
     <1>14, <1>15, <1>16, <1>17, <1>18, <1>19, <1>20, <1>21, <1>22, <1>23, <1>24,
     <1>25, <1>26, <1>27, <1>28, <1>29, <1>30
     DEF Next, Boot, Request, Continue, Operator

\* What the mapping of a step needs of the state it starts in.
Standing ==
  /\ TypeOK /\ MutexHeld /\ ServerDown /\ SweepOffline /\ Successors
  /\ PendingCodes \subseteq drawn /\ TokenAges /\ Registrations /\ Current
  /\ NoneEstranged

\* The handlers at the labels L are the same as before, and so is what they carry.
Same(L) ==
  \A t \in Threads : (pc'[t] \in L <=> pc[t] \in L) /\ (pc[t] \in L => local'[t] = local[t])

\* No credential is drawn.
NoneDrawn == \A x \in AuthCodes \cup RefreshTokens : x \in drawn' <=> x \in drawn

\* The claims are those of the two documents that hold credentials.
LEMMA LiveKept == ASSUME UNCHANGED <<codes, refresh>> PROVE Live' = Live
  BY DEF Live, PendingCodes, StoredTokens

\* Principals and clients are those on file.
LEMMA FilesKept ==
  /\ UNCHANGED principals => Enrolled' = Enrolled
  /\ UNCHANGED clients => Registered' = Registered
  BY DEF Enrolled, Registered

\* Consents and claims on their way are those that handlers carry.
LEMMA ConsentsKept == ASSUME Same({"approve"}) PROVE Consents' = Consents
  BY DEF Same, Consents

LEMMA DueKept == ASSUME Same({"issue", "put"}) PROVE Due' = Due
  BY DEF Same, Due, GrantsInFlight

LEMMA ReservedKept == ASSUME Same({"exchange", "issue", "put"}) PROVE Reserved' = Reserved
  BY DEF Same, Reserved

\* A credential that is drawn is gone once no document and no handler has it.
LEMMA GoneKept ==
  ASSUME UNCHANGED <<codes, refresh>>, Reserved' = Reserved, NoneDrawn PROVE Gone' = Gone
  BY DEF Gone, NoneDrawn, PendingCodes, StoredTokens

\* A step that nobody outside can tell.
LEMMA Unseen ==
  ASSUME UNCHANGED <<codes, refresh, principals, clients, tokens, now>>, NoneDrawn,
         Same({"approve"}), Same({"issue", "put"}), Same({"exchange", "issue", "put"})
  PROVE  UNCHANGED A!avars
<1>1. Due' = Due /\ Consents' = Consents /\ Reserved' = Reserved
  BY DueKept, ConsentsKept, ReservedKept
<1>2. Gone' = Gone
  BY <1>1, GoneKept
<1> QED
  BY <1>1, <1>2, LiveKept, FilesKept DEF A!avars

\* Successors are refresh tokens, those on their way are among them.
LEMMA ReservedTokens ==
  ASSUME TypeOK
  PROVE  A!CredsOf(Due) \subseteq Reserved /\ Reserved \subseteq RefreshTokens
<1>1. \A t \in Threads : pc[t] \in {"exchange", "issue", "put"} =>
        local[t].next \in RefreshTokens
  BY DEF TypeOK, Exchanging, Issuing
<1> QED
  BY <1>1 DEF Reserved, A!CredsOf, Due, GrantsInFlight

\* The credentials of the claims, by where they are.
LEMMA Places ==
  /\ A!CredsOf(Live) = PendingCodes \cup StoredTokens
  /\ A!CredsOf(Due) = {local[t].next : t \in GrantsInFlight}
  /\ \A x : x \in Live => (x.cred \in StoredTokens \/ x.cred \in PendingCodes)
<1>1. \A c \in PendingCodes : \E x \in Live : x.cred = c
  <2> TAKE c \in PendingCodes
  <2>1. [cred |-> c, grant |-> codes[c].grant] \in Live
    BY DEF Live
  <2> QED
    BY <2>1
<1>2. \A c \in StoredTokens : \E x \in Live : x.cred = c
  <2> TAKE c \in StoredTokens
  <2>1. [cred |-> c, grant |-> refresh[c]] \in Live
    BY DEF Live
  <2> QED
    BY <2>1
<1>3. \A x \in Live : x.cred \in StoredTokens \/ x.cred \in PendingCodes
  BY DEF Live
<1>4. \A t \in GrantsInFlight : \E x \in Due : x.cred = local[t].next
  <2> TAKE t \in GrantsInFlight
  <2>1. [cred |-> local[t].next, grant |-> local[t].token.grant] \in Due
    BY DEF Due
  <2> QED
    BY <2>1
<1>5. \A x \in Due : \E t \in GrantsInFlight : x.cred = local[t].next
  BY DEF Due
<1>6. A!CredsOf(Live) = PendingCodes \cup StoredTokens
  BY <1>1, <1>2, <1>3 DEF A!CredsOf
<1>7. A!CredsOf(Due) = {local[t].next : t \in GrantsInFlight}
  BY <1>4, <1>5 DEF A!CredsOf
<1> QED
  BY <1>3, <1>6, <1>7

\* A stopped server has no request under way and no code pending.
LEMMA NothingInMemory ==
  ASSUME Standing, phase = "down"
  PROVE  /\ Consents = {} /\ Due = {} /\ Reserved = {} /\ PendingCodes = {}
         /\ \A t \in Threads : pc[t] = "idle"
<1>1. \A t \in Threads : pc[t] = "idle"
  BY DEF Standing, TypeOK
<1>2. PendingCodes = {}
  BY DEF Standing, ServerDown, PendingCodes, NoCodes
<1> QED
  BY <1>1, <1>2 DEF Consents, Due, GrantsInFlight, Reserved

\* A credential that is stored or drawn for a handler was drawn.
LEMMA NotDrawn ==
  ASSUME Standing, NEW c \in AuthCodes \cup RefreshTokens, c \notin drawn
  PROVE  c \notin PendingCodes \cup StoredTokens \cup Reserved /\ A!Fresh(c)
<1>1. Reserved \subseteq drawn
  BY DEF Reserved, Standing, Successors, Flying
<1>2. StoredTokens \subseteq drawn /\ PendingCodes \subseteq drawn
  BY DEF Standing, Successors, StoredTokens
<1>3. A!CredsOf(Live) \subseteq PendingCodes \cup StoredTokens
  BY DEF A!CredsOf, Live
<1>4. A!CredsOf(Live \cup Due) \subseteq drawn
  BY <1>1, <1>2, <1>3, ReservedTokens DEF A!CredsOf, Standing
<1> QED
  BY <1>1, <1>2, <1>4 DEF A!Fresh, Gone

\* The successor of a token being exchanged is nobody's yet.
LEMMA NextFresh ==
  ASSUME Standing, NEW t \in Threads, pc[t] = "exchange"
  PROVE  local[t].next \in RefreshTokens /\ A!Fresh(local[t].next)
<1> DEFINE c == local[t].next
<1>1. c \in RefreshTokens /\ c \in Reserved
  BY DEF Standing, TypeOK, Exchanging, Reserved
<1>2. refresh[c] = Absent /\ \A u \in GrantsInFlight : local[u].next # c
  BY DEF Standing, Successors, Flying, GrantsInFlight
<1>3. c \notin A!CredsOf(Live)
  BY <1>1, <1>2, KindAssumption DEF A!CredsOf, Live, PendingCodes, StoredTokens
<1>4. c \notin A!CredsOf(Due)
  BY <1>2 DEF A!CredsOf, Due
<1> QED
  BY <1>1, <1>3, <1>4 DEF A!Fresh, A!CredsOf, Gone

\* A pairing code matched: its owner consents.
LEMMA ApproveRefines ==
  ASSUME Standing, NEW t \in Threads, pc[t] = "match", NEW who \in Principal,
         who \in Enrolled \cup {Anonymous}, Approve(t, who)
  PROVE  A!ANext
<1> DEFINE p == local[t].params
           g == GrantFor(p, who)
<1>1. local[t] \in Matching /\ pc \in [Threads -> Label]
      /\ local \in [Threads -> Local \cup {Absent}]
  BY DEF Standing, TypeOK
<1>2. p \in AuthParams /\ p.client \in Clients /\ clients[p.client] # Absent
  BY <1>1 DEF Matching, AuthParams, Standing, Registrations, Known, NoneEstranged
<1>3. g \in Grant /\ g.client \in Registered /\ g.principal = who
  BY <1>2, GrantForType DEF GrantFor, Registered
<1>4. /\ pc' = [pc EXCEPT ![t] = "approve"] /\ local'[t].grant = g
      /\ \A u \in Threads \ {t} : local'[u] = local[u]
      /\ UNCHANGED <<codes, refresh, principals, clients, tokens, now, drawn>>
  BY <1>1 DEF Approve, Goto, store, world
<1> HIDE DEF p, g
<1>5. \A x \in Consents : x.session # t
  BY DEF Consents
<1>6. Consents' = Consents \cup {[session |-> t, grant |-> g]}
  BY <1>1, <1>4 DEF Consents
<1>7. Due' = Due /\ Reserved' = Reserved
  BY <1>1, <1>4, DueKept, ReservedKept DEF Same
<1>8. Gone' = Gone
  BY <1>4, <1>7, GoneKept DEF NoneDrawn
<1>9. A!Consent(t, g)
  BY <1>3, <1>4, <1>5, <1>6, <1>7, <1>8, LiveKept, FilesKept DEF A!Consent
<1> QED
  BY <1>3, <1>9 DEF A!ANext

\* The code that authorizeSubmit redirects with stands for that consent.
LEMMA IssueCodeRefines ==
  ASSUME Standing, NEW t \in Threads, NEW c \in AuthCodes, IssueCode(t, c)
  PROVE  A!ANext
<1> DEFINE g == local[t].grant
           x == [session |-> t, grant |-> g]
<1>1. /\ pc \in [Threads -> Label] /\ local \in [Threads -> Local \cup {Absent}]
      /\ codes \in [AuthCodes -> AuthGrant \cup {Absent}]
      /\ pc[t] = "approve" /\ local[t] \in Approved
      /\ principals \in PrincipalMap
  BY DEF Standing, TypeOK, IssueCode
<1>2. g \in Grant /\ g.principal.name \in Names \cup {NoName}
  BY <1>1 DEF Approved, Grant, Principal
<1>3. /\ pc' = [pc EXCEPT ![t] = "idle"]
      /\ \A u \in Threads \ {t} : local'[u] = local[u]
      /\ codes'[c] # Absent /\ codes'[c].grant = g
      /\ \A d \in AuthCodes \ {c} : codes'[d] = codes[d]
      /\ drawn' = drawn \cup {c} /\ c \notin drawn
      /\ UNCHANGED <<refresh, principals, clients, tokens, now>>
  <2>1. [grant |-> g, redirect |-> local[t].redirect, challenge |-> local[t].challenge,
         expiresAt |-> now + CodeTTL] \in AuthGrant
    BY <1>1, <1>2 DEF AuthGrant, Approved, Standing, TypeOK
  <2> QED
    BY <1>1, <2>1, AbsentNoEntry DEF IssueCode, Done, Goto, store, world
<1>4. x \in Consents /\ Consents' = Consents \ {x}
  BY <1>1, <1>3 DEF Consents
<1>5. c \notin RefreshTokens /\ c \notin PendingCodes /\ c \notin Reserved /\ A!Fresh(c)
  BY <1>3, NotDrawn, KindAssumption
<1>6. Due' = Due /\ Reserved' = Reserved
  BY <1>1, <1>3, DueKept, ReservedKept DEF Same
<1>7. Live' = Live \cup {[cred |-> c, grant |-> g]}
  BY <1>3, <1>5 DEF Live, PendingCodes, StoredTokens
<1>8. Gone' = Gone
  BY <1>3, <1>5, <1>6 DEF Gone, PendingCodes, StoredTokens
<1>9. g.principal.name \in {q.name : q \in Enrolled \cup {Anonymous}}
  <2>1. CASE g.principal.name = NoName
    <3>1. Anonymous.name = g.principal.name
      BY <2>1 DEF Anonymous
    <3> QED
      BY <3>1
  <2>2. CASE g.principal.name # NoName
    <3>1. g.principal.name \in Names /\ principals[g.principal.name] # Absent
      BY <1>1, <1>2, <2>2 DEF Standing, Current
    <3>2. PICK q \in Enrolled : q.name = g.principal.name
      <4> DEFINE q == [name |-> g.principal.name,
                       binding |-> principals[g.principal.name].binding]
      <4>1. q \in Enrolled /\ q.name = g.principal.name
        BY <3>1 DEF Enrolled
      <4> QED
        BY <4>1
    <3> QED
      BY <3>2
  <2> QED
    BY <2>1, <2>2
<1> HIDE DEF g
<1>10. A!Issue(x, c)
  BY <1>3, <1>4, <1>6, <1>7, <1>5, <1>8, <1>9, FilesKept DEF A!Issue
<1> HIDE DEF x
<1> QED
  BY <1>4, <1>10 DEF A!ANext

\* consume and issueTokens: the code is used, a refresh token will stand for it.
LEMMA RedeemRefines ==
  ASSUME Standing, NEW t \in Threads, NEW c \in AuthCodes, NEW cid \in Clients,
         NEW uri \in Redirects, NEW v \in Verifiers, NEW r \in RefreshTokens,
         RedeemCode(t, c, cid, uri, v, r)
  PROVE  A!ANext
<1> DEFINE g == codes[c].grant
           x == [cred |-> c, grant |-> g]
<1>1. /\ pc \in [Threads -> Label] /\ local \in [Threads -> Local \cup {Absent}]
      /\ codes \in [AuthCodes -> AuthGrant \cup {Absent}]
      /\ pc[t] = "idle" /\ codes[c] # Absent
  BY DEF Standing, TypeOK, RedeemCode, Start
<1>2. /\ pc' = [pc EXCEPT ![t] = "issue"]
      /\ local'[t].next = r /\ local'[t].token.grant = g
      /\ \A u \in Threads \ {t} : local'[u] = local[u]
      /\ codes' = [codes EXCEPT ![c] = Absent]
      /\ drawn' = drawn \cup {r} /\ r \notin drawn
      /\ UNCHANGED <<refresh, principals, clients, tokens, now>>
  BY <1>1 DEF RedeemCode, Goto, Mint, store, world
<1>3. /\ c \notin RefreshTokens /\ r \notin AuthCodes /\ c \in drawn /\ c \notin Reserved
      /\ r \notin PendingCodes \cup StoredTokens \cup Reserved /\ A!Fresh(r)
  BY <1>1, <1>2, NotDrawn, ReservedTokens, KindAssumption DEF PendingCodes, Standing
<1>4. Consents' = Consents
  BY <1>1, <1>2, ConsentsKept DEF Same
<1>5. Due' = Due \cup {[cred |-> r, grant |-> g]} /\ Reserved' = Reserved \cup {r}
  BY <1>1, <1>2 DEF Due, GrantsInFlight, Reserved
<1>6. x \in Live /\ Live' = Live \ {x}
  BY <1>1, <1>2, <1>3 DEF Live, PendingCodes, StoredTokens
<1>7. Gone' = Gone \cup {c}
  BY <1>1, <1>2, <1>3, <1>5 DEF Gone, PendingCodes, StoredTokens
<1> HIDE DEF g
<1>8. A!Use(x, r)
  BY <1>2, <1>3, <1>4, <1>5, <1>6, <1>7, FilesKept DEF A!Use
<1> HIDE DEF x
<1> QED
  BY <1>6, <1>8 DEF A!ANext

\* A code presented wrongly is consumed all the same.
LEMMA BurnRefines ==
  ASSUME Standing, NEW c \in AuthCodes, NEW cid \in Clients, NEW uri \in Redirects,
         NEW v \in Verifiers, BurnCode(c, cid, uri, v)
  PROVE  A!ANext
<1> DEFINE x == [cred |-> c, grant |-> codes[c].grant]
<1>1. /\ codes \in [AuthCodes -> AuthGrant \cup {Absent}] /\ codes[c] # Absent
      /\ codes' = [codes EXCEPT ![c] = Absent]
      /\ UNCHANGED <<refresh, principals, clients, tokens, now, drawn, pc, local>>
  BY DEF Standing, TypeOK, BurnCode, store, world, history
<1>2. c \notin RefreshTokens /\ c \in drawn /\ c \notin Reserved
  BY <1>1, ReservedTokens, KindAssumption DEF PendingCodes, Standing
<1>3. Due' = Due /\ Consents' = Consents /\ Reserved' = Reserved
  BY <1>1, DueKept, ConsentsKept, ReservedKept DEF Same
<1>4. x \in Live /\ Live' = Live \ {x}
  BY <1>1, <1>2 DEF Live, PendingCodes, StoredTokens
<1>5. Gone' = Gone \cup {x.cred} \cup {}
  BY <1>1, <1>2, <1>3 DEF Gone, PendingCodes, StoredTokens
<1> HIDE DEF x
<1>6. A!Bury({x.cred})
  BY <1>5 DEF A!Bury
<1>7. A!Refuse(x)
  BY <1>1, <1>3, <1>4, <1>6, FilesKept DEF A!Refuse
<1> QED
  BY <1>4, <1>7 DEF A!ANext

\* The save of an exchange: the token is used, or refused for a wrong client_id.
LEMMA ExchangeSaveRefines ==
  ASSUME Standing, NEW t \in Threads, ExchangeSave(t)
  PROVE  A!ANext
<1> DEFINE f == local[t].from
           r == local[t].next
           g == local[t].grant
           x == [cred |-> f, grant |-> g]
<1>1. /\ pc \in [Threads -> Label] /\ local \in [Threads -> Local \cup {Absent}]
      /\ refresh \in RefreshMap /\ pc[t] = "exchange" /\ local[t] \in Exchanging
  BY DEF Standing, TypeOK, ExchangeSave
<1>2. f \in RefreshTokens /\ r \in RefreshTokens /\ g \in Grant /\ A!Fresh(r)
  BY <1>1, NextFresh DEF Exchanging
<1>3. refresh[f] = g /\ refresh[f] # Absent /\ refresh' = [refresh EXCEPT ![f] = Absent]
  BY <1>1, <1>2, AbsentNoEntry DEF Standing, Current, ExchangeSave
<1>4. /\ f \notin AuthCodes /\ r \notin AuthCodes /\ f \in drawn /\ f # r /\ r \in drawn
      /\ \A u \in Threads : Flying(u) => local[u].next # f
      /\ \A u \in Threads \ {t} : Flying(u) => local[u].next # r
      /\ refresh[r] = Absent
  BY <1>1, <1>2, KindAssumption DEF Standing, Successors, Flying
<1>5. UNCHANGED <<codes, principals, clients, tokens, now, drawn>>
  BY DEF ExchangeSave, world
<1>6. x \in Live /\ Live' = Live \ {x}
  BY <1>1, <1>2, <1>3, <1>4, <1>5 DEF Live, PendingCodes, StoredTokens, RefreshMap
<1>7. CASE Goto(t, "issue", [token |-> Mint(g), next |-> r])
  <2>1. /\ pc' = [pc EXCEPT ![t] = "issue"]
        /\ local'[t].next = r /\ local'[t].token.grant = g
        /\ \A u \in Threads \ {t} : local'[u] = local[u]
    BY <1>1, <1>7 DEF Goto, Mint
  <2>2. Consents' = Consents
    BY <1>1, <2>1, ConsentsKept DEF Same
  <2>3. Due' = Due \cup {[cred |-> r, grant |-> g]} /\ Reserved' = Reserved
    BY <1>1, <2>1 DEF Due, GrantsInFlight, Reserved
  <2>4. f \notin Reserved
    BY <1>4 DEF Reserved, Flying
  <2>5. Gone' = Gone \cup {f}
    BY <1>1, <1>2, <1>3, <1>4, <1>5, <2>3, <2>4
       DEF Gone, PendingCodes, StoredTokens, RefreshMap
  <2> HIDE DEF f, g, r
  <2>6. A!Use(x, r)
    BY <1>2, <1>5, <1>6, <2>2, <2>3, <2>5, FilesKept DEF A!Use
  <2> HIDE DEF x
  <2> QED
    BY <1>2, <1>6, <2>6 DEF A!ANext
<1>8. CASE Done(t)
  <2>1. /\ pc' = [pc EXCEPT ![t] = "idle"]
        /\ \A u \in Threads \ {t} : local'[u] = local[u]
    BY <1>1, <1>8 DEF Done, Goto
  <2>2. Consents' = Consents /\ Due' = Due
    BY <1>1, <2>1, ConsentsKept, DueKept DEF Same
  <2>3. Reserved' = Reserved \ {r} /\ r \in Reserved /\ f \notin Reserved
    BY <1>1, <1>4, <2>1 DEF Reserved, Flying
  <2>4. Gone' = Gone \cup {f} \cup {r}
    BY <1>1, <1>2, <1>3, <1>4, <1>5, <2>3
       DEF Gone, PendingCodes, StoredTokens, RefreshMap
  <2>5. x.cred = f
    OBVIOUS
  <2> HIDE DEF f, g, r, x
  <2>6. A!Bury({x.cred})
    BY <1>2, <2>4, <2>5 DEF A!Bury
  <2>7. A!Refuse(x)
    BY <1>5, <1>6, <2>2, <2>6, FilesKept DEF A!Refuse
  <2> QED
    BY <1>6, <2>7 DEF A!ANext
<1> QED
  BY <1>7, <1>8 DEF ExchangeSave

\* The save of an issue: the claim reaches the client, or the response is lost.
LEMMA IssueSaveRefines ==
  ASSUME Standing, NEW t \in Threads, NEW d \in BOOLEAN, IssueSave(t, d)
  PROVE  A!ANext
<1> DEFINE r == local[t].next
           k == local[t].token
           x == [cred |-> r, grant |-> k.grant]
<1>1. /\ pc \in [Threads -> Label] /\ local \in [Threads -> Local \cup {Absent}]
      /\ refresh \in RefreshMap /\ pc[t] = "put" /\ local[t] \in Issuing
  BY DEF Standing, TypeOK, IssueSave
<1>2. /\ r \in RefreshTokens /\ k.exp <= now + TokenTTL
      /\ k.grant \in Grant /\ k.grant # Absent
  BY <1>1, AbsentNoEntry DEF Issuing, Token, Standing, TokenAges
<1>3. /\ r \in drawn /\ refresh[r] = Absent
      /\ \A u \in Threads \ {t} : Flying(u) => local[u].next # r
  BY <1>1 DEF Standing, Successors, Flying
<1>4. refresh' = [refresh EXCEPT ![r] = k.grant]
  BY <1>1 DEF Standing, Current, IssueSave
<1>5. /\ pc' = [pc EXCEPT ![t] = "idle"] /\ \A u \in Threads \ {t} : local'[u] = local[u]
      /\ tokens' \in {tokens, tokens \cup {k}}
      /\ UNCHANGED <<codes, principals, clients, now, drawn>>
  BY <1>1 DEF IssueSave, Done, Goto, history
<1>6. Consents' = Consents
  BY <1>1, <1>5, ConsentsKept DEF Same
<1>7. x \in Due /\ Due' = Due \ {x}
  BY <1>1, <1>3, <1>5 DEF Due, GrantsInFlight, Flying
<1>8. Reserved' = Reserved \ {r} /\ r \in Reserved
  BY <1>1, <1>3, <1>5 DEF Reserved, Flying
<1>9. Live' = Live \cup {x}
  BY <1>1, <1>2, <1>3, <1>4, <1>5 DEF Live, PendingCodes, StoredTokens, RefreshMap
<1>10. Gone' = Gone
  BY <1>1, <1>2, <1>3, <1>4, <1>5, <1>8 DEF Gone, PendingCodes, StoredTokens, RefreshMap
<1>11. x.grant = k.grant
  OBVIOUS
<1> HIDE DEF r, k, x
<1>12. A!Deliver(x)
  BY <1>2, <1>5, <1>6, <1>7, <1>9, <1>10, <1>11, FilesKept DEF A!Deliver
<1> QED
  BY <1>7, <1>12 DEF A!ANext

\* A store error: the claim on its way is lost, or the successor drawn for one.
LEMMA StoreErrorRefines ==
  ASSUME Standing, NEW t \in Threads, StoreError(t)
  PROVE  A!ANext \/ UNCHANGED A!avars
<1> DEFINE r == local[t].next
           x == [cred |-> r, grant |-> local[t].token.grant]
<1>1. /\ pc \in [Threads -> Label] /\ local \in [Threads -> Local \cup {Absent}]
      /\ pc[t] # "approve"
  BY DEF Standing, TypeOK, StoreError
<1>2. /\ pc' = [pc EXCEPT ![t] = "idle"] /\ \A u \in Threads \ {t} : local'[u] = local[u]
      /\ UNCHANGED <<codes, refresh, principals, clients, tokens, now, drawn>>
  BY <1>1 DEF StoreError, Done, Goto, store, world, history
<1>3. Consents' = Consents
  BY <1>1, <1>2, ConsentsKept DEF Same
<1>4. CASE ~ Flying(t)
  BY <1>1, <1>2, <1>4, Unseen DEF Same, NoneDrawn, Flying
<1>5. ASSUME Flying(t)
      PROVE  r \in RefreshTokens /\ Reserved' = Reserved \ {r} /\ Gone' = Gone \cup {r}
  <2>1. /\ r \in drawn /\ refresh[r] = Absent /\ r \in RefreshTokens /\ r \notin AuthCodes
        /\ \A u \in Threads \ {t} : Flying(u) => local[u].next # r
    BY <1>5, KindAssumption
       DEF Standing, Successors, Flying, TypeOK, Exchanging, Issuing
  <2>2. Reserved' = Reserved \ {r} /\ r \in Reserved
    BY <1>1, <1>2, <1>5, <2>1 DEF Reserved, Flying
  <2> QED
    BY <1>2, <2>1, <2>2 DEF Gone, PendingCodes, StoredTokens
<1>6. CASE pc[t] = "exchange"
  <2>1. Due' = Due
    BY <1>1, <1>2, <1>6, DueKept DEF Same
  <2>2. A!Fresh(r) /\ r \in RefreshTokens /\ Gone' = Gone \cup A!CredsOf({}) \cup {r}
    BY <1>5, <1>6, NextFresh DEF Flying, A!CredsOf
  <2> HIDE DEF r
  <2>3. A!Bury(A!CredsOf({}))
    BY <2>2 DEF A!Bury
  <2>4. A!Fail({})
    BY <1>2, <1>3, <2>1, <2>3, LiveKept, FilesKept DEF A!Fail
  <2> QED
    BY <2>4 DEF A!ANext
<1>7. CASE pc[t] \in {"issue", "put"}
  <2>1. x \in Due /\ Due' = Due \ {x}
    BY <1>1, <1>2, <1>7 DEF Due, GrantsInFlight, Standing, Successors, Flying
  <2>2. A!CredsOf({x}) = {r}
    BY DEF A!CredsOf
  <2>3. Gone' = Gone \cup A!CredsOf({x}) \cup {}
    BY <1>5, <1>7, <2>2 DEF Flying
  <2> HIDE DEF r, x
  <2>4. A!Bury(A!CredsOf({x}))
    BY <2>3 DEF A!Bury
  <2>5. A!Fail({x}) /\ {x} \in SUBSET Due
    BY <1>2, <1>3, <2>1, <2>4, LiveKept, FilesKept DEF A!Fail
  <2> QED
    BY <2>5 DEF A!ANext
<1> QED
  BY <1>4, <1>6, <1>7 DEF Flying

\* The process dies: the refresh tokens in the store are as live as before.
LEMMA CrashRefines == ASSUME Standing, Crash PROVE A!ANext
<1> DEFINE C == {local[t].next : t \in {u \in Threads : pc[u] = "exchange"}}
           D == A!CredsOf(Due \cup (Live \ Live'))
<1>1. /\ \A t \in Threads : pc'[t] = "idle"
      /\ codes' = NoCodes /\ UNCHANGED <<refresh, principals, clients, tokens, now, drawn>>
  BY DEF Crash, Idle, store, world, history
<1>2. Consents' = {} /\ Due' = {} /\ Reserved' = {} /\ PendingCodes' = {}
      /\ StoredTokens' = StoredTokens
  BY <1>1 DEF Consents, Due, GrantsInFlight, Reserved, PendingCodes, NoCodes, StoredTokens
<1>3. Live' = {x \in Live : x.cred \in RefreshTokens}
  <2>1. Live' = {[cred |-> r, grant |-> refresh[r]] : r \in StoredTokens}
    BY <1>1, <1>2 DEF Live
  <2>2. \A x \in Live : x.cred \in RefreshTokens =>
          x \in {[cred |-> r, grant |-> refresh[r]] : r \in StoredTokens}
    BY KindAssumption DEF Live, PendingCodes
  <2> QED
    BY <2>1, <2>2 DEF Live, StoredTokens
<1>4. /\ Reserved \subseteq drawn /\ Reserved \subseteq RefreshTokens
      /\ Reserved \cap StoredTokens = {}
      /\ PendingCodes \subseteq drawn /\ PendingCodes \cap RefreshTokens = {}
  BY ReservedTokens, KindAssumption
     DEF Standing, Successors, Flying, Reserved, StoredTokens, PendingCodes
<1>5. D = A!CredsOf(Due) \cup PendingCodes
  <2>1. \A c \in PendingCodes : \E x \in Live \ Live' : x.cred = c
    BY <1>3, <1>4, Places DEF A!CredsOf
  <2>2. \A x \in Live \ Live' : x.cred \in PendingCodes
    BY <1>3, Places DEF StoredTokens
  <2> QED
    BY <2>1, <2>2 DEF A!CredsOf
<1>6. Reserved = A!CredsOf(Due) \cup C
  BY Places DEF Reserved, GrantsInFlight
<1>7. Gone' = Gone \cup D \cup C
  BY <1>1, <1>2, <1>4, <1>5, <1>6 DEF Gone, PendingCodes, StoredTokens
<1>8. C \in SUBSET {c \in AuthCodes \cup RefreshTokens : A!Fresh(c)}
  BY NextFresh
<1> HIDE DEF C, D
<1>9. A!Bury(D)
  BY <1>7, <1>8 DEF A!Bury
<1>10. A!Die
  BY <1>1, <1>2, <1>3, <1>9, FilesKept DEF A!Die, D
<1> QED
  BY <1>10 DEF A!ANext

\* The save of a registration adds one client.
LEMMA RegisterSaveRefines ==
  ASSUME Standing, NEW t \in Threads, RegisterSave(t) PROVE A!ANext
<1>1. /\ pc \in [Threads -> Label] /\ local \in [Threads -> Local \cup {Absent}]
      /\ pc[t] = "register"
  BY DEF Standing, TypeOK, RegisterSave
<1>2. /\ pc' = [pc EXCEPT ![t] = "idle"] /\ \A u \in Threads \ {t} : local'[u] = local[u]
      /\ UNCHANGED <<codes, refresh, principals, tokens, now, drawn>>
      /\ clients' = clientsBuf
  BY <1>1 DEF RegisterSave, Done, Goto, world, history
<1>3. PICK c \in Clients : /\ clientsBuf[c] # Absent
                           /\ \A e \in Clients \ {c} : clientsBuf[e] = clients[e]
  BY <1>1 DEF Standing, Current
<1>4. Registered' = Registered \cup {c}
  BY <1>2, <1>3 DEF Registered
<1>5. Due' = Due /\ Consents' = Consents /\ Reserved' = Reserved
  BY <1>1, <1>2, DueKept, ConsentsKept, ReservedKept DEF Same
<1>6. Gone' = Gone
  BY <1>2, <1>5, GoneKept DEF NoneDrawn
<1>7. A!Join(c)
  BY <1>2, <1>4, <1>5, <1>6, LiveKept, FilesKept DEF A!Join
<1> QED
  BY <1>7 DEF A!ANext

\* `pair add` enrols a principal, or rebinds the one of that name.
LEMMA PairAddRefines ==
  ASSUME Standing, NEW n \in Names, NEW b \in Binding, NEW c \in PairCodes, PairAdd(n, b, c)
  PROVE  A!ANext
<1> DEFINE p == [name |-> n, binding |-> b]
<1>1. /\ principals \in PrincipalMap /\ principals' = [principals EXCEPT ![n] =
                                                         [code |-> c, binding |-> b]]
      /\ UNCHANGED <<codes, refresh, clients, tokens, now, drawn, pc, local>>
  BY DEF Standing, TypeOK, PairAdd, world
<1>2. [code |-> c, binding |-> b] # Absent
  BY AbsentNoPrincipal
<1>3. Enrolled' = {q \in Enrolled : q.name # p.name} \cup {p}
  BY <1>1, <1>2 DEF Enrolled, PrincipalMap
<1>4. Due' = Due /\ Consents' = Consents /\ Reserved' = Reserved
  BY <1>1, DueKept, ConsentsKept, ReservedKept DEF Same
<1>5. Gone' = Gone
  BY <1>1, <1>4, GoneKept DEF NoneDrawn
<1> HIDE DEF p
<1>6. A!Enrol(p) /\ p \in Enrolled'
  BY <1>1, <1>3, <1>4, <1>5, LiveKept, FilesKept DEF A!Enrol
<1> QED
  BY <1>6 DEF A!ANext

\* The first half of `pair remove` takes the principal off the file.
LEMMA PairRemoveRefines == ASSUME Standing, NEW n \in Names, PairRemove(n) PROVE A!ANext
<1>1. /\ principals \in PrincipalMap /\ principals' = [principals EXCEPT ![n] = Absent]
      /\ UNCHANGED <<codes, refresh, clients, tokens, now, drawn, pc, local>>
  BY DEF Standing, TypeOK, PairRemove, world
<1>2. Enrolled' = {q \in Enrolled : q.name # n}
  BY <1>1 DEF Enrolled, PrincipalMap
<1>3. Due' = Due /\ Consents' = Consents /\ Reserved' = Reserved
  BY <1>1, DueKept, ConsentsKept, ReservedKept DEF Same
<1>4. Gone' = Gone
  BY <1>1, <1>3, GoneKept DEF NoneDrawn
<1>5. A!Withdraw(n)
  BY <1>1, <1>2, <1>3, <1>4, LiveKept, FilesKept DEF A!Withdraw
<1> QED
  BY <1>5 DEF A!ANext

\* The second half ends the claims of that principal, and only those.
LEMMA SweepSaveRefines == ASSUME Standing, SweepSave PROVE A!ANext
<1> DEFINE n == sweep.name
           N == A!Named(Live, n)
<1>1. /\ sweep # Absent /\ sweep.step = "save" /\ n \in Names /\ phase = "down"
      /\ refresh \in RefreshMap /\ refresh' = sweep.buf
      /\ UNCHANGED <<codes, principals, clients, tokens, now, drawn, pc, local>>
  BY DEF Standing, TypeOK, SweepOffline, SweepSave, world
<1>2. /\ principals[n] = Absent
      /\ refresh' = [r \in RefreshTokens |->
                       IF refresh[r] # Absent /\ refresh[r].principal.name = n
                       THEN Absent ELSE refresh[r]]
  BY <1>1 DEF Standing, Current
<1>3. /\ Consents = {} /\ Due = {} /\ Reserved = {} /\ PendingCodes = {}
      /\ \A t \in Threads : pc[t] = "idle"
  BY <1>1, NothingInMemory
<1>4. /\ Consents' = {} /\ Due' = {} /\ Reserved' = {} /\ PendingCodes' = {}
  <2>1. Due' = Due /\ Consents' = Consents /\ Reserved' = Reserved
    BY <1>1, DueKept, ConsentsKept, ReservedKept DEF Same
  <2> QED
    BY <1>1, <1>3, <2>1 DEF PendingCodes
<1>5. Live' = Live \ N
  <2>1. Live = {[cred |-> r, grant |-> refresh[r]] : r \in StoredTokens}
    BY <1>3 DEF Live
  <2>2. Live' = {[cred |-> r, grant |-> refresh'[r]] : r \in StoredTokens'}
    BY <1>4 DEF Live
  <2>3. StoredTokens' = {r \in StoredTokens : refresh[r].principal.name # n}
    BY <1>2 DEF StoredTokens
  <2>4. \A r \in StoredTokens' : refresh'[r] = refresh[r]
    BY <1>2, <2>3 DEF StoredTokens
  <2> HIDE DEF n
  <2> QED
    BY <2>1, <2>2, <2>3, <2>4 DEF A!Named
<1>6. A!CredsOf(N) = {r \in StoredTokens : refresh[r].principal.name = n}
  <2>1. \A x \in N : x.cred \in {r \in StoredTokens : refresh[r].principal.name = n}
    BY <1>3 DEF Live, A!Named
  <2>2. ASSUME NEW r \in StoredTokens, refresh[r].principal.name = n
        PROVE  \E x \in N : x.cred = r
    <3>1. [cred |-> r, grant |-> refresh[r]] \in N
      BY <2>2 DEF Live, A!Named
    <3> QED
      BY <3>1
  <2> HIDE DEF n, N
  <2> QED
    BY <2>1, <2>2 DEF A!CredsOf
<1>7. Gone' = Gone \cup A!CredsOf(N) \cup {}
  <2>1. StoredTokens \subseteq drawn
    BY DEF Standing, Successors, StoredTokens
  <2>2. StoredTokens' = {r \in StoredTokens : refresh[r].principal.name # n}
    BY <1>2 DEF StoredTokens
  <2>3. StoredTokens \subseteq RefreshTokens
    BY DEF StoredTokens
  <2> HIDE DEF n, N
  <2> QED
    BY <1>1, <1>3, <1>4, <1>6, <2>1, <2>2, <2>3 DEF Gone
<1>8. \A q \in Enrolled : q.name # n
  BY <1>2 DEF Enrolled
<1>9. A!Named(Live \cup Due, n) = N /\ A!Named(Due, n) = {} /\ A!Named(Consents, n) = {}
  BY <1>3 DEF A!Named
<1> HIDE DEF n
<1>10. A!Bury(A!CredsOf(A!Named(Live \cup Due, n)))
  BY <1>7, <1>9 DEF A!Bury
<1>11. A!Revoke(n)
  BY <1>1, <1>3, <1>4, <1>5, <1>8, <1>9, <1>10, FilesKept DEF A!Revoke
<1> QED
  BY <1>1, <1>11 DEF A!ANext

\* `pair reset` leaves nothing of all that.
LEMMA PairResetRefines == ASSUME ResetOffline, Standing, PairReset PROVE A!ANext
<1>1. /\ phase = "down" /\ principals' = NoPrincipals /\ clients' = NoClients
      /\ refresh' = NoRefresh /\ UNCHANGED <<codes, tokens, now, drawn, pc, local>>
  BY DEF PairReset, MayOperate, ResetOffline, world
<1>2. /\ Consents = {} /\ Due = {} /\ Reserved = {} /\ PendingCodes = {}
      /\ \A t \in Threads : pc[t] = "idle"
  BY <1>1, NothingInMemory
<1>3. /\ Consents' = {} /\ Due' = {} /\ Reserved' = {} /\ PendingCodes' = {}
  <2>1. Due' = Due /\ Consents' = Consents /\ Reserved' = Reserved
    BY <1>1, DueKept, ConsentsKept, ReservedKept DEF Same
  <2> QED
    BY <1>1, <1>2, <2>1 DEF PendingCodes
<1>4. Enrolled' = {} /\ Registered' = {} /\ StoredTokens' = {}
  BY <1>1 DEF Enrolled, Registered, StoredTokens, NoPrincipals, NoClients, NoRefresh
<1>5. Live' = {}
  BY <1>3, <1>4 DEF Live
<1>6. Gone' = Gone \cup A!CredsOf(Live \cup Due) \cup {}
  <2>1. StoredTokens \subseteq drawn /\ StoredTokens \subseteq RefreshTokens
    BY DEF Standing, Successors, StoredTokens
  <2>2. Live \cup Due = Live
    BY <1>2
  <2> QED
    BY <1>1, <1>2, <1>3, <1>4, <2>1, <2>2, Places DEF Gone
<1>7. A!Bury(A!CredsOf(Live \cup Due))
  BY <1>6 DEF A!Bury
<1>8. A!Reset
  BY <1>1, <1>3, <1>4, <1>5, <1>7 DEF A!Reset
<1> QED
  BY <1>8 DEF A!ANext

\* The successor of a token being exchanged is drawn: nobody has seen it.
LEMMA ExchangeRefines ==
  ASSUME Standing, NEW t \in Threads, NEW r \in RefreshTokens, NEW r2 \in RefreshTokens,
         NEW cid \in Clients \cup {Absent}, Exchange(t, r, cid, r2)
  PROVE  UNCHANGED A!avars
<1>1. /\ pc \in [Threads -> Label] /\ local \in [Threads -> Local \cup {Absent}]
      /\ pc[t] = "idle"
  BY DEF Standing, TypeOK, Exchange, Start
<1>2. /\ pc' = [pc EXCEPT ![t] = "exchange"] /\ local'[t].next = r2
      /\ \A u \in Threads \ {t} : local'[u] = local[u]
      /\ drawn' = drawn \cup {r2} /\ r2 \notin drawn
      /\ UNCHANGED <<codes, refresh, principals, clients, tokens, now>>
  BY <1>1 DEF Exchange, Goto, store, world
<1>3. Due' = Due /\ Consents' = Consents
  BY <1>1, <1>2, DueKept, ConsentsKept DEF Same
<1>4. Reserved' = Reserved \cup {r2}
  BY <1>1, <1>2 DEF Reserved
<1>5. Gone' = Gone
  BY <1>2, <1>4 DEF Gone, PendingCodes, StoredTokens
<1> QED
  BY <1>2, <1>3, <1>5, LiveKept, FilesKept DEF A!avars

\* The clock is the authority's.
LEMMA TickRefines == ASSUME Standing, Tick PROVE A!ANext
<1>1. now' = now + 1
      /\ UNCHANGED <<codes, refresh, principals, clients, tokens, drawn, pc, local>>
  BY DEF Tick, store, history
<1>2. Due' = Due /\ Consents' = Consents /\ Reserved' = Reserved
  BY <1>1, DueKept, ConsentsKept, ReservedKept DEF Same
<1>3. Gone' = Gone
  BY <1>1, <1>2, GoneKept DEF NoneDrawn
<1>4. A!Pass
  BY <1>1, <1>2, <1>3, LiveKept, FilesKept DEF A!Pass
<1> QED
  BY <1>4 DEF A!ANext

\* Every step of the server is a step of the authority, or none it can see.
LEMMA StepRefines ==
  ASSUME ResetOffline
  PROVE  Standing /\ [Next]_vars => A!ANext \/ UNCHANGED A!avars
<1> DEFINE Goal == A!ANext \/ UNCHANGED A!avars
<1> SUFFICES ASSUME Standing, [Next]_vars PROVE Goal
  OBVIOUS
<1>0. /\ pc \in [Threads -> Label] /\ local \in [Threads -> Local \cup {Absent}]
  BY DEF Standing, TypeOK
<1>a. ASSUME UNCHANGED <<codes, refresh, principals, clients, tokens, now, drawn>>,
             UNCHANGED <<pc, local>>
      PROVE  Goal
  BY <1>a, Unseen DEF Same, NoneDrawn
<1>b. ASSUME NEW t \in Threads, NEW l \in {"idle", "register", "code", "rotate", "match"},
             pc[t] \notin {"approve", "exchange", "issue", "put"},
             pc' = [pc EXCEPT ![t] = l], \A u \in Threads \ {t} : local'[u] = local[u],
             UNCHANGED <<codes, refresh, principals, clients, tokens, now>>, NoneDrawn
      PROVE  Goal
  <2>1. Same({"approve"}) /\ Same({"issue", "put"}) /\ Same({"exchange", "issue", "put"})
    BY <1>0, <1>b DEF Same
  <2> QED
    BY <1>b, <2>1, Unseen
<1> HIDE DEF Goal
<1> USE DEF store, world, history
<1>1. ASSUME LoadKey PROVE Goal
  BY <1>1, <1>a DEF LoadKey, MayBoot
<1>2. ASSUME NEW k \in SigningKeys, CreateKey(k) PROVE Goal
  <2>1. NoneDrawn
    BY <1>2, KindAssumption DEF CreateKey, NoneDrawn
  <2> QED
    BY <1>2, <2>1, Unseen DEF CreateKey, Same, Goal
<1>3. ASSUME BootReadCode PROVE Goal
  BY <1>3, <1>a DEF BootReadCode
<1>4. ASSUME NEW c \in PairCodes, BootRotate(c) PROVE Goal
  BY <1>4, <1>a DEF BootRotate, Rotate
<1>5. ASSUME Crash PROVE Goal
  BY <1>5, CrashRefines DEF Goal
<1>6. ASSUME NEW t \in Threads, NEW c \in Clients, NEW uris \in SUBSET Redirects,
             Register(t, c, uris) PROVE Goal
  <2>1. NoneDrawn
    BY <1>6, KindAssumption DEF Register, NoneDrawn
  <2> QED
    BY <1>0, <1>b, <1>6, <2>1 DEF Register, Start, Goto
<1>7. ASSUME NEW t \in Threads, RegisterSave(t) PROVE Goal
  BY <1>7, RegisterSaveRefines DEF Goal
<1>8. ASSUME NEW t \in Threads, NEW p \in AuthParams, Authorize(t, p) PROVE Goal
  BY <1>8, <1>0, <1>b DEF Authorize, Start, Goto, NoneDrawn
<1>9. ASSUME NEW t \in Threads, ReadCode(t) PROVE Goal
  BY <1>9, <1>0, <1>b DEF ReadCode, Goto, NoneDrawn
<1>10. ASSUME NEW t \in Threads, NEW c \in PairCodes, RotateCode(t, c) PROVE Goal
  BY <1>10, <1>0, <1>b DEF RotateCode, Rotate, Done, Goto, NoneDrawn
<1>11. ASSUME NEW t \in Threads, MatchShared(t) PROVE Goal
  <2>1. pc[t] = "match" /\ Approve(t, Anonymous)
    BY <1>11 DEF MatchShared
  <2> QED
    BY <2>1, ApproveRefines, ZeroValues DEF Goal
<1>12. ASSUME NEW t \in Threads, NEW n \in Names, MatchNamed(t, n) PROVE Goal
  <2>1. pc[t] = "match" /\ Approve(t, [name |-> n, binding |-> principals[n].binding])
        /\ principals[n] # Absent /\ principals \in PrincipalMap
    BY <1>12 DEF MatchNamed, Standing, TypeOK
  <2>2. /\ [name |-> n, binding |-> principals[n].binding] \in Principal
        /\ [name |-> n, binding |-> principals[n].binding] \in Enrolled
    BY <2>1 DEF PrincipalMap, Principal, Enrolled
  <2> QED
    BY <2>1, <2>2, ApproveRefines DEF Goal
<1>13. ASSUME NEW t \in Threads, MatchNone(t) PROVE Goal
  BY <1>13, <1>0, <1>b DEF MatchNone, Done, Goto, NoneDrawn
<1>14. ASSUME NEW t \in Threads, NEW c \in AuthCodes, IssueCode(t, c) PROVE Goal
  BY <1>14, IssueCodeRefines DEF Goal
<1>15. ASSUME NEW t \in Threads, NEW c \in AuthCodes, NEW cid \in Clients,
              NEW uri \in Redirects, NEW v \in Verifiers, NEW r \in RefreshTokens,
              RedeemCode(t, c, cid, uri, v, r) PROVE Goal
  BY <1>15, RedeemRefines DEF Goal
<1>16. ASSUME NEW c \in AuthCodes, NEW cid \in Clients, NEW uri \in Redirects,
              NEW v \in Verifiers, BurnCode(c, cid, uri, v) PROVE Goal
  BY <1>16, BurnRefines DEF Goal
<1>17. ASSUME NEW t \in Threads, NEW r \in RefreshTokens, NEW r2 \in RefreshTokens,
              NEW cid \in Clients \cup {Absent}, Exchange(t, r, cid, r2) PROVE Goal
  BY <1>17, ExchangeRefines DEF Goal
<1>18. ASSUME NEW t \in Threads, ExchangeSave(t) PROVE Goal
  BY <1>18, ExchangeSaveRefines DEF Goal
<1>19. ASSUME NEW t \in Threads, Issue(t) PROVE Goal
  <2>1. Same({"approve"}) /\ Same({"issue", "put"}) /\ Same({"exchange", "issue", "put"})
    BY <1>0, <1>19 DEF Issue, Goto, Same
  <2> QED
    BY <1>19, <2>1, Unseen DEF Issue, NoneDrawn, Goal
<1>20. ASSUME NEW t \in Threads, NEW d \in BOOLEAN, IssueSave(t, d) PROVE Goal
  BY <1>20, IssueSaveRefines DEF Goal
<1>21. ASSUME NEW t \in Threads, StoreError(t) PROVE Goal
  BY <1>21, StoreErrorRefines DEF Goal
<1>22. ASSUME NEW c \in PairCodes, PairRotate(c) PROVE Goal
  BY <1>22, <1>a DEF PairRotate, Rotate
<1>23. ASSUME NEW n \in Names, NEW b \in Binding, NEW c \in PairCodes, PairAdd(n, b, c)
       PROVE  Goal
  BY <1>23, PairAddRefines DEF Goal
<1>24. ASSUME NEW n \in Names, PairRemove(n) PROVE Goal
  BY <1>24, PairRemoveRefines DEF Goal
<1>25. ASSUME SweepLoad PROVE Goal
  BY <1>25, <1>a DEF SweepLoad, OwnedBy
<1>26. ASSUME SweepSave PROVE Goal
  BY <1>26, SweepSaveRefines DEF Goal
<1>27. ASSUME SweepError PROVE Goal
  BY <1>27, <1>a DEF SweepError
<1>28. ASSUME PairReset PROVE Goal
  BY <1>28, PairResetRefines DEF Goal
<1>29. ASSUME Tick PROVE Goal
  BY <1>29, TickRefines DEF Goal
<1>30. CASE UNCHANGED vars
  BY <1>30, <1>a DEF vars
<1> HIDE <1>0, <1>a, <1>b
<1> QED
  BY <1>1, <1>2, <1>3, <1>4, <1>5, <1>6, <1>7, <1>8, <1>9, <1>10, <1>11, <1>12, <1>13,
     <1>14, <1>15, <1>16, <1>17, <1>18, <1>19, <1>20, <1>21, <1>22, <1>23, <1>24,
     <1>25, <1>26, <1>27, <1>28, <1>29, <1>30
     DEF Next, Boot, Request, Continue, Operator

\* Initially nobody may do anything.
LEMMA InitRefines == ASSUME Init PROVE A!AInit
<1>1. PendingCodes = {} /\ StoredTokens = {} /\ GrantsInFlight = {} /\ drawn = {}
  BY DEF Init, PendingCodes, NoCodes, StoredTokens, NoRefresh, GrantsInFlight, Idle
<1>2. Live = {} /\ Due = {} /\ Gone = {}
  BY <1>1 DEF Live, Due, Gone
<1>3. Consents = {} /\ Enrolled = {} /\ Registered = {}
  BY DEF Init, Idle, NoPrincipals, NoClients, Consents, Enrolled, Registered
<1> QED
  BY <1>2, <1>3 DEF Init, A!AInit

\* The authority keeps its credentials apart: a fresh one is in no place, and what
\* leaves live or due without passing to the other is buried.
LEMMA OnePlaceStep ==
  A!OnePlace /\ (A!ANext \/ UNCHANGED A!avars) => A!OnePlace'
<1> SUFFICES ASSUME A!OnePlace, A!ANext \/ UNCHANGED A!avars PROVE A!OnePlace'
  OBVIOUS
<1> USE DEF A!OnePlace, A!CredsOf, A!Fresh
<1>a. ASSUME NEW S, A!Bury(S), Live' \cup Due' \subseteq Live \cup Due,
             \A x \in Live' \cup Due' : x.cred \notin S, Live' \cap Due' = {}
      PROVE  A!OnePlace'
  <2>1. PICK C \in SUBSET {c \in AuthCodes \cup RefreshTokens : A!Fresh(c)} :
               Gone' = Gone \cup S \cup C
    BY <1>a DEF A!Bury
  <2> QED
    BY <1>a, <2>1
<1>1. ASSUME UNCHANGED <<Live, Due, Gone>> PROVE A!OnePlace'
  BY <1>1
<1>2. ASSUME NEW n \in Names, A!Revoke(n) PROVE A!OnePlace'
  <2>1. /\ Live' \cup Due' = (Live \cup Due) \ A!Named(Live \cup Due, n)
        /\ Live' \cap Due' = {} /\ A!Bury(A!CredsOf(A!Named(Live \cup Due, n)))
    BY <1>2 DEF A!Revoke, A!Named
  <2>2. \A x \in Live' \cup Due' : x.cred \notin A!CredsOf(A!Named(Live \cup Due, n))
    BY <2>1 DEF A!Named
  <2> HIDE DEF A!OnePlace, A!CredsOf
  <2> QED
    BY <1>a, <2>1, <2>2
<1>3. ASSUME NEW x \in Consents, NEW c \in AuthCodes \cup RefreshTokens, A!Issue(x, c)
      PROVE A!OnePlace'
  BY <1>3 DEF A!Issue
<1>4. ASSUME NEW x \in Live, NEW c \in AuthCodes \cup RefreshTokens, A!Use(x, c)
      PROVE A!OnePlace'
  BY <1>4 DEF A!Use
<1>5. ASSUME NEW x \in Due, A!Deliver(x) PROVE A!OnePlace'
  BY <1>5 DEF A!Deliver
<1>6. ASSUME NEW x \in Live, A!Refuse(x) PROVE A!OnePlace'
  <2>1. \A y \in Live' \cup Due' : y.cred \notin {x.cred}
    BY <1>6 DEF A!Refuse
  <2>2. A!Bury({x.cred}) /\ Live' \cup Due' \subseteq Live \cup Due /\ Live' \cap Due' = {}
    BY <1>6 DEF A!Refuse
  <2> HIDE DEF A!OnePlace
  <2> QED
    BY <1>a, <2>1, <2>2
<1>7. ASSUME NEW S \in SUBSET Due, A!Fail(S) PROVE A!OnePlace'
  <2>1. \A y \in Live' \cup Due' : y.cred \notin A!CredsOf(S)
    BY <1>7 DEF A!Fail
  <2>2. /\ A!Bury(A!CredsOf(S)) /\ Live' \cup Due' \subseteq Live \cup Due
        /\ Live' \cap Due' = {}
    BY <1>7 DEF A!Fail
  <2> HIDE DEF A!OnePlace, A!CredsOf
  <2> QED
    BY <1>a, <2>1, <2>2
<1>8. ASSUME A!Die PROVE A!OnePlace'
  <2>1. \A y \in Live' \cup Due' : y.cred \notin A!CredsOf(Due \cup (Live \ Live'))
    BY <1>8 DEF A!Die
  <2>2. /\ A!Bury(A!CredsOf(Due \cup (Live \ Live'))) /\ Live' \cap Due' = {}
        /\ Live' \cup Due' \subseteq Live \cup Due
    BY <1>8 DEF A!Die
  <2> HIDE DEF A!OnePlace, A!CredsOf
  <2> QED
    BY <1>a, <2>1, <2>2
<1>9. ASSUME A!Reset PROVE A!OnePlace'
  BY <1>9, <1>a DEF A!Reset
<1> QED
  BY <1>1, <1>2, <1>3, <1>4, <1>5, <1>6, <1>7, <1>8, <1>9
     DEF A!ANext, A!Enrol, A!Withdraw, A!Join, A!Consent, A!Pass, A!avars

\* Every step that takes a credential away buries it.
LEMMA GoneStep == A!ANext \/ UNCHANGED A!avars => Gone \subseteq Gone'
  BY DEF A!ANext, A!Enrol, A!Withdraw, A!Join, A!Consent, A!Pass, A!avars, A!Revoke,
    A!Issue, A!Use, A!Deliver, A!Refuse, A!Fail, A!Die, A!Reset, A!Bury

-----------------------------------------------------------------------------
(***************************************************************************)
(* Theorems                                                                *)
(***************************************************************************)

\* Initially nothing is stored, held, carried or drawn.
LEMMA SafetyInit ==
  Init => /\ MutexHeld /\ ServerDown /\ SweepOffline /\ Successors /\ Credits
          /\ TokenAges /\ Forgotten /\ Registrations /\ KeysFresh /\ Current
          /\ NoneEstranged
<1> SUFFICES ASSUME Init
             PROVE  /\ MutexHeld /\ ServerDown /\ SweepOffline /\ Successors /\ Credits
                    /\ TokenAges /\ Forgotten /\ Registrations /\ KeysFresh /\ Current
                    /\ NoneEstranged
  OBVIOUS
<1> USE DEF Init, Idle, NoRefresh, NoCodes, NoClients, NoPrincipals
<1>1. MutexHeld /\ ServerDown /\ SweepOffline /\ TokenAges /\ KeysFresh /\ Current
  BY DEF MutexHeld, ServerDown, SweepOffline, TokenAges, KeysFresh, Current
<1>2. Successors /\ Forgotten /\ Registrations /\ NoneEstranged
  BY DEF Successors, Flying, Forgotten, Removed, Registrations, ClientsKnown, NoneEstranged
<1>3. Credits
  <2>1. PendingCodes = {} /\ Loaded = {} /\ GrantsInFlight = {} /\ StoredTokens = {}
        /\ drawn = {} /\ drawn \cap AuthCodes = {}
    BY DEF PendingCodes, Loaded, GrantsInFlight, StoredTokens
  <2> HIDE DEF Init
  <2> QED
    BY <2>1, FS_EmptySet DEF Credits
<1> QED
  BY <1>1, <1>2, <1>3

\* Mutual exclusion: a handler is between the load and the save of the registry or
\* of the refresh store only while it holds that store's mutex, and every way out
\* of a handler, store errors included, gives the mutex back.
THEOREM MutexCorrect == Spec => []MutexHeld
<1>1. Init => MutexHeld
  BY SafetyInit
<1>2. TypeOK /\ MutexHeld /\ [Next]_vars => MutexHeld'
  BY MutexStep
<1> QED
  BY <1>1, <1>2, TypeCorrect, PTL DEF Spec

\* The invariant of single use: it needs the mutex (two loads before a save would
\* bring a spent token back) and `pair remove` offline (its sweep takes no mutex).
THEOREM SuccessorsCorrect ==
  ASSUME RemoveOffline PROVE Spec => [](SweepOffline /\ Successors)
<1>1. Init => SweepOffline /\ Successors
  BY SafetyInit
<1>2. TypeOK /\ MutexHeld /\ SweepOffline /\ Successors /\ [Next]_vars
        => (SweepOffline /\ Successors)'
  BY SweepStep, SuccessorsStep
<1> QED
  BY <1>1, <1>2, TypeCorrect, MutexCorrect, PTL DEF Spec

\* refresh.go:15 "the exchanged token is invalidated": for any number of concurrent
\* exchanges, crashes, store errors and online resets, a refresh token whose
\* exchange was saved is never in the store again.
THEOREM SpentStaysSpentCorrect ==
  ASSUME RemoveOffline PROVE Spec => []SpentStaysSpent
<1>1. Successors => SpentStaysSpent
  BY DEF Successors, SpentStaysSpent
<1> QED
  BY <1>1, SuccessorsCorrect, PTL

\* A server that is not up has nothing in memory that grants access.
THEOREM ServerDownCorrect == Spec => []ServerDown
<1>1. Init => ServerDown
  BY SafetyInit
<1>2. TypeOK /\ ServerDown /\ [Next]_vars => ServerDown'
  BY ServerDownStep
<1> QED
  BY <1>1, <1>2, TypeCorrect, PTL DEF Spec

\* The inductive form of the bound on live credentials.
LEMMA CreditsCorrect == ASSUME RemoveOffline PROVE Spec => []Credits
<1>1. Init => Credits
  BY SafetyInit
<1>2. TypeOK /\ MutexHeld /\ ServerDown /\ SweepOffline /\ Successors /\ Credits
        /\ [Next]_vars => Credits'
  BY CreditsStep
<1> QED
  BY <1>1, <1>2, TypeCorrect, MutexCorrect, ServerDownCorrect, SuccessorsCorrect,
     PTL DEF Spec

\* One approval, one live credential: codes pending, refresh tokens stored and
\* grants in flight are never more than the authorization codes issued, whatever
\* interleaves in consume, exchange and issue, and through crashes and resets.
THEOREM OneCredentialCorrect ==
  ASSUME RemoveOffline PROVE Spec => []OneCredentialPerApproval
<1>1. Credits => OneCredentialPerApproval
  <2> SUFFICES ASSUME Credits PROVE OneCredentialPerApproval
    OBVIOUS
  <2>1. /\ Cardinality(StoredTokens) \in Nat
        /\ Cardinality(StoredTokens) <= Cardinality(Loaded)
    BY CreditsFinite, Keeps DEF Credits
  <2> QED
    BY <2>1, CreditsFinite DEF Credits, OneCredentialPerApproval
<1> QED
  BY <1>1, CreditsCorrect, PTL

\* No access token outlives its TokenTTL.
LEMMA AgesCorrect == Spec => []TokenAges
<1>1. Init => TokenAges
  BY SafetyInit
<1>2. TypeOK /\ TokenAges /\ [Next]_vars => TokenAges'
  BY AgesStep
<1> QED
  BY <1>1, <1>2, TypeCorrect, PTL DEF Spec

\* design-docs/multi-user.md, "the revocation window is the access-token TTL", beside a
\* running server: whatever requests, refreshes and other removals it meets, once a
\* `pair remove` of n has ended with no grant to n under way, n has no code and no
\* refresh token, gets none, and no access token issued to n lives longer than
\* TokenTTL after it.
THEOREM RemovedStayOutCorrect == Spec => []RemovedStayOut
<1>1. Init => Forgotten
  BY SafetyInit
<1>2. TypeOK /\ MutexHeld /\ TokenAges /\ Forgotten /\ [Next]_vars => Forgotten'
  BY ForgottenStep
<1>3. Forgotten => RemovedStayOut
  BY DEF Forgotten, RemovedStayOut, Revoked, OwnedBy
<1> QED
  BY <1>1, <1>2, <1>3, TypeCorrect, MutexCorrect, AgesCorrect, PTL DEF Spec

\* The inductive form of ClientsKnown.
LEMMA RegistrationsCorrect == Spec => []Registrations
<1>1. Init => Registrations
  BY SafetyInit
<1>2. TypeOK /\ MutexHeld /\ Registrations /\ [Next]_vars => Registrations'
  BY RegistrationsStep
<1> QED
  BY <1>1, <1>2, TypeCorrect, MutexCorrect, PTL DEF Spec

\* pair.go:63 "Every connector must re-register and re-pair", beside a running server:
\* no pending code and no stored refresh token outlives the registration of its
\* client, except those of clients the server was serving when it was wiped.
THEOREM ClientsKnownCorrect == Spec => []ClientsKnown
<1>1. Registrations => ClientsKnown
  BY DEF Registrations
<1> QED
  BY <1>1, RegistrationsCorrect, PTL

\* Where resets are offline no client is served at one.
LEMMA EstrangedCorrect == ASSUME ResetOffline PROVE Spec => []NoneEstranged
<1>1. Init => NoneEstranged
  BY SafetyInit
<1>2. TypeOK /\ MutexHeld /\ ServerDown /\ NoneEstranged /\ [Next]_vars => NoneEstranged'
  BY EstrangedStep
<1> QED
  BY <1>1, <1>2, TypeCorrect, MutexCorrect, ServerDownCorrect, PTL DEF Spec

\* design-docs/multi-user.md, "rotating the signing key invalidates every token
\* immediately", beside a running server: a token signed with a wiped key is accepted
\* by the process that was running at the wipe, until it stops, and by none after it.
THEOREM ResetInvalidatesCorrect == Spec => []ResetInvalidates
<1>1. Init => KeysFresh
  BY SafetyInit
<1>2. TypeOK /\ KeysFresh /\ [Next]_vars => KeysFresh'
  BY KeysStep
<1>3. KeysFresh => ResetInvalidates
  BY DEF KeysFresh, ResetInvalidates, Accepted, Validate
<1> QED
  BY <1>1, <1>2, <1>3, TypeCorrect, PTL DEF Spec

\* No save undoes another: with `pair remove` and `pair reset` offline, a handler or a
\* sweep about to save changes the document as it is now, and nothing else in it.
THEOREM CurrentCorrect ==
  ASSUME RemoveOffline, ResetOffline PROVE Spec => []Current
<1>1. Init => Current
  BY SafetyInit
<1>2. TypeOK /\ MutexHeld /\ SweepOffline /\ Current /\ [Next]_vars => Current'
  BY CurrentStep
<1> QED
  BY <1>1, <1>2, TypeCorrect, MutexCorrect, SuccessorsCorrect, PTL DEF Spec

\* The invariant under which each step maps to a step of the authority.
LEMMA StandingCorrect ==
  ASSUME RemoveOffline, ResetOffline PROVE Spec => []Standing
<1>1. TypeOK /\ MutexHeld /\ ServerDown /\ SweepOffline /\ Successors /\ Credits
        /\ TokenAges /\ Registrations /\ Current /\ NoneEstranged => Standing
  BY DEF Standing, Credits
<1> QED
  BY <1>1, TypeCorrect, MutexCorrect, ServerDownCorrect, SuccessorsCorrect, CreditsCorrect,
     AgesCorrect, RegistrationsCorrect, EstrangedCorrect, CurrentCorrect, PTL

\* The OAuth layer implements the authority: through any interleaving of handlers,
\* mutexes, saves, crashes, store errors and lost responses it consumes, replaces
\* and revokes each credential in one step, with the two commands that take
\* documents away from a running server, `pair remove` and `pair reset`, offline.
THEOREM ImplementsCorrect ==
  ASSUME RemoveOffline, ResetOffline PROVE Spec => Implements
<1>1. Init => A!AInit
  BY InitRefines
<1>2. Standing /\ [Next]_vars => [A!ANext]_(A!avars)
  BY StepRefines
<1> QED
  BY <1>1, <1>2, StandingCorrect, PTL DEF Spec, Implements, A!ASpec

\* authcode.go:53 "single-use: gone whether or not it's still valid", for codes and
\* refresh tokens: what was used, refused, lost, revoked or wiped never comes back.
\* It follows from the refinement: the authority only ever adds to what is gone.
THEOREM GoneForGoodCorrect ==
  ASSUME RemoveOffline, ResetOffline PROVE Spec => GoneForGood
<1>1. Standing /\ [Next]_vars => [Gone \subseteq Gone']_vars
  BY StepRefines, GoneStep
<1> QED
  BY <1>1, StandingCorrect, PTL DEF Spec, GoneForGood

\* A credential is in one place: no two pending codes, stored refresh tokens or
\* successors on their way are the same one, and none of them is gone.  Proved of
\* the authority's steps, and so of the server's.
THEOREM OnePlaceCorrect ==
  ASSUME RemoveOffline, ResetOffline PROVE Spec => []A!OnePlace
<1>1. Init => A!OnePlace
  BY InitRefines DEF A!AInit, A!OnePlace, A!CredsOf
<1>2. Standing /\ A!OnePlace /\ [Next]_vars => A!OnePlace'
  BY StepRefines, OnePlaceStep
<1> QED
  BY <1>1, <1>2, StandingCorrect, PTL DEF Spec
=============================================================================
