--------------------------- MODULE BootstrapProofs ---------------------------
(***************************************************************************)
(* Proofs about Bootstrap, for any number of processes, keys and codes,    *)
(* any faults of the store and any overlap of boots and commands: what can *)
(* cost clients their tokens or change the pairing code is exactly what    *)
(* the two history variables count.                                        *)
(***************************************************************************)
EXTENDS Bootstrap, TLAPS

\* Every variable of Bootstrap keeps its type, so no process ever signs with a
\* key that GetKey refused (loadOrCreateKey, "refusing to sign with a weak key").
THEOREM TypeCorrect == Spec => []TypeOK
<1>1. Init => TypeOK
  BY BootAssumption DEF Init, TypeOK
<1>2. TypeOK /\ [Next]_vars => TypeOK'
  <2> SUFFICES ASSUME TypeOK, [Next]_vars PROVE TypeOK'
    OBVIOUS
  <2> USE BootAssumption DEF TypeOK, Read, Forget, Wrote, KeyReplaced
  <2>1. ASSUME NEW p \in Procs, Start(p) PROVE TypeOK'
    BY <2>1 DEF Start, To
  <2>2. ASSUME NEW p \in Procs, GetKey(p) PROVE TypeOK'
    <3>1. CASE To(p, "getCode", storedKey) /\ storedKey \in Keys
      BY <2>2, <3>1 DEF GetKey, To
    <3>2. CASE To(p, "down", Absent)
      BY <2>2, <3>2 DEF GetKey, To
    <3>3. CASE To(p, "setKey", Absent)
      BY <2>2, <3>3 DEF GetKey, To
    <3> QED
      BY <2>2, <3>1, <3>2, <3>3 DEF GetKey, Gets
  <2>3. ASSUME NEW p \in Procs, GetCode(p) PROVE TypeOK'
    <3>1. PICK l \in {"setCode", "up"} : To(p, l, key[p])
      BY <2>3 DEF GetCode
    <3> QED
      BY <2>3, <3>1 DEF GetCode, To
  <2>4. ASSUME NEW p \in Procs, StoreError(p) PROVE TypeOK'
    BY <2>4 DEF StoreError, To
  <2>5. ASSUME NEW p \in Procs, Stop(p) PROVE TypeOK'
    BY <2>5 DEF Stop, To
  <2>6. ASSUME NEW p \in Procs, Mint(p) PROVE TypeOK'
    BY <2>6 DEF Mint
  <2>7. ASSUME NEW p \in Procs, NEW k \in Keys, SetKey(p, k) PROVE TypeOK'
    BY <2>7 DEF SetKey, To
  <2>8. ASSUME NEW p \in Procs, NEW c \in Codes, SetCode(p, c) PROVE TypeOK'
    BY <2>8 DEF SetCode, To
  <2>9. ASSUME NEW c \in Codes, PairRotate(c) PROVE TypeOK'
    BY <2>9 DEF PairRotate
  <2>0. KeyWiped => mishaps' \subseteq {"misread", "race", "reset"}
    BY DEF KeyWiped
  <2>10. CASE PairReset
    BY <2>0, <2>10 DEF PairReset
  <2>11. CASE PairResetFails
    <3>1. /\ storedKey' \in {storedKey, Absent} /\ storedCode' \in {storedCode, Absent}
          /\ UNCHANGED <<pc, key, drawn, misled>>
      BY <2>11 DEF PairResetFails
    <3>2. ops < MaxOps /\ ops' = ops + 1
      BY <2>11 DEF PairResetFails
    <3>3. ops' \in 0..MaxOps
      BY <3>2
    <3>4. \/ minted' = {} /\ KeyWiped
          \/ UNCHANGED <<minted, mishaps>>
      BY <2>11 DEF PairResetFails
    <3>5. minted' \subseteq Keys /\ mishaps' \subseteq {"misread", "race", "reset"}
      BY <2>0, <3>4
    <3> QED
      BY <3>1, <3>3, <3>5
  <2>12. CASE Cut
    BY <2>12 DEF Cut
  <2>13. CASE UNCHANGED vars
    BY <2>13 DEF vars
  <2> QED
    BY <2>1, <2>2, <2>3, <2>4, <2>5, <2>6, <2>7, <2>8, <2>9, <2>10, <2>11, <2>12, <2>13 DEF Next
<1> QED
  BY <1>1, <1>2, PTL DEF Spec

\* A write of an entry marks every other process about to create it.
LEMMA WroteMarks ==
  ASSUME NEW w, NEW l, TypeOK, Wrote(w, l)
  PROVE  /\ w \in Procs => misled'[w] = "no"
         /\ \A q \in Procs \ {w} : pc[q] = l => misled'[q] = "race"
         /\ \A q \in Procs \ {w} : pc[q] # l => misled'[q] = misled[q]
  BY DEF Wrote, TypeOK

\* A step keeps what explains the mishaps.
LEMMA ExplainedStep ==
  ASSUME TypeOK, TypeOK', KeysAgree, [Next]_vars
  PROVE  Explained'
<1> USE BootAssumption DEF TypeOK, KeysAgree, Explained, Booting
<1>1. ASSUME NEW p \in Procs, Start(p) PROVE Explained'
  BY <1>1 DEF Start, To, Settled
<1>2. ASSUME NEW p \in Procs, GetKey(p) PROVE Explained'
  <2>1. PICK seen \in Gets(storedKey) :
          /\ \/ seen \in Keys /\ To(p, "getCode", seen)
             \/ seen = Weak /\ To(p, "down", Absent)
             \/ seen = Absent /\ To(p, "setKey", Absent)
          /\ Read(p, storedKey, seen)
    BY <1>2 DEF GetKey
  <2>2. seen # storedKey => seen = Absent /\ "silent" \in Faults
    BY DEF Gets
  <2> QED
    BY <1>2, <2>1, <2>2 DEF GetKey, To, Read
<1>3. ASSUME NEW p \in Procs, GetCode(p) PROVE Explained'
  <2>1. PICK seen \in Gets(storedCode) :
          /\ To(p, IF seen = Absent THEN "setCode" ELSE "up", key[p])
          /\ Read(p, storedCode, seen)
    BY <1>3 DEF GetCode
  <2>2. seen # storedCode => seen = Absent /\ "silent" \in Faults
    BY DEF Gets
  <2> QED
    BY <1>3, <2>1, <2>2 DEF GetCode, To, Read
<1>4. ASSUME NEW p \in Procs, StoreError(p) PROVE Explained'
  BY <1>4 DEF StoreError, To, Forget, Wrote, KeyReplaced
<1>5. ASSUME NEW p \in Procs, Stop(p) PROVE Explained'
  BY <1>5 DEF Stop, To, Forget
<1>6. ASSUME NEW p \in Procs, Mint(p) PROVE Explained'
  BY <1>6 DEF Mint
<1>7. ASSUME NEW p \in Procs, NEW k \in Keys, SetKey(p, k) PROVE Explained'
  BY <1>7 DEF SetKey, To, Wrote, KeyReplaced
<1>8. ASSUME NEW p \in Procs, NEW c \in Codes, SetCode(p, c) PROVE Explained'
  BY <1>8 DEF SetCode, To, Wrote
<1>9. ASSUME NEW c \in Codes, PairRotate(c) PROVE Explained'
  BY <1>9 DEF PairRotate, Wrote, Settled
<1>10. CASE PairReset
  BY <1>10 DEF PairReset, KeyWiped
<1>11. CASE PairResetFails
  BY <1>11 DEF PairResetFails, KeyWiped
<1>12. CASE Cut
  BY <1>12 DEF Cut
<1>13. CASE UNCHANGED vars
  BY <1>13 DEF vars
<1> QED
  BY <1>1, <1>2, <1>3, <1>4, <1>5, <1>6, <1>7, <1>8, <1>9, <1>10, <1>11, <1>12, <1>13 DEF Next

\* A step keeps the agreement of absent entries with those about to create them
\* and of all keys held and minted with the stored one.
LEMMA KeysAgreeStep ==
  ASSUME TypeOK, TypeOK', KeysAgree, [Next]_vars
  PROVE  CreatesAbsent' /\ OneKey'
<1> USE BootAssumption DEF TypeOK, KeysAgree, CreatesAbsent, OneKey
<1>1. ASSUME NEW p \in Procs, Start(p) PROVE CreatesAbsent' /\ OneKey'
  BY <1>1 DEF Start, To
<1>2. ASSUME NEW p \in Procs, GetKey(p) PROVE CreatesAbsent' /\ OneKey'
  <2>1. PICK seen \in Gets(storedKey) :
          /\ \/ seen \in Keys /\ To(p, "getCode", seen)
             \/ seen = Weak /\ To(p, "down", Absent)
             \/ seen = Absent /\ To(p, "setKey", Absent)
          /\ Read(p, storedKey, seen)
    BY <1>2 DEF GetKey
  <2>2. seen # storedKey => seen = Absent
    BY DEF Gets
  <2>3. UNCHANGED <<storedKey, storedCode, minted, mishaps>>
    BY <1>2 DEF GetKey
  <2>4. CreatesAbsent'
    BY <2>1, <2>2, <2>3 DEF To, Read
  <2>5. OneKey'
    BY <2>1, <2>2, <2>3 DEF To
  <2> QED
    BY <2>4, <2>5
<1>3. ASSUME NEW p \in Procs, GetCode(p) PROVE CreatesAbsent' /\ OneKey'
  <2>1. PICK seen \in Gets(storedCode) :
          /\ To(p, IF seen = Absent THEN "setCode" ELSE "up", key[p])
          /\ Read(p, storedCode, seen)
    BY <1>3 DEF GetCode
  <2>2. UNCHANGED <<storedKey, storedCode, minted, mishaps>>
    BY <1>3 DEF GetCode
  <2>3. CreatesAbsent'
    BY <2>1, <2>2 DEF To, Read
  <2>4. key' = key
    BY <2>1 DEF To
  <2> QED
    BY <2>2, <2>3, <2>4
<1>4. ASSUME NEW p \in Procs, pc[p] = "setKey", storedKey' \in Keys,
             Wrote(p, "setKey"), KeyReplaced(p), UNCHANGED <<storedCode, minted>>,
             \/ To(p, "down", Absent)
             \/ To(p, "getCode", storedKey')
      PROVE  CreatesAbsent' /\ OneKey'
  <2>1. CreatesAbsent'
    BY <1>4, WroteMarks DEF To
  <2>2. SUFFICES ASSUME mishaps' = {} PROVE OneKey'
    BY <2>1
  <2>3. mishaps = {} /\ storedKey = Absent
    BY <1>4, <2>2 DEF KeyReplaced
  <2>4. minted = {} /\ \A q \in Procs : key[q] = Absent
    BY <2>3
  <2> QED
    BY <1>4, <2>4 DEF To
<1>5. ASSUME NEW w, NEW c \in Codes, storedCode' = c, Wrote(w, "setCode"),
             UNCHANGED <<storedKey, minted, mishaps>>,
             \A q \in Procs \ {w} : pc'[q] = pc[q],
             w \in Procs => pc'[w] \in {"up", "down"},
             \A q \in Procs : key'[q] \in {key[q], Absent}
      PROVE  CreatesAbsent' /\ OneKey'
  <2>1. CreatesAbsent'
    BY <1>5, WroteMarks
  <2>2. OneKey'
    BY <1>5
  <2> QED
    BY <2>1, <2>2
<1>6. ASSUME NEW p \in Procs, StoreError(p) PROVE CreatesAbsent' /\ OneKey'
  <2>1. CASE /\ Forget(p)
             /\ UNCHANGED <<storedKey, storedCode, drawn, mishaps>>
    BY <1>6, <2>1 DEF StoreError, To, Forget
  <2>2. CASE /\ pc[p] = "setKey"
             /\ \E k \in Keys \ drawn : storedKey' = k /\ drawn' = drawn \cup {k}
             /\ Wrote(p, "setKey") /\ KeyReplaced(p)
             /\ UNCHANGED storedCode
    BY <1>4, <1>6, <2>2 DEF StoreError
  <2>3. CASE /\ pc[p] = "setCode"
             /\ \E c \in Codes \ drawn : storedCode' = c /\ drawn' = drawn \cup {c}
             /\ Wrote(p, "setCode")
             /\ UNCHANGED <<storedKey, mishaps>>
    <3>1. PICK c \in Codes : storedCode' = c
      BY <2>3
    <3>2. /\ \A q \in Procs \ {p} : pc'[q] = pc[q]
          /\ pc'[p] = "down" /\ UNCHANGED minted
          /\ \A q \in Procs : key'[q] \in {key[q], Absent}
      BY <1>6 DEF StoreError, To
    <3> QED
      BY <1>5, <2>3, <3>1, <3>2
  <2> QED
    BY <1>6, <2>1, <2>2, <2>3 DEF StoreError
<1>7. ASSUME NEW p \in Procs, Stop(p) PROVE CreatesAbsent' /\ OneKey'
  BY <1>7 DEF Stop, To, Forget
<1>8. ASSUME NEW p \in Procs, Mint(p) PROVE CreatesAbsent' /\ OneKey'
  BY <1>8 DEF Mint
<1>9. ASSUME NEW p \in Procs, NEW k \in Keys, SetKey(p, k) PROVE CreatesAbsent' /\ OneKey'
  BY <1>4, <1>9 DEF SetKey
<1>10. ASSUME NEW p \in Procs, NEW c \in Codes, SetCode(p, c) PROVE CreatesAbsent' /\ OneKey'
  <2>1. /\ \A q \in Procs \ {p} : pc'[q] = pc[q]
        /\ pc'[p] = "up" /\ \A q \in Procs : key'[q] \in {key[q], Absent}
    BY <1>10 DEF SetCode, To
  <2> QED
    BY <1>5, <1>10, <2>1 DEF SetCode
<1>11. ASSUME NEW c \in Codes, PairRotate(c) PROVE CreatesAbsent' /\ OneKey'
  BY <1>5, <1>11 DEF PairRotate
<1>12. ASSUME PairReset \/ PairResetFails PROVE CreatesAbsent' /\ OneKey'
  <2>1. /\ storedKey' \in {storedKey, Absent} /\ storedCode' \in {storedCode, Absent}
        /\ UNCHANGED <<pc, key, misled>>
        /\ \/ minted' = {} /\ KeyWiped
           \/ storedKey' = storedKey /\ UNCHANGED <<minted, mishaps>>
    BY <1>12 DEF PairReset, PairResetFails
  <2> QED
    BY <2>1 DEF KeyWiped
<1>13. CASE Cut
  BY <1>13 DEF Cut
<1>14. CASE UNCHANGED vars
  BY <1>14 DEF vars
<1> QED
  BY <1>1, <1>2, <1>3, <1>6, <1>7, <1>8, <1>9, <1>10, <1>11, <1>12, <1>13, <1>14 DEF Next

\* For all faults and overlaps: loadOrCreateKey and Pairing.Code create what is
\* absent unless they were misled, keys agree while there was no mishap, and
\* nothing but silent misreads and overlapping boots or commands misleads.
THEOREM KeysAgreeInvariant == Spec => []KeysAgree
<1>1. Init => KeysAgree
  BY DEF Init, KeysAgree, CreatesAbsent, OneKey, Explained, Booting
<1>2. TypeOK /\ TypeOK' /\ KeysAgree /\ [Next]_vars => KeysAgree'
  BY KeysAgreeStep, ExplainedStep DEF KeysAgree
<1> QED
  BY <1>1, <1>2, TypeCorrect, PTL DEF Spec

\* Tokens survive restarts (oauth/token.go, loadOrCreateKey): without a mishap
\* every server that is up accepts every token minted since the last reset.
THEOREM TokensSurviveTheorem == Spec => []TokensSurvive
<1>1. TypeOK /\ KeysAgree => TokensSurvive
  BY BootAssumption DEF TypeOK, KeysAgree, OneKey, TokensSurvive
<1> QED
  BY <1>1, TypeCorrect, KeysAgreeInvariant, PTL

\* The shared pairing code changes by `pair rotate` and `pair reset` only
\* (oauth/pairing.go, Code): a boot never replaces it unless it was misled.
THEOREM CodeStableTheorem == Spec => CodeStable
<1> DEFINE Misled == \E p \in Procs : pc[p] = "setCode" /\ pc'[p] # "setCode" /\ misled[p] # "no"
<1>1. TypeOK /\ KeysAgree /\ [Next]_vars
        => [ops' = ops /\ storedCode # Absent /\ storedCode' # storedCode => Misled]_vars
  <2> SUFFICES ASSUME TypeOK, KeysAgree, Next, ops' = ops,
                      storedCode # Absent, storedCode' # storedCode
               PROVE  Misled
    BY DEF vars
  <2> USE DEF TypeOK, KeysAgree, CreatesAbsent
  <2>1. ASSUME NEW p \in Procs, Start(p) \/ GetKey(p) \/ GetCode(p) \/ Stop(p) \/ Mint(p)
        PROVE  FALSE
    BY <2>1 DEF Start, GetKey, GetCode, Stop, Mint
  <2>2. ASSUME NEW p \in Procs, StoreError(p) PROVE Misled
    <3>1. pc[p] = "setCode" /\ pc'[p] = "down"
      BY <2>2 DEF StoreError, To
    <3> QED
      BY <3>1
  <2>3. ASSUME NEW p \in Procs, NEW k \in Keys, SetKey(p, k) PROVE FALSE
    BY <2>3 DEF SetKey
  <2>4. ASSUME NEW p \in Procs, NEW c \in Codes, SetCode(p, c) PROVE Misled
    <3>1. pc[p] = "setCode" /\ pc'[p] = "up"
      BY <2>4 DEF SetCode, To
    <3> QED
      BY <3>1
  <2>5. ASSUME NEW c \in Codes, PairRotate(c) PROVE FALSE
    BY <2>5, BootAssumption DEF PairRotate
  <2>6. ~ PairReset /\ ~ PairResetFails
    BY BootAssumption DEF PairReset, PairResetFails
  <2>7. CASE Cut
    BY <2>7 DEF Cut
  <2> QED
    BY <2>1, <2>2, <2>3, <2>4, <2>5, <2>6, <2>7 DEF Next
<1> QED
  BY <1>1, TypeCorrect, KeysAgreeInvariant, PTL DEF Spec, CodeStable
=============================================================================
