------------------------- MODULE JsonMapStoreProofs -------------------------
(***************************************************************************)
(* For any number of keys, values and threads and any faults of the        *)
(* SecretStore: the types and the mutex discipline hold however the        *)
(* threads are spread over instances, and when every thread goes through   *)
(* ONE instance the store implements AtomicMap.                            *)
(***************************************************************************)
EXTENDS JsonMapStore, TLAPS

\* All callers go through one jsonMapStore value: the situation inside one
\* server process, where the registry holds the store as a field.
SharedInstance == \A s, t \in Threads : InstanceOf[s] = InstanceOf[t]

USE InstanceOfType, AbsentNoThread

-----------------------------------------------------------------------------
(***************************************************************************)
(* The operators of AtomicMap on well-typed arguments.                     *)
(***************************************************************************)

\* fn maps a map to a map (mapstore.go: mutate's callback edits m in place).
LEMMA AfterType ==
  ASSUME NEW o \in Op, NEW m \in Map PROVE AM!After(o, m) \in Map
  BY DEF Op, Map, AM!Op, AM!Map, AM!After, AM!Deletes

\* What get, take, put, sweep and list hand back has the type of res.
LEMMA ResultType ==
  ASSUME NEW o \in Op, NEW m \in Map
  PROVE  AM!Result(o, m) \in Vals \cup {Absent, Err} \cup Map
  BY DEF Op, Map, AM!Op, AM!Map, AM!Result

\* The map of a document that does not exist yet.
LEMMA EmptyMapType == NoMap \in Map
  BY DEF NoMap, Map, AM!EmptyMap, AM!Map

\* After Gets the thread has loaded m, and nobody else's view has changed.
LEMMA GetsLoads ==
  ASSUME NEW t \in Threads, NEW m \in {doc, NoMap}, t \notin blind, Gets(t, m),
         UNCHANGED doc
  PROVE  /\ m = Loaded(t)'
         /\ \A u \in Threads \ {t} : Loaded(u)' = Loaded(u)
         /\ blind \subseteq blind' /\ blind' \subseteq blind \cup {t}
  BY DEF Gets, Loaded, NoMap, AM!EmptyMap

-----------------------------------------------------------------------------
\* Types: every variable keeps its type, for all constants.
THEOREM TypeCorrect == Spec => []TypeOK
<1>1. Init => TypeOK
  BY EmptyMapType DEF Init, TypeOK
<1>2. TypeOK /\ [Next]_vars => TypeOK'
  <2> SUFFICES ASSUME TypeOK, [Next]_vars PROVE TypeOK'
    OBVIOUS
  <2> USE EmptyMapType DEF TypeOK
  <2>1. ASSUME NEW t \in Threads, NEW o \in Op, Call(t, o) PROVE TypeOK'
    BY <2>1 DEF Call
  <2>2. ASSUME NEW t \in Threads, Lock(t) PROVE TypeOK'
    BY <2>2 DEF Lock
  <2>3. ASSUME NEW t \in Threads, List(t) PROVE TypeOK'
    <3>1. op[t] \in Op
      BY <2>3 DEF List
    <3>2. PICK m \in {doc, NoMap} :
            Gets(t, m) /\ res' = [res EXCEPT ![t] = AM!Result(op[t], m)]
      BY <2>3 DEF List
    <3>3. AM!Result(op[t], m) \in Vals \cup {Absent, Err} \cup Map
      BY <3>1, ResultType
    <3>4. blind' \subseteq blind \cup {t}
      BY <3>2 DEF Gets
    <3>5. QED
      BY <2>3, <3>2, <3>3, <3>4 DEF List
  <2>4. ASSUME NEW t \in Threads, Load(t) PROVE TypeOK'
    <3>1. op[t] \in Op
      BY <2>4 DEF Load
    <3>2. PICK m \in {doc, NoMap} :
            /\ Gets(t, m)
            /\ res' = [res EXCEPT ![t] = AM!Result(op[t], m)]
            /\ IF AM!Changes(op[t], m)
                 THEN /\ buf' = [buf EXCEPT ![t] = AM!After(op[t], m)]
                      /\ pc' = [pc EXCEPT ![t] = "save"]
                      /\ UNCHANGED mu
                 ELSE /\ Unlock(t)
                      /\ pc' = [pc EXCEPT ![t] = "return"]
                      /\ UNCHANGED buf
      BY <2>4 DEF Load
    <3>3. /\ AM!Result(op[t], m) \in Vals \cup {Absent, Err} \cup Map
          /\ AM!After(op[t], m) \in Map
      BY <3>1, AfterType, ResultType
    <3>4. blind' \subseteq blind \cup {t}
      BY <3>2 DEF Gets
    <3>5. UNCHANGED <<doc, op>>
      BY <2>4 DEF Load
    <3>6. \E l \in {"save", "return"} : pc' = [pc EXCEPT ![t] = l]
      BY <3>2
    <3>7. mu' \in [Instances -> Threads \cup {Absent}] /\ buf' \in [Threads -> Map]
      BY <3>2, <3>3 DEF Unlock
    <3>8. blind' \subseteq {u \in Threads : pc'[u] \in {"save", "return"}}
      BY <2>4, <3>4, <3>6 DEF Load
    <3>9. QED
      BY <2>4, <3>1, <3>2, <3>3, <3>5, <3>6, <3>7, <3>8
  <2>5. ASSUME NEW t \in Threads, Save(t) PROVE TypeOK'
    BY <2>5 DEF Save, Unlock
  <2>6. ASSUME NEW t \in Threads, StoreError(t) PROVE TypeOK'
    BY <2>6 DEF StoreError, Unlock
  <2>7. ASSUME NEW t \in Threads, Return(t) PROVE TypeOK'
    BY <2>7 DEF Return
  <2>8. ASSUME NEW i \in Instances, Crash(i) PROVE TypeOK'
    BY <2>8 DEF Crash
  <2>9. CASE UNCHANGED vars
    BY <2>9 DEF vars
  <2>10. QED
    BY <2>1, <2>2, <2>3, <2>4, <2>5, <2>6, <2>7, <2>8, <2>9 DEF Next, Step
<1>3. QED
  BY <1>1, <1>2, PTL DEF Spec

-----------------------------------------------------------------------------
\* Mutual exclusion and no leaked mutex, whatever the sharing of instances:
\* each mutex is held exactly by the thread between Lock and Unlock.
THEOREM MutexCorrect == Spec => []MutexDiscipline
<1>1. Init => MutexDiscipline
  BY DEF Init, MutexDiscipline
<1>2. TypeOK /\ MutexDiscipline /\ [Next]_vars => MutexDiscipline'
  <2> SUFFICES ASSUME TypeOK, MutexDiscipline, [Next]_vars PROVE MutexDiscipline'
    OBVIOUS
  <2> USE DEF TypeOK, MutexDiscipline
  <2>1. ASSUME NEW t \in Threads, NEW o \in Op, Call(t, o) PROVE MutexDiscipline'
    BY <2>1 DEF Call
  <2>2. ASSUME NEW t \in Threads, Lock(t) PROVE MutexDiscipline'
    BY <2>2 DEF Lock
  <2>3. ASSUME NEW t \in Threads, List(t) PROVE MutexDiscipline'
    BY <2>3 DEF List
  <2>4. ASSUME NEW t \in Threads, Load(t) PROVE MutexDiscipline'
    BY <2>4 DEF Load, Unlock
  <2>5. ASSUME NEW t \in Threads, Save(t) PROVE MutexDiscipline'
    BY <2>5 DEF Save, Unlock
  <2>6. ASSUME NEW t \in Threads, StoreError(t) PROVE MutexDiscipline'
    BY <2>6 DEF StoreError, Unlock
  <2>7. ASSUME NEW t \in Threads, Return(t) PROVE MutexDiscipline'
    BY <2>7 DEF Return
  <2>8. ASSUME NEW i \in Instances, Crash(i) PROVE MutexDiscipline'
    BY <2>8 DEF Crash
  <2>9. CASE UNCHANGED vars
    BY <2>9 DEF vars
  <2>10. QED
    BY <2>1, <2>2, <2>3, <2>4, <2>5, <2>6, <2>7, <2>8, <2>9 DEF Next, Step
<1>3. QED
  BY <1>1, <1>2, TypeCorrect, PTL DEF Spec

-----------------------------------------------------------------------------
\* Only the holder of the one mutex is at save, so the document it loaded is
\* still the stored one: the read-modify-write of mutate loses no update.
THEOREM NoLostUpdateCorrect ==
  ASSUME SharedInstance PROVE Spec => []NoLostUpdate
<1>1. Init => NoLostUpdate
  BY DEF Init, NoLostUpdate
<1>2. TypeOK /\ MutexDiscipline /\ NoLostUpdate /\ [Next]_vars => NoLostUpdate'
  <2> DEFINE Saves(t, m) == /\ AM!Changes(op[t], m)
                            /\ buf[t] = AM!After(op[t], m)
                            /\ res[t] = AM!Result(op[t], m)
             Kept(t) == /\ pc[t] = "save"
                        /\ UNCHANGED <<op[t], buf[t], res[t], doc>>
                        /\ t \in blind' <=> t \in blind
  <2> SUFFICES ASSUME TypeOK, MutexDiscipline, NoLostUpdate, [Next]_vars,
                      NEW u \in Threads, pc'[u] = "save"
               PROVE  Saves(u, Loaded(u))'
    BY DEF NoLostUpdate
  <2> USE SharedInstance DEF TypeOK
  <2>1. ASSUME NEW t \in Threads, NEW o \in Op, Call(t, o) PROVE Kept(u)
    BY <2>1 DEF Call
  <2>2. ASSUME NEW t \in Threads, Lock(t) PROVE Kept(u)
    BY <2>2 DEF Lock
  <2>3. ASSUME NEW t \in Threads, List(t) PROVE Kept(u)
    BY <2>3 DEF List, Gets
  <2>4. ASSUME NEW t \in Threads, Load(t), u # t PROVE Kept(u)
    BY <2>4 DEF Load, Gets
  <2>5. ASSUME Load(u) PROVE Saves(u, Loaded(u))'
    <3>1. PICK m \in {doc, NoMap} :
            /\ Gets(u, m)
            /\ res' = [res EXCEPT ![u] = AM!Result(op[u], m)]
            /\ IF AM!Changes(op[u], m)
                 THEN buf' = [buf EXCEPT ![u] = AM!After(op[u], m)]
                 ELSE pc' = [pc EXCEPT ![u] = "return"]
      BY <2>5 DEF Load
    <3>2. UNCHANGED <<doc, op>> /\ u \notin blind
      BY <2>5 DEF Load
    <3>3. m = Loaded(u)'
      BY <3>1, <3>2, GetsLoads
    <3>4. /\ AM!Changes(op'[u], m)
          /\ buf'[u] = AM!After(op'[u], m)
          /\ res'[u] = AM!Result(op'[u], m)
      BY <3>1, <3>2
    <3>5. QED
      BY <3>3, <3>4
  <2>6. ASSUME NEW t \in Threads, Save(t) PROVE FALSE
    <3>1. u # t /\ pc[u] = "save" /\ pc[t] = "save"
      BY <2>6 DEF Save
    <3>2. QED
      BY <3>1 DEF MutexDiscipline, SharedInstance
  <2>7. ASSUME NEW t \in Threads, StoreError(t) PROVE Kept(u)
    <3>1. u # t /\ pc[u] = "save" /\ UNCHANGED <<op[u], buf[u], res[u], blind>>
      BY <2>7 DEF StoreError
    <3>2. pc[t] # "save"
      BY <3>1 DEF MutexDiscipline, SharedInstance
    <3>3. QED
      BY <2>7, <3>1, <3>2 DEF StoreError
  <2>8. ASSUME NEW t \in Threads, Return(t) PROVE Kept(u)
    BY <2>8 DEF Return
  <2>9. ASSUME NEW i \in Instances, Crash(i) PROVE Kept(u)
    BY <2>9 DEF Crash
  <2>10. ASSUME UNCHANGED vars PROVE Kept(u)
    BY <2>10 DEF vars
  <2>11. ASSUME Kept(u) PROVE Saves(u, Loaded(u))'
    <3>1. Loaded(u)' = Loaded(u)
      BY <2>11 DEF Loaded, NoMap, AM!EmptyMap
    <3>2. Saves(u, Loaded(u))
      BY <2>11 DEF NoLostUpdate
    <3>3. op'[u] = op[u] /\ buf'[u] = buf[u] /\ res'[u] = res[u]
      BY <2>11
    <3>4. /\ AM!Changes(op'[u], Loaded(u)')
          /\ buf'[u] = AM!After(op'[u], Loaded(u)')
          /\ res'[u] = AM!Result(op'[u], Loaded(u)')
      BY <3>1, <3>2, <3>3
    <3>5. QED
      BY <3>4
  <2>12. QED
    BY <2>1, <2>2, <2>3, <2>4, <2>5, <2>6, <2>7, <2>8, <2>9, <2>10, <2>11
       DEF Next, Step
<1>3. QED
  BY <1>1, <1>2, TypeCorrect, MutexCorrect, PTL DEF Spec

-----------------------------------------------------------------------------
\* Only a Get that passes failures off as absence leads a thread astray.
BlindBySilence == blind # {} => "silent" \in Faults

\* Without that fault load() returns the stored map (oauth/store.go, Get).
LEMMA BlindBySilenceCorrect == Spec => []BlindBySilence
<1>1. Init => BlindBySilence
  BY DEF Init, BlindBySilence
<1>2. BlindBySilence /\ [Next]_vars => BlindBySilence'
  <2> SUFFICES ASSUME BlindBySilence, [Next]_vars, blind' # {}, "silent" \notin Faults
               PROVE  FALSE
    BY DEF BlindBySilence
  <2>1. blind = {}
    BY DEF BlindBySilence
  <2>2. blind' = {}
    BY <2>1 DEF Next, vars, Step, Call, Lock, List, Load, Gets, Save, StoreError,
                Return, Crash
  <2>3. QED
    BY <2>2
<1>3. QED
  BY <1>1, <1>2, PTL DEF Spec

-----------------------------------------------------------------------------
\* The refinement: with one instance, the load-modify-save with its mutex,
\* its error paths, misread documents and crashes implements AtomicMap: every
\* operation acts at one instant on the map, or on the empty one its own Get
\* took it for, and its error leaves no effect or the whole one.  Call, Return
\* and Crash map to themselves, Lock to a stutter, StoreError to Fail, Save to
\* Perform; Load is Perform when nothing changed and a stutter otherwise.
THEOREM AtomicCorrect ==
  ASSUME SharedInstance PROVE Spec => Atomic
<1>1. Init => AM!AInit
  BY DEF Init, AM!AInit, statusBar, retBar, blindBar, NoMap
<1>2. TypeOK /\ BlindBySilence /\ NoLostUpdate /\ [Next]_vars
        => [AM!ANext]_(AM!avars)
  <2> SUFFICES ASSUME TypeOK, BlindBySilence, NoLostUpdate, [Next]_vars
               PROVE  AM!ANext \/ UNCHANGED AM!avars
    OBVIOUS
  <2> USE DEF TypeOK, statusBar, retBar, blindBar
  <2>1. ASSUME NEW t \in Threads, NEW o \in Op, Call(t, o) PROVE AM!ACall(t, o)
    BY <2>1 DEF Call, AM!ACall
  <2>2. ASSUME NEW t \in Threads, Lock(t) PROVE UNCHANGED AM!avars
    BY <2>2 DEF Lock, AM!avars
  <2>3. ASSUME NEW t \in Threads, List(t) PROVE AM!Perform(t)
    <3>1. PICK m \in {doc, NoMap} :
            Gets(t, m) /\ res' = [res EXCEPT ![t] = AM!Result(op[t], m)]
      BY <2>3 DEF List
    <3>2. AM!WorksOn(t, m) /\ m \in {doc, AM!EmptyMap}
      BY <2>3, <3>1 DEF List, Gets, AM!WorksOn, NoMap
    <3>3. ~ AM!Changes(op[t], m)
      BY <2>3 DEF List, AM!Changes
    <3>4. retBar' = [retBar EXCEPT ![t] = AM!Result(op[t], m)]
      BY <2>3, <3>1 DEF List
    <3>5. statusBar[t] = "pending" /\ statusBar' = [statusBar EXCEPT ![t] = "done"]
      BY <2>3 DEF List
    <3>6. UNCHANGED <<doc, op>>
      BY <2>3 DEF List
    <3>7. QED
      BY <3>2, <3>3, <3>4, <3>5, <3>6 DEF AM!Perform
  <2>4. ASSUME NEW t \in Threads, Load(t) PROVE AM!Perform(t) \/ UNCHANGED AM!avars
    <3>1. PICK m \in {doc, NoMap} :
            /\ Gets(t, m)
            /\ res' = [res EXCEPT ![t] = AM!Result(op[t], m)]
            /\ IF AM!Changes(op[t], m)
                 THEN pc' = [pc EXCEPT ![t] = "save"]
                 ELSE pc' = [pc EXCEPT ![t] = "return"]
      BY <2>4 DEF Load
    <3>2. pc[t] = "load" /\ UNCHANGED <<doc, op>>
      BY <2>4 DEF Load
    <3>3. CASE AM!Changes(op[t], m)
      <4>1. blind' \subseteq blind \cup {t} /\ blind \subseteq blind'
        BY <3>1 DEF Gets
      <4>2. blindBar' = blindBar /\ statusBar' = statusBar /\ retBar' = retBar
        BY <3>1, <3>2, <3>3, <4>1
      <4>3. QED
        BY <3>2, <4>2 DEF AM!avars
    <3>4. CASE ~ AM!Changes(op[t], m)
      <4>1. AM!WorksOn(t, m) /\ m \in {doc, AM!EmptyMap}
        BY <3>1, <3>2, <3>4 DEF Gets, AM!WorksOn, NoMap
      <4>2. retBar' = [retBar EXCEPT ![t] = AM!Result(op[t], m)]
        BY <3>1, <3>2, <3>4
      <4>3. statusBar[t] = "pending" /\ statusBar' = [statusBar EXCEPT ![t] = "done"]
        BY <3>1, <3>2, <3>4
      <4>4. QED
        BY <3>2, <3>4, <4>1, <4>2, <4>3 DEF AM!Perform
    <3>5. QED
      BY <3>3, <3>4
  <2>5. ASSUME NEW t \in Threads, pc[t] = "save", pc' = [pc EXCEPT ![t] = "return"],
               UNCHANGED blind
        PROVE  \E m \in {doc, AM!EmptyMap} : m = Loaded(t) /\ AM!WorksOn(t, m)
    <3>1. CASE t \in blind
      <4>1. "silent" \in Faults
        BY <3>1, <2>5 DEF BlindBySilence
      <4>2. blindBar' = blindBar \cup {t}
        BY <3>1, <2>5
      <4>3. PICK m \in {doc, AM!EmptyMap} : m = AM!EmptyMap
        OBVIOUS
      <4>4. AM!WorksOn(t, m)
        BY <4>1, <4>2, <4>3 DEF AM!WorksOn
      <4>5. Loaded(t) = m
        BY <3>1, <4>3 DEF Loaded, NoMap
      <4>6. QED
        BY <4>4, <4>5
    <3>2. CASE t \notin blind
      <4>1. blindBar' = blindBar
        BY <3>2, <2>5
      <4>2. PICK m \in {doc, AM!EmptyMap} : m = doc
        OBVIOUS
      <4>3. AM!WorksOn(t, m)
        BY <4>1, <4>2 DEF AM!WorksOn
      <4>4. Loaded(t) = m
        BY <3>2, <4>2 DEF Loaded
      <4>5. QED
        BY <4>3, <4>4
    <3>3. QED
      BY <3>1, <3>2
  <2>6. ASSUME NEW t \in Threads, Save(t) PROVE AM!Perform(t)
    <3>1. /\ AM!Changes(op[t], Loaded(t))
          /\ doc' = AM!After(op[t], Loaded(t))
          /\ res[t] = AM!Result(op[t], Loaded(t))
      BY <2>6 DEF Save, NoLostUpdate
    <3>2. retBar' = [retBar EXCEPT ![t] = AM!Result(op[t], Loaded(t))]
      BY <2>6, <3>1 DEF Save
    <3>3. PICK m \in {doc, AM!EmptyMap} : m = Loaded(t) /\ AM!WorksOn(t, m)
      BY <2>5, <2>6 DEF Save
    <3>4. UNCHANGED op
      BY <2>6 DEF Save
    <3>5. statusBar[t] = "pending" /\ statusBar' = [statusBar EXCEPT ![t] = "done"]
      BY <2>6 DEF Save
    <3>6. QED
      BY <3>1, <3>2, <3>3, <3>4, <3>5 DEF AM!Perform
  <2>7. ASSUME NEW t \in Threads, StoreError(t) PROVE AM!Fail(t)
    <3>1. retBar' = [retBar EXCEPT ![t] = Err] /\ UNCHANGED op
      BY <2>7 DEF StoreError
    <3>2. CASE pc[t] = "save"
      <4>1. AM!Changes(op[t], Loaded(t)) /\ buf[t] = AM!After(op[t], Loaded(t))
        BY <3>2 DEF NoLostUpdate
      <4>2. \/ UNCHANGED doc
            \/ "late" \in Faults /\ doc' = AM!After(op[t], Loaded(t))
        BY <2>7, <4>1 DEF StoreError
      <4>3. PICK m \in {doc, AM!EmptyMap} : m = Loaded(t) /\ AM!WorksOn(t, m)
        BY <2>5, <2>7, <3>2 DEF StoreError
      <4>4. statusBar[t] = "pending" /\ statusBar' = [statusBar EXCEPT ![t] = "done"]
        BY <2>7, <3>2 DEF StoreError
      <4>5. QED
        BY <3>1, <4>1, <4>2, <4>3, <4>4 DEF AM!Fail
    <3>3. CASE pc[t] # "save"
      <4>1. blindBar' = blindBar /\ UNCHANGED doc
        BY <2>7, <3>3 DEF StoreError
      <4>2. PICK m \in {doc, AM!EmptyMap} : m = doc /\ AM!WorksOn(t, m)
        BY <4>1 DEF AM!WorksOn
      <4>3. statusBar[t] = "pending" /\ statusBar' = [statusBar EXCEPT ![t] = "done"]
        BY <2>7, <3>3 DEF StoreError
      <4>4. QED
        BY <3>1, <4>1, <4>2, <4>3 DEF AM!Fail
    <3>4. QED
      BY <3>2, <3>3
  <2>8. ASSUME NEW t \in Threads, Return(t) PROVE AM!AReturn(t)
    BY <2>8 DEF Return, AM!AReturn
  <2>9. ASSUME NEW i \in Instances, Crash(i)
        PROVE  AM!ACrash({t \in Threads : InstanceOf[t] = i})
    BY <2>9 DEF Crash, AM!ACrash
  <2>10. CASE UNCHANGED vars
    BY <2>10 DEF vars, AM!avars
  <2>11. ASSUME NEW t \in Threads, AM!Perform(t) \/ AM!Fail(t) \/ AM!AReturn(t)
         PROVE  AM!ANext
    BY <2>11 DEF AM!ANext
  <2>12. ASSUME NEW i \in Instances, Crash(i) PROVE AM!ANext
    <3>1. {t \in Threads : InstanceOf[t] = i} \in SUBSET Threads
      OBVIOUS
    <3>2. QED
      BY <2>9, <2>12, <3>1 DEF AM!ANext
  <2>13. ASSUME NEW t \in Threads, NEW o \in Op, Call(t, o) PROVE AM!ANext
    BY <2>1, <2>13 DEF AM!ANext, Op
  <2>14. QED
    BY <2>2, <2>3, <2>4, <2>6, <2>7, <2>8, <2>10, <2>11, <2>12, <2>13
       DEF Next, Step
<1>3. QED
  BY <1>1, <1>2, TypeCorrect, BlindBySilenceCorrect, NoLostUpdateCorrect, PTL
     DEF Spec, Atomic, AM!ASpec
=============================================================================
