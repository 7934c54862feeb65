---------------------------- MODULE JsonMapStore ----------------------------
(***************************************************************************)
(* oauth/mapstore.go: jsonMapStore keeps a whole map as ONE document under *)
(* one SecretStore key and serialises load-modify-save with a mutex.  The  *)
(* mutex belongs to the Go value, the document to the host keyring: two    *)
(* values over the same key (two processes, or the fresh refreshStore of   *)
(* RemovePrincipal) share the document and not the mutex.  InstanceOf      *)
(* says through which value each thread goes.                              *)
(***************************************************************************)
CONSTANTS Keys, Vals, Absent, Err, Threads,
  Instances,   \* jsonMapStore values over the one document
  InstanceOf,  \* the value each thread calls
  Faults       \* what the SecretStore may do, a subset of AtomicMap's FaultKinds

ASSUME InstanceOfType == InstanceOf \in [Threads -> Instances]
ASSUME AbsentNoThread == Absent \notin Threads
ASSUME NothingConfused == Absent \notin Vals /\ Err \notin Vals /\ Absent # Err

VARIABLES
  doc,   \* the document in the SecretStore (an absent key loads as empty)
  mu,    \* the mutex of each instance: its holder, or Absent
  pc,    \* where each thread is
  op,    \* the operation it is executing
  buf,   \* the map fn has updated and save will marshal
  res,   \* the result the operation will return
  blind  \* history: the threads whose Get reported the document as absent

vars == <<doc, mu, pc, op, buf, res, blind>>

(***************************************************************************)
(* The state of AtomicMap this state stands for: a call that has not yet   *)
(* returned is pending until the step that decides it.                     *)
(***************************************************************************)
statusBar ==
  [t \in Threads |-> IF pc[t] = "idle" THEN "idle"
                    ELSE IF pc[t] = "return" THEN "done" ELSE "pending"]
retBar == [t \in Threads |-> IF pc[t] = "return" THEN res[t] ELSE Absent]
blindBar == {t \in blind : pc[t] = "return"}

AM == INSTANCE AtomicMap WITH status <- statusBar, ret <- retBar, blind <- blindBar

ASSUME FaultsAssumption == Faults \subseteq AM!FaultKinds

Map == AM!Map
Op == AM!Op
NoMap == AM!EmptyMap

TypeOK ==
  /\ doc \in Map
  /\ mu \in [Instances -> Threads \cup {Absent}]
  /\ pc \in [Threads -> {"idle", "call", "load", "save", "return"}]
  /\ op \in [Threads -> Op \cup {Absent}]
  /\ \A t \in Threads : pc[t] # "idle" => op[t] \in Op
  /\ buf \in [Threads -> Map]
  /\ res \in [Threads -> Vals \cup {Absent, Err} \cup Map]
  /\ blind \subseteq {t \in Threads : pc[t] \in {"save", "return"}}

Init ==
  /\ doc = NoMap
  /\ mu = [i \in Instances |-> Absent]
  /\ pc = [t \in Threads |-> "idle"]
  /\ op = [t \in Threads |-> Absent]
  /\ buf = [t \in Threads |-> NoMap]
  /\ res = [t \in Threads |-> Absent]
  /\ blind = {}

-----------------------------------------------------------------------------

Call(t, o) ==
  /\ pc[t] = "idle"
  /\ pc' = [pc EXCEPT ![t] = "call"]
  /\ op' = [op EXCEPT ![t] = o]
  /\ UNCHANGED <<doc, mu, buf, res, blind>>

\* Mutant of Lock: the mutex is not waited for (a copied jsonMapStore value).
LockFree(t) ==
  /\ pc[t] = "call" /\ op[t].kind # "list"
  /\ mu' = [mu EXCEPT ![InstanceOf[t]] = t]
  /\ pc' = [pc EXCEPT ![t] = "load"]
  /\ UNCHANGED <<doc, op, buf, res, blind>>

\* s.mu.Lock() at the head of get and mutate.
Lock(t) ==
  /\ pc[t] = "call" /\ op[t].kind # "list"
  /\ mu[InstanceOf[t]] = Absent
  /\ mu' = [mu EXCEPT ![InstanceOf[t]] = t]
  /\ pc' = [pc EXCEPT ![t] = "load"]
  /\ UNCHANGED <<doc, op, buf, res, blind>>

\* SecretStore.Get hands load() the map m: the stored one or, when the read of
\* the backend fails, the empty one (KeyringStore.Get drops the difference).
Gets(t, m) ==
  \/ m = doc /\ UNCHANGED blind
  \/ "silent" \in Faults /\ m = NoMap /\ doc # NoMap /\ blind' = blind \cup {t}

\* Principals and candidates call load() itself, without the mutex.
List(t) ==
  /\ pc[t] = "call" /\ op[t].kind = "list"
  /\ \E m \in {doc, NoMap} :
       Gets(t, m) /\ res' = [res EXCEPT ![t] = AM!Result(op[t], m)]
  /\ pc' = [pc EXCEPT ![t] = "return"]
  /\ UNCHANGED <<doc, mu, op, buf>>

Unlock(t) == mu' = [mu EXCEPT ![InstanceOf[t]] = Absent]

\* Mutant of Load: the mutex guards the read only, as if load locked by itself.
LoadUnlocks(t) ==
  /\ pc[t] = "load"
  /\ \E m \in {doc, NoMap} :
       /\ Gets(t, m)
       /\ res' = [res EXCEPT ![t] = AM!Result(op[t], m)]
       /\ buf' = [buf EXCEPT ![t] = AM!After(op[t], m)]
       /\ pc' = [pc EXCEPT ![t] = IF AM!Changes(op[t], m) THEN "save" ELSE "return"]
  /\ Unlock(t)
  /\ UNCHANGED <<doc, op>>

\* load() and fn: a change goes on to save, anything else unlocks and returns.
Load(t) ==
  /\ pc[t] = "load"
  /\ \E m \in {doc, NoMap} :
       /\ Gets(t, m)
       /\ res' = [res EXCEPT ![t] = AM!Result(op[t], m)]
       /\ IF AM!Changes(op[t], m)
            THEN /\ buf' = [buf EXCEPT ![t] = AM!After(op[t], m)]
                 /\ pc' = [pc EXCEPT ![t] = "save"]
                 /\ UNCHANGED mu
            ELSE /\ Unlock(t)
                 /\ pc' = [pc EXCEPT ![t] = "return"]
                 /\ UNCHANGED buf
  /\ UNCHANGED <<doc, op>>

\* Mutant of Save: it stores what fn returned to the caller, not the map.
SaveResult(t) ==
  /\ pc[t] = "save"
  /\ doc' = res[t]
  /\ buf' = [buf EXCEPT ![t] = NoMap]
  /\ Unlock(t)
  /\ pc' = [pc EXCEPT ![t] = "return"]
  /\ UNCHANGED <<op, res, blind>>

\* save(): the whole document is replaced, then the deferred Unlock runs.
Save(t) ==
  /\ pc[t] = "save"
  /\ doc' = buf[t]
  /\ buf' = [buf EXCEPT ![t] = NoMap]
  /\ Unlock(t)
  /\ pc' = [pc EXCEPT ![t] = "return"]
  /\ UNCHANGED <<op, res, blind>>

\* Mutant of StoreError: the error paths return without unlocking.
StoreErrorKeepsLock(t) ==
  /\ pc[t] \in {"load", "save"} \/ (pc[t] = "call" /\ op[t].kind = "list")
  /\ res' = [res EXCEPT ![t] = Err]
  /\ buf' = [buf EXCEPT ![t] = NoMap]
  /\ pc' = [pc EXCEPT ![t] = "return"]
  /\ UNCHANGED <<doc, mu, op, blind>>

\* SecretStore.Get or Set fails (or the document does not parse): the error
\* is returned and the deferred Unlock runs.  A Set that reports an error may
\* have replaced the document all the same.
StoreError(t) ==
  /\ pc[t] \in {"load", "save"} \/ (pc[t] = "call" /\ op[t].kind = "list")
  /\ \/ UNCHANGED doc
     \/ "late" \in Faults /\ pc[t] = "save" /\ doc' = buf[t]
  /\ IF pc[t] = "call" THEN UNCHANGED mu ELSE Unlock(t)
  /\ res' = [res EXCEPT ![t] = Err]
  /\ buf' = [buf EXCEPT ![t] = NoMap]
  /\ pc' = [pc EXCEPT ![t] = "return"]
  /\ UNCHANGED <<op, blind>>

Return(t) ==
  /\ pc[t] = "return"
  /\ pc' = [pc EXCEPT ![t] = "idle"]
  /\ op' = [op EXCEPT ![t] = Absent]
  /\ res' = [res EXCEPT ![t] = Absent]
  /\ blind' = blind \ {t}
  /\ UNCHANGED <<doc, mu, buf>>

\* The process that owns instance i dies; the keyring keeps the document.
Crash(i) ==
  LET gone == {t \in Threads : InstanceOf[t] = i} IN
  /\ mu' = [mu EXCEPT ![i] = Absent]
  /\ pc' = [t \in Threads |-> IF t \in gone THEN "idle" ELSE pc[t]]
  /\ op' = [t \in Threads |-> IF t \in gone THEN Absent ELSE op[t]]
  /\ buf' = [t \in Threads |-> IF t \in gone THEN NoMap ELSE buf[t]]
  /\ res' = [t \in Threads |-> IF t \in gone THEN Absent ELSE res[t]]
  /\ blind' = blind \ gone
  /\ UNCHANGED doc

Step(t) == Load(t) \/ Save(t) \/ StoreError(t) \/ List(t) \/ Return(t)

Next ==
  \/ \E t \in Threads : \/ \E o \in Op : Call(t, o)
                        \/ Lock(t)
                        \/ Step(t)
  \/ \E i \in Instances : Crash(i)

Spec == Init /\ [][Next]_vars

(***************************************************************************)
(* A goroutine that can run does (the Go scheduler), and a goroutine       *)
(* waiting for a sync.Mutex is not overtaken forever (its starvation mode  *)
(* hands the lock over in FIFO order): strong fairness on Lock.            *)
(***************************************************************************)
FairSpec ==
  /\ Spec
  /\ \A t \in Threads : WF_vars(Step(t)) /\ SF_vars(Lock(t))

-----------------------------------------------------------------------------
(***************************************************************************)
(* Properties                                                              *)
(***************************************************************************)

\* The mutex is held exactly by the thread between Lock and the deferred
\* Unlock: no error path leaks it and no other thread is inside.
MutexDiscipline ==
  /\ \A t \in Threads : pc[t] \in {"load", "save"} => mu[InstanceOf[t]] = t
  /\ \A i \in Instances : mu[i] # Absent =>
        InstanceOf[mu[i]] = i /\ pc[mu[i]] \in {"load", "save"}

\* What load() gave the thread, as the store holds it now.
Loaded(t) == IF t \in blind THEN NoMap ELSE doc

\* mapstore.go:32: mutate is "the atomic read-modify-write both registries are
\* built on".  What a thread is about to save is its operation applied to what
\* the store holds NOW, and what it will return is that operation's result.  A
\* thread whose own Get misread the document as absent saves the operation
\* applied to the empty map, and that costs every other entry; no thread loses
\* an entry in any other way.
NoLostUpdate ==
  \A t \in Threads : pc[t] = "save" =>
    /\ AM!Changes(op[t], Loaded(t))
    /\ buf[t] = AM!After(op[t], Loaded(t))
    /\ res[t] = AM!Result(op[t], Loaded(t))

\* Every operation of the store takes effect at one instant between its call
\* and its return, on the stored map or, when its own Get misread that as
\* absent, on the empty one; and an error leaves no effect, or the whole effect
\* of the failed Set: whatever the interleaving, the faults and the crashes.
Atomic == AM!ASpec

\* Every call of get, mutate and load returns: no thread waits forever for the
\* mutex and no path leaves it locked.
CallsReturn == \A t \in Threads : pc[t] # "idle" ~> pc[t] = "idle"
=============================================================================
