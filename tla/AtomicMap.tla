----------------------------- MODULE AtomicMap -----------------------------
(***************************************************************************)
(* What a jsonMapStore promises its callers (oauth/mapstore.go): a map     *)
(* whose operations each take effect at one instant between the call and   *)
(* its return, and whose errors leave no effect or the whole effect.  It   *)
(* can promise no more about the map an operation starts from than its     *)
(* SecretStore does: KeyringStore.Get (oauth/store.go) reports a failed    *)
(* read of the backend as an absent document, and an operation that meets  *)
(* one runs on the empty map.  JsonMapStore is the detailed specification  *)
(* that is shown to implement this one.                                    *)
(***************************************************************************)
CONSTANTS
  Keys,     \* keys of the persisted map (client ids, refresh tokens, names)
  Vals,     \* values; all a sweep looks at is equality of (a field of) them
  Absent,   \* "no entry"; also the result of an operation that returns none
  Err,      \* the error result
  Threads,  \* callers
  Faults    \* what the SecretStore may do, a subset of FaultKinds

\* "late": a Set that reports an error has taken effect all the same;
\* "silent": Get reports a failed read as an absent document.
FaultKinds == {"late", "silent"}

(***************************************************************************)
(* The operations the three registries build from get, mutate and load.    *)
(***************************************************************************)
Op == [kind : {"get", "take"}, key : Keys]
        \cup [kind : {"put"}, key : Keys, val : Vals]
        \cup [kind : {"sweep"}, val : Vals]
        \cup [kind : {"list"}]

Map == [Keys -> Vals \cup {Absent}]

EmptyMap == [k \in Keys |-> Absent]

\* Does fn(m) report a change?  get and list never reach save.
Changes(o, m) ==
  \/ o.kind = "put"
  \/ o.kind = "take" /\ m[o.key] # Absent
  \/ o.kind = "sweep" /\ \E k \in Keys : m[k] = o.val

\* The keys fn deletes.
Deletes(o, k, m) ==
  \/ o.kind = "take" /\ k = o.key
  \/ o.kind = "sweep" /\ m[k] = o.val

\* The map after fn has run on m.
After(o, m) ==
  [k \in Keys |-> IF o.kind = "put" /\ k = o.key THEN o.val
                 ELSE IF Deletes(o, k, m) THEN Absent ELSE m[k]]

\* What the caller gets: the entry (get, take), the map (list), or nothing.
Result(o, m) ==
  IF o.kind \in {"get", "take"} THEN m[o.key]
  ELSE IF o.kind = "list" THEN m ELSE Absent

VARIABLES
  doc,     \* the map
  status,  \* "idle", "pending" or "done", of each caller
  op, ret, \* its operation and what that will return
  blind    \* the callers whose decided operation ran on a misread, empty map

avars == <<doc, status, op, ret, blind>>

AInit ==
  /\ doc = EmptyMap
  /\ status = [t \in Threads |-> "idle"]
  /\ op = [t \in Threads |-> Absent]
  /\ ret = [t \in Threads |-> Absent]
  /\ blind = {}

ACall(t, o) ==
  /\ status[t] = "idle"
  /\ status' = [status EXCEPT ![t] = "pending"]
  /\ op' = [op EXCEPT ![t] = o]
  /\ UNCHANGED <<doc, ret, blind>>

\* The operation of t works on m: the map, or the empty one it was misread as.
WorksOn(t, m) ==
  \/ m = doc /\ UNCHANGED blind
  \/ "silent" \in Faults /\ m = EmptyMap /\ blind' = blind \cup {t}

\* The whole read-modify-write, at once.
Perform(t) ==
  /\ status[t] = "pending"
  /\ \E m \in {doc, EmptyMap} :
       /\ WorksOn(t, m)
       /\ doc' = IF Changes(op[t], m) THEN After(op[t], m) ELSE doc
       /\ ret' = [ret EXCEPT ![t] = Result(op[t], m)]
  /\ status' = [status EXCEPT ![t] = "done"]
  /\ UNCHANGED op

\* The store reported an error: the map is as it was, or as after Perform.
Fail(t) ==
  /\ status[t] = "pending"
  /\ \E m \in {doc, EmptyMap} :
       /\ WorksOn(t, m)
       /\ \/ UNCHANGED doc
          \/ "late" \in Faults /\ Changes(op[t], m) /\ doc' = After(op[t], m)
  /\ ret' = [ret EXCEPT ![t] = Err]
  /\ status' = [status EXCEPT ![t] = "done"]
  /\ UNCHANGED op

AReturn(t) ==
  /\ status[t] = "done"
  /\ status' = [status EXCEPT ![t] = "idle"]
  /\ op' = [op EXCEPT ![t] = Absent]
  /\ ret' = [ret EXCEPT ![t] = Absent]
  /\ blind' = blind \ {t}
  /\ UNCHANGED doc

\* A process dies: its callers are gone, with or without their effect.
ACrash(S) ==
  /\ status' = [t \in Threads |-> IF t \in S THEN "idle" ELSE status[t]]
  /\ op' = [t \in Threads |-> IF t \in S THEN Absent ELSE op[t]]
  /\ ret' = [t \in Threads |-> IF t \in S THEN Absent ELSE ret[t]]
  /\ blind' = blind \ S
  /\ UNCHANGED doc

ANext ==
  \/ \E t \in Threads : \/ \E o \in Op : ACall(t, o)
                        \/ Perform(t)
                        \/ Fail(t)
                        \/ AReturn(t)
  \/ \E S \in SUBSET Threads : ACrash(S)

ASpec == AInit /\ [][ANext]_avars
=============================================================================
