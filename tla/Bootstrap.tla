----------------------------- MODULE Bootstrap -----------------------------
(***************************************************************************)
(* Server processes that share one secret store, over starts, crashes and  *)
(* restarts: loadOrCreateKey (oauth/token.go) and Pairing.Code             *)
(* (oauth/pairing.go) on KeyringStore (oauth/store.go), with `pair rotate` *)
(* and `pair reset` (pair.go) beside them.                                 *)
(*                                                                         *)
(* AuthServer models one server and everything it serves; here there are   *)
(* several, each store access is a step, and only keys and codes matter.   *)
(***************************************************************************)
EXTENDS Naturals

CONSTANTS
  Procs,    \* server processes, each started any number of times
  Keys,     \* bound: signing keys ever generated
  Codes,    \* bound: pairing codes ever generated
  MaxOps,   \* bound: `pair` commands
  Overlap,  \* may a process boot, or `pair` run, while another one boots?
  Faults,   \* a subset of FaultKinds
  Weak,     \* a stored key too short or not base64url
  Absent

\* "store": an access returns an error (a Set that does may have taken effect);
\* "cut": the stored key is truncated; "silent": Get reports a failure of the
\* backend as an absent entry.
FaultKinds == {"store", "cut", "silent"}

ASSUME BootAssumption ==
  /\ MaxOps \in Nat /\ Overlap \in BOOLEAN /\ Faults \subseteq FaultKinds
  /\ Weak # Absent /\ {Weak, Absent} \cap Keys = {} /\ Absent \notin Codes \cup Procs

VARIABLES
  storedKey, storedCode,  \* the entries of the secret store
  pc,      \* the next store access of a process, or "down" or "up"
  key,     \* Issuer.key of a process
  drawn,   \* keys and codes generated so far
  minted,  \* keys that signed tokens clients hold, since the last reset
  ops,     \* `pair` commands so far
  misled,  \* history: why the entry a process takes for absent is not, or "no"
  mishaps  \* history: what has cost clients their tokens since all servers and
           \* entries were gone: a key replaced by a misled process, or a `pair
           \* reset` beside a server that keeps its key

vars == <<storedKey, storedCode, pc, key, drawn, minted, ops, misled, mishaps>>

\* Every variable holds a value of its kind; in particular no process signs
\* with a key that is cut short.
TypeOK ==
  /\ storedKey \in Keys \cup {Weak, Absent} /\ storedCode \in Codes \cup {Absent}
  /\ pc \in [Procs -> {"down", "getKey", "setKey", "getCode", "setCode", "up"}]
  /\ key \in [Procs -> Keys \cup {Absent}]
  /\ \A p \in Procs : key[p] = Absent <=> pc[p] \in {"down", "getKey", "setKey"}
  /\ drawn \subseteq Keys \cup Codes /\ minted \subseteq Keys /\ ops \in 0..MaxOps
  /\ misled \in [Procs -> {"no", "misread", "race"}]
  /\ mishaps \subseteq {"misread", "race", "reset"}

Init ==
  /\ storedKey = Absent /\ storedCode = Absent
  /\ pc = [p \in Procs |-> "down"] /\ key = [p \in Procs |-> Absent]
  /\ drawn = {} /\ minted = {} /\ ops = 0
  /\ misled = [p \in Procs |-> "no"] /\ mishaps = {}

Settled == \A p \in Procs : pc[p] \in {"down", "up"}

-----------------------------------------------------------------------------
\* What Get may return for an entry: KeyringStore.Get has no error of its own
\* once the keyring is available, so a failed read looks like absence.
Gets(entry) == IF "silent" \in Faults THEN {entry, Absent} ELSE {entry}

To(p, label, k) ==
  /\ pc' = [pc EXCEPT ![p] = label]
  /\ key' = [key EXCEPT ![p] = k]

\* A process read an entry: seen may be an absence that is none.
Read(p, entry, seen) ==
  misled' = [misled EXCEPT ![p] = IF seen # entry THEN "misread" ELSE "no"]

Forget(p) == misled' = [misled EXCEPT ![p] = "no"]

\* Someone writes an entry: whoever is about to create it is too late.  The
\* writer itself, if it is a process, moves on.
Wrote(writer, label) ==
  misled' = [q \in Procs |-> IF q = writer THEN "no"
                            ELSE IF pc[q] = label THEN "race" ELSE misled[q]]

\* The signing key is replaced, if there was one, by process p.
KeyReplaced(p) ==
  mishaps' = mishaps \cup (IF storedKey = Absent THEN {} ELSE {misled[p]} \ {"no"})

\* The signing key is wiped: servers that hold it go on with it.
KeyWiped ==
  mishaps' = IF \A p \in Procs : key[p] = Absent THEN {} ELSE mishaps \cup {"reset"}

Start(p) ==
  /\ pc[p] = "down" /\ (Overlap \/ Settled)
  /\ To(p, "getKey", Absent)
  /\ UNCHANGED <<storedKey, storedCode, drawn, minted, ops, misled, mishaps>>

\* Mutant of GetKey: a stored key is used whatever its length.
GetKeyAnyLength(p) ==
  /\ pc[p] = "getKey"
  /\ \E seen \in Gets(storedKey) :
       /\ IF seen # Absent THEN To(p, "getCode", seen) ELSE To(p, "setKey", Absent)
       /\ Read(p, storedKey, seen)
  /\ UNCHANGED <<storedKey, storedCode, drawn, minted, ops, mishaps>>

\* Mutant of GetKey: a key that is cut short is replaced by a fresh one.
GetKeyReplacesWeak(p) ==
  /\ pc[p] = "getKey"
  /\ \E seen \in Gets(storedKey) :
       /\ IF seen \in Keys THEN To(p, "getCode", seen) ELSE To(p, "setKey", Absent)
       /\ Read(p, storedKey, seen)
  /\ UNCHANGED <<storedKey, storedCode, drawn, minted, ops, mishaps>>

\* loadOrCreateKey reads the entry: use it, refuse it, or go on to create one.
GetKey(p) ==
  /\ pc[p] = "getKey"
  /\ \E seen \in Gets(storedKey) :
       /\ \/ seen \in Keys /\ To(p, "getCode", seen)
          \/ seen = Weak /\ To(p, "down", Absent)
          \/ seen = Absent /\ To(p, "setKey", Absent)
       /\ Read(p, storedKey, seen)
  /\ UNCHANGED <<storedKey, storedCode, drawn, minted, ops, mishaps>>

SetKey(p, k) ==
  /\ pc[p] = "setKey" /\ k \notin drawn
  /\ storedKey' = k /\ To(p, "getCode", k)
  /\ drawn' = drawn \cup {k}
  /\ Wrote(p, "setKey") /\ KeyReplaced(p)
  /\ UNCHANGED <<storedCode, minted, ops>>

\* Mutant of GetCode: the banner shows a fresh code on every boot.
GetCodeAlwaysFresh(p) ==
  /\ pc[p] = "getCode"
  /\ To(p, "setCode", key[p])
  /\ UNCHANGED <<storedKey, storedCode, drawn, minted, ops, misled, mishaps>>

\* Pairing.Code for the boot banner: the stored code, or a fresh one.
GetCode(p) ==
  /\ pc[p] = "getCode"
  /\ \E seen \in Gets(storedCode) :
       /\ To(p, IF seen = Absent THEN "setCode" ELSE "up", key[p])
       /\ Read(p, storedCode, seen)
  /\ UNCHANGED <<storedKey, storedCode, drawn, minted, ops, mishaps>>

\* Pairing.Rotate within the boot.
SetCode(p, c) ==
  /\ pc[p] = "setCode" /\ c \notin drawn
  /\ storedCode' = c /\ drawn' = drawn \cup {c}
  /\ To(p, "up", key[p])
  /\ Wrote(p, "setCode")
  /\ UNCHANGED <<storedKey, minted, ops, mishaps>>

\* A store access of a boot fails: the process ends.  A failed Set may have
\* taken effect all the same.
StoreError(p) ==
  /\ "store" \in Faults /\ pc[p] \notin {"down", "up"}
  /\ To(p, "down", Absent)
  /\ \/ /\ Forget(p)
        /\ UNCHANGED <<storedKey, storedCode, drawn, mishaps>>
     \/ /\ pc[p] = "setKey"
        /\ \E k \in Keys \ drawn : storedKey' = k /\ drawn' = drawn \cup {k}
        /\ Wrote(p, "setKey") /\ KeyReplaced(p)
        /\ UNCHANGED storedCode
     \/ /\ pc[p] = "setCode"
        /\ \E c \in Codes \ drawn : storedCode' = c /\ drawn' = drawn \cup {c}
        /\ Wrote(p, "setCode")
        /\ UNCHANGED <<storedKey, mishaps>>
  /\ UNCHANGED <<minted, ops>>

\* A process stops or crashes, at any point.
Stop(p) ==
  /\ pc[p] # "down"
  /\ To(p, "down", Absent) /\ Forget(p)
  /\ UNCHANGED <<storedKey, storedCode, drawn, minted, ops, mishaps>>

\* Issuer.Mint signs with the cached key.
Mint(p) ==
  /\ pc[p] = "up"
  /\ minted' = minted \cup {key[p]}
  /\ UNCHANGED <<storedKey, storedCode, pc, key, drawn, ops, misled, mishaps>>

\* `pair rotate`, also beside servers that are up.
PairRotate(c) ==
  /\ ops < MaxOps /\ (Overlap \/ Settled) /\ c \notin drawn
  /\ storedCode' = c /\ drawn' = drawn \cup {c} /\ ops' = ops + 1
  /\ Wrote(Absent, "setCode")
  /\ UNCHANGED <<storedKey, pc, key, minted, mishaps>>

\* `pair reset`: every token issued so far is void, except to servers that hold
\* their key (pair.go: "every client must re-register and re-pair").
PairReset ==
  /\ ops < MaxOps /\ (Overlap \/ \A p \in Procs : pc[p] = "down")
  /\ storedKey' = Absent /\ storedCode' = Absent /\ minted' = {} /\ ops' = ops + 1
  /\ KeyWiped
  /\ UNCHANGED <<pc, key, drawn, misled>>

\* DeleteAll fails part-way: the operator is told, and some entries are left.
PairResetFails ==
  /\ "store" \in Faults /\ ops < MaxOps /\ (Overlap \/ \A p \in Procs : pc[p] = "down")
  /\ storedKey' \in {storedKey, Absent} /\ storedCode' \in {storedCode, Absent}
  /\ IF storedKey' = Absent THEN minted' = {} /\ KeyWiped ELSE UNCHANGED <<minted, mishaps>>
  /\ ops' = ops + 1
  /\ UNCHANGED <<pc, key, drawn, misled>>

\* The stored key is cut short.
Cut ==
  /\ "cut" \in Faults /\ storedKey \in Keys
  /\ storedKey' = Weak
  /\ UNCHANGED <<storedCode, pc, key, drawn, minted, ops, misled, mishaps>>

Next ==
  \/ \E p \in Procs :
       \/ Start(p) \/ GetKey(p) \/ GetCode(p) \/ StoreError(p) \/ Stop(p) \/ Mint(p)
       \/ \E k \in Keys : SetKey(p, k)
       \/ \E c \in Codes : SetCode(p, c)
  \/ \E c \in Codes : PairRotate(c)
  \/ PairReset \/ PairResetFails \/ Cut

Spec == Init /\ [][Next]_vars

-----------------------------------------------------------------------------
Booting(p) == pc[p] \notin {"down", "up"}

\* A boot creates an entry only while there is none, unless it was misled.
CreatesAbsent ==
  \A p \in Procs : misled[p] = "no" =>
    /\ pc[p] = "setKey" => storedKey = Absent
    /\ pc[p] = "setCode" => storedCode = Absent

\* While nothing has gone wrong all keys held or minted with are the stored one,
\* unless that has been cut short.
OneKey ==
  mishaps = {} =>
    /\ \A k \in minted : storedKey \in {k, Weak}
    /\ \A p \in Procs :
         key[p] # Absent => storedKey \in {key[p], Weak} /\ minted \subseteq {key[p]}
    /\ \A p, q \in Procs : key[p] # Absent /\ key[q] # Absent => key[p] = key[q]

\* What can go wrong: failed reads passed off as absence, and commands that
\* overlap a boot or a running server.  A failed write, a crash between two
\* writes and a key cut short never do.
Explained ==
  /\ Overlap \/ \A p, q \in Procs : Booting(p) /\ Booting(q) => p = q
  /\ \A p \in Procs : /\ misled[p] = "misread" => "silent" \in Faults
                      /\ misled[p] = "race" => Overlap
                      /\ misled[p] # "no" => pc[p] \in {"setKey", "setCode"}
  /\ "misread" \in mishaps => "silent" \in Faults
  /\ mishaps \cap {"race", "reset"} # {} => Overlap

\* Why tokens survive.  Checked in the run, and the inductive invariant of
\* BootstrapProofs.
KeysAgree == CreatesAbsent /\ OneKey /\ Explained

\* Tokens survive a restart (oauth/token.go: "generated once and reused, so
\* tokens survive a restart"): every server that is up accepts every token
\* minted since the last reset, whichever process and start minted it.  The
\* exceptions are counted in mishaps: the boot that replaced the key was misled
\* by a failed read or by another boot, or a server outlived `pair reset`.
TokensSurvive == mishaps = {} => \A p \in Procs : pc[p] = "up" => minted \subseteq {key[p]}

\* The shared code is "stable across restarts" (oauth/pairing.go): once there
\* is one, only `pair rotate` and `pair reset` change it, or a boot whose read
\* of it failed silently, or one that raced with the boot or command that
\* created it.
CodeStable ==
  [][ops' = ops /\ storedCode # Absent /\ storedCode' # storedCode
       => \E p \in Procs : pc[p] = "setCode" /\ pc'[p] # "setCode" /\ misled[p] # "no"]_vars
=============================================================================
