------------------------------ MODULE KeyMutex ------------------------------
(***************************************************************************)
(* What Gate.lockKey promises its callers (backend/internal/authgate/      *)
(* gate.go): one lock per key, held by at most one attempt at a time.      *)
(* AuthGate uses the lock at this level; KeyLock implements it.            *)
(***************************************************************************)
CONSTANTS Procs, Keys, Nobody, NoKey

VARIABLES
  want,   \* the key each goroutine asks for or holds, NoKey when neither
  holder  \* who holds each key's lock

vars == <<want, holder>>

Init ==
  /\ want = [p \in Procs |-> NoKey]
  /\ holder = [k \in Keys |-> Nobody]

Request(p, k) ==
  /\ want[p] = NoKey
  /\ want' = [want EXCEPT ![p] = k]
  /\ UNCHANGED holder

Acquire(p, k) ==
  /\ want[p] = k
  /\ holder[k] = Nobody
  /\ holder' = [holder EXCEPT ![k] = p]
  /\ UNCHANGED want

Release(p, k) ==
  /\ holder[k] = p
  /\ holder' = [holder EXCEPT ![k] = Nobody]
  /\ want' = [want EXCEPT ![p] = NoKey]

Next ==
  \E p \in Procs, k \in Keys : Request(p, k) \/ Acquire(p, k) \/ Release(p, k)

Spec == Init /\ [][Next]_vars
=============================================================================
