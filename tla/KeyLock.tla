------------------------------ MODULE KeyLock -------------------------------
(***************************************************************************)
(* Gate.lockKey (backend/internal/authgate/gate.go): a map from a key to a *)
(* reference-counted mutex, with the entry dropped from the map once       *)
(* nobody holds or waits on it.  The map and the counts are only touched   *)
(* under keyLocksMu, around code that never blocks, so each such region is *)
(* one step; taking and releasing the entry's own mutex are separate ones. *)
(* Entries are pointers: a goroutine may hold one the map no longer has.   *)
(***************************************************************************)
EXTENDS Integers, FiniteSets

CONSTANTS
  Procs,    \* goroutines
  Keys,     \* rate-limit keys
  Entries,  \* addresses a keyLock may be allocated at
  Nobody, NoKey, Nil

ASSUME KeyLockSets ==
  /\ IsFiniteSet(Procs)
  /\ Nobody \notin Procs
  /\ NoKey \notin Keys
  /\ Nil \notin Entries

VARIABLES
  pc,        \* where each goroutine is in lockKey or the unlock it returned
  want,      \* its key argument
  ent,       \* its local variable l
  keyLocks,  \* Gate.keyLocks; Nil where the map has no entry
  refs,      \* keyLock.refs
  mu         \* who holds keyLock.mu

vars == <<pc, want, ent, keyLocks, refs, mu>>

Init ==
  /\ pc = [p \in Procs |-> "idle"]
  /\ want = [p \in Procs |-> NoKey]
  /\ ent = [p \in Procs |-> Nil]
  /\ keyLocks = [k \in Keys |-> Nil]
  /\ refs = [e \in Entries |-> 0]
  /\ mu = [e \in Entries |-> Nobody]

\* lockKey(key) is called.
Call(p, k) ==
  /\ pc[p] = "idle"
  /\ pc' = [pc EXCEPT ![p] = "lookup"]
  /\ want' = [want EXCEPT ![p] = k]
  /\ UNCHANGED <<ent, keyLocks, refs, mu>>

\* An allocation: the runtime reuses only what nothing points to.
Fresh(e) ==
  /\ \A k \in Keys : keyLocks[k] # e
  /\ \A p \in Procs : ent[p] # e

\* Under keyLocksMu: find the key's entry or insert a new one, and count
\* this goroutine in.
Lookup(p) ==
  /\ pc[p] = "lookup"
  /\ \E e \in Entries :
       /\ IF keyLocks[want[p]] # Nil
          THEN /\ e = keyLocks[want[p]]
               /\ refs' = [refs EXCEPT ![e] = @ + 1]
               /\ UNCHANGED <<keyLocks, mu>>
          ELSE /\ Fresh(e)
               /\ keyLocks' = [keyLocks EXCEPT ![want[p]] = e]
               /\ refs' = [refs EXCEPT ![e] = 1]
               /\ mu' = [mu EXCEPT ![e] = Nobody]
       /\ ent' = [ent EXCEPT ![p] = e]
  /\ pc' = [pc EXCEPT ![p] = "lock"]
  /\ UNCHANGED want

\* l.mu.Lock() returns, and with it lockKey.
Lock(p) ==
  /\ pc[p] = "lock"
  /\ mu[ent[p]] = Nobody
  /\ mu' = [mu EXCEPT ![ent[p]] = p]
  /\ pc' = [pc EXCEPT ![p] = "held"]
  /\ UNCHANGED <<want, ent, keyLocks, refs>>

\* Mutant of Unlock: the closure only counts out.
UnlockForgotten(p) ==
  /\ pc[p] = "held"
  /\ pc' = [pc EXCEPT ![p] = "unref"]
  /\ UNCHANGED <<want, ent, keyLocks, refs, mu>>

\* unlock(): l.mu.Unlock() first ...
Unlock(p) ==
  /\ pc[p] = "held"
  /\ mu' = [mu EXCEPT ![ent[p]] = Nobody]
  /\ pc' = [pc EXCEPT ![p] = "unref"]
  /\ UNCHANGED <<want, ent, keyLocks, refs>>

\* Mutants of Unref: the entry is dropped whoever else counts on it; or never.
UnrefDrops(p) ==
  /\ pc[p] = "unref"
  /\ refs' = [refs EXCEPT ![ent[p]] = @ - 1]
  /\ keyLocks' = [keyLocks EXCEPT ![want[p]] = Nil]
  /\ pc' = [pc EXCEPT ![p] = "idle"]
  /\ want' = [want EXCEPT ![p] = NoKey]
  /\ ent' = [ent EXCEPT ![p] = Nil]
  /\ UNCHANGED mu

UnrefLeaks(p) ==
  /\ pc[p] = "unref"
  /\ refs' = [refs EXCEPT ![ent[p]] = @ - 1]
  /\ pc' = [pc EXCEPT ![p] = "idle"]
  /\ want' = [want EXCEPT ![p] = NoKey]
  /\ ent' = [ent EXCEPT ![p] = Nil]
  /\ UNCHANGED <<keyLocks, mu>>

\* ... then, under keyLocksMu, count out and drop an entry nobody needs.
Unref(p) ==
  /\ pc[p] = "unref"
  /\ refs' = [refs EXCEPT ![ent[p]] = @ - 1]
  /\ keyLocks' = IF refs'[ent[p]] = 0
                 THEN [keyLocks EXCEPT ![want[p]] = Nil]
                 ELSE keyLocks
  /\ pc' = [pc EXCEPT ![p] = "idle"]
  /\ want' = [want EXCEPT ![p] = NoKey]
  /\ ent' = [ent EXCEPT ![p] = Nil]
  /\ UNCHANGED mu

Next ==
  \E p \in Procs :
    \/ \E k \in Keys : Call(p, k)
    \/ Lookup(p) \/ Lock(p) \/ Unlock(p) \/ Unref(p)

Spec == Init /\ [][Next]_vars

\* Go mutexes are starvation-free and every runnable goroutine runs.
Fairness ==
  \A p \in Procs :
    /\ WF_vars(Lookup(p)) /\ SF_vars(Lock(p))
    /\ WF_vars(Unlock(p)) /\ WF_vars(Unref(p))

FairSpec == Spec /\ Fairness

----------------------------------------------------------------------------
(* Properties.                                                             *)

\* Every variable holds a value of its kind.
TypeOK ==
  /\ pc \in [Procs -> {"idle", "lookup", "lock", "held", "unref"}]
  /\ want \in [Procs -> Keys \cup {NoKey}]
  /\ ent \in [Procs -> Entries \cup {Nil}]
  /\ keyLocks \in [Keys -> Entries \cup {Nil}]
  /\ refs \in [Entries -> Nat]
  /\ mu \in [Entries -> Procs \cup {Nobody}]

Counted(p) == pc[p] \in {"lock", "held", "unref"}
Users(e) == {p \in Procs : Counted(p) /\ ent[p] = e}

\* The inductive invariant.  Its centre is InUseIsMapped: what a goroutine points
\* to is what the map has for its key, because its own count keeps it there.
Locals ==
  \A p \in Procs :
    /\ pc[p] # "idle" => want[p] \in Keys
    /\ pc[p] \in {"idle", "lookup"} => ent[p] = Nil
InUseIsMapped ==
  \A p \in Procs :
    Counted(p) => ent[p] \in Entries /\ keyLocks[want[p]] = ent[p]
OneKeyPerEntry ==
  \A j, k \in Keys : keyLocks[j] = keyLocks[k] /\ keyLocks[j] # Nil => j = k
RefsCountUsers ==
  \A k \in Keys : keyLocks[k] # Nil =>
    /\ refs[keyLocks[k]] = Cardinality(Users(keyLocks[k]))
    /\ Users(keyLocks[k]) # {}
MuHeld ==
  /\ \A p \in Procs : pc[p] = "held" => mu[ent[p]] = p
  /\ \A e \in Entries : mu[e] # Nobody => pc[mu[e]] = "held" /\ ent[mu[e]] = e
IInv == /\ TypeOK
        /\ Locals
        /\ InUseIsMapped
        /\ OneKeyPerEntry
        /\ RefsCountUsers
        /\ MuHeld

\* Two attempts for the same key never run side by side, even while entries are
\* dropped from the map and allocated again (lockKey).
MutualExclusion ==
  \A p, q \in Procs :
    pc[p] = "held" /\ pc[q] = "held" /\ want[p] = want[q] => p = q

\* The map keeps an entry exactly as long as somebody holds or waits on it: no
\* entry in use is dropped and none is leaked (the unlock closure).
EntriesInUse ==
  \A e \in Entries :
    (\E k \in Keys : keyLocks[k] = e) <=> Users(e) # {}

\* lockKey implements the per-key lock that the attempt code relies on: the
\* holder of a key is the holder of the mutex of the key's current entry.
Abstract == INSTANCE KeyMutex WITH
  want   <- [p \in Procs |-> IF pc[p] \in {"lookup", "lock", "held"}
                             THEN want[p] ELSE NoKey],
  holder <- [k \in Keys |-> IF keyLocks[k] = Nil THEN Nobody
                            ELSE mu[keyLocks[k]]]

\* The specification KeyLock is shown to implement.
ImplementsKeyMutex == Abstract!Spec

\* A goroutine that calls lockKey gets the lock (lockKey).
CallerGetsLock ==
  \A p \in Procs : pc[p] \in {"lookup", "lock"} ~> pc[p] = "held"
=============================================================================
