-------------------------- MODULE GatePartsProofs ---------------------------
(***************************************************************************)
(* Proofs about the two parts of the gate that have specifications of      *)
(* their own.  lockKey (KeyLock) is a correct per-key lock for any number  *)
(* of goroutines, keys and entries.  Unlock sessions (AuthSession) end     *)
(* with their lifetime for every clock resolution and every choice of the  *)
(* three durations that SessionBounds allows.                              *)
(***************************************************************************)
EXTENDS KeyLock, AuthSession, FiniteSetTheorems, TLAPS

----------------------------------------------------------------------------
(* lockKey.                                                                *)

\* The goroutines an entry counts are finitely many, so their number is a
\* natural that grows by one when one joins and shrinks by one when one leaves.
LEMMA UsersFinite ==
  ASSUME NEW S, NEW T \in SUBSET Procs, S \subseteq T
  PROVE  IsFiniteSet(S) /\ Cardinality(S) \in Nat
BY KeyLockSets, FS_Subset, FS_CardinalityType

\* Joining: the count of S with p added.
LEMMA UsersJoin ==
  ASSUME NEW S \in SUBSET Procs, NEW p \in Procs, p \notin S
  PROVE  Cardinality(S \cup {p}) = Cardinality(S) + 1
BY UsersFinite, FS_AddElement

\* Leaving: the count of S with p removed, zero only when nobody is left.
LEMMA UsersLeave ==
  ASSUME NEW S \in SUBSET Procs, NEW p \in S
  PROVE  /\ Cardinality(S \ {p}) = Cardinality(S) - 1
         /\ Cardinality(S) - 1 \in Nat
         /\ Cardinality(S) - 1 = 0 <=> S \ {p} = {}
<1>1. IsFiniteSet(S) /\ Cardinality(S) \in Nat
  BY UsersFinite
<1>2. IsFiniteSet(S \ {p}) /\ Cardinality(S \ {p}) = Cardinality(S) - 1
  BY <1>1, FS_RemoveElement
<1>3. Cardinality(S \ {p}) \in Nat /\ (Cardinality(S \ {p}) = 0 <=> S \ {p} = {})
  BY <1>2, FS_EmptySet, FS_CardinalityType
<1> QED BY <1>2, <1>3

----------------------------------------------------------------------------

\* Users(f) in the next state, for an f of the current one.
UsersNext(f) == {q \in Procs : Counted(q)' /\ ent'[q] = f}

\* RefsCountUsers in the next state, one key at a time.
LEMMA RefsNext ==
  ASSUME \A j \in Keys : keyLocks'[j] # Nil =>
           /\ refs'[keyLocks'[j]] = Cardinality(UsersNext(keyLocks'[j]))
           /\ UsersNext(keyLocks'[j]) # {}
  PROVE  RefsCountUsers'
BY DEF RefsCountUsers, UsersNext, Users

\* The initial state satisfies the inductive invariant.
LEMMA InitIInv == Init => IInv
BY KeyLockSets DEF Init, IInv, TypeOK, Locals, InUseIsMapped, OneKeyPerEntry,
  RefsCountUsers, MuHeld, Counted, Users

\* A call touches no entry.
LEMMA CallIInv ==
  ASSUME IInv, NEW p \in Procs, NEW k \in Keys, Call(p, k)
  PROVE  IInv'
<1> USE DEF IInv, Call
<1>1. TypeOK' /\ Locals'
  BY KeyLockSets DEF TypeOK, Locals
<1>2. \A q \in Procs : Counted(q)' <=> Counted(q)
  BY DEF Counted, TypeOK
<1>3. \A e : Users(e)' = Users(e)
  BY <1>2 DEF Users
<1>4. InUseIsMapped' /\ OneKeyPerEntry'
  BY <1>2 DEF InUseIsMapped, OneKeyPerEntry, TypeOK, Counted
<1>5. RefsCountUsers'
  BY <1>3 DEF RefsCountUsers
<1>6. MuHeld'
  BY DEF MuHeld, TypeOK
<1> QED BY <1>1, <1>4, <1>5, <1>6

\* Looking up counts the caller in, on the mapped entry or on a new one.
LEMMA LookupIInv ==
  ASSUME IInv, NEW p \in Procs, Lookup(p)
  PROVE  IInv'
<1> USE DEF IInv, Lookup
<1> DEFINE k == want[p]
<1>0. k \in Keys /\ ~Counted(p) /\ pc' = [pc EXCEPT ![p] = "lock"] /\ want' = want
  BY DEF Locals, Counted
<1>1. CASE keyLocks[k] # Nil
  <2>0. PICK e \in Entries : e = keyLocks[k]
    BY <1>0, <1>1 DEF TypeOK
  <2>1. refs' = [refs EXCEPT ![e] = @ + 1] /\ keyLocks' = keyLocks
        /\ mu' = mu /\ ent' = [ent EXCEPT ![p] = e]
    BY <1>0, <1>1, <2>0 DEF TypeOK
  <2>2. TypeOK' /\ Locals'
    BY <1>0, <2>1 DEF TypeOK, Locals
  <2>3. \A q \in Procs : Counted(q)' <=> (Counted(q) \/ q = p)
    BY <1>0 DEF Counted, TypeOK
  <2>4. UsersNext(e) = Users(e) \cup {p} /\ p \notin Users(e)
    BY <1>0, <2>1, <2>3 DEF Users, UsersNext, TypeOK
  <2>5. \A f : f # e => UsersNext(f) = Users(f)
    BY <1>0, <2>1, <2>3 DEF Users, UsersNext, TypeOK
  <2>6. InUseIsMapped' /\ OneKeyPerEntry'
    BY <1>0, <2>0, <2>1, <2>3 DEF InUseIsMapped, OneKeyPerEntry, TypeOK
  <2>7. RefsCountUsers'
    <3>1. Cardinality(Users(e) \cup {p}) = Cardinality(Users(e)) + 1
      BY <2>4, UsersJoin DEF Users
    <3>2. ASSUME NEW j \in Keys, keyLocks[j] # Nil
          PROVE  /\ refs'[keyLocks[j]] = Cardinality(UsersNext(keyLocks[j]))
                 /\ UsersNext(keyLocks[j]) # {}
      <4>1. CASE keyLocks[j] = e
        <5>1. refs'[e] = refs[e] + 1
          BY <2>1 DEF TypeOK
        <5>2. refs[e] = Cardinality(Users(e))
          BY <1>0, <1>1, <2>0 DEF RefsCountUsers
        <5> QED BY <4>1, <5>1, <5>2, <2>4, <3>1
      <4>2. CASE keyLocks[j] # e
        <5>1. refs'[keyLocks[j]] = refs[keyLocks[j]]
          BY <3>2, <4>2, <2>1 DEF TypeOK
        <5> QED BY <5>1, <3>2, <4>2, <2>5 DEF RefsCountUsers
      <4> QED BY <4>1, <4>2
    <3> QED BY <3>2, <2>1, RefsNext
  <2>8. MuHeld'
    BY <1>0, <2>1 DEF MuHeld, TypeOK, Locals
  <2> QED BY <2>2, <2>6, <2>7, <2>8
<1>2. CASE keyLocks[k] = Nil
  <2>1. PICK e \in Entries :
          /\ Fresh(e)
          /\ keyLocks' = [keyLocks EXCEPT ![k] = e]
          /\ refs' = [refs EXCEPT ![e] = 1]
          /\ mu' = [mu EXCEPT ![e] = Nobody]
          /\ ent' = [ent EXCEPT ![p] = e]
    BY <1>2
  <2>2. TypeOK' /\ Locals'
    BY <1>0, <2>1 DEF TypeOK, Locals
  <2>3. \A q \in Procs : Counted(q)' <=> (Counted(q) \/ q = p)
    BY <1>0 DEF Counted, TypeOK
  <2>4. UsersNext(e) = {p}
    BY <1>0, <2>1, <2>3 DEF Users, UsersNext, TypeOK, Fresh
  <2>5. \A f : f # e => UsersNext(f) = Users(f)
    BY <1>0, <2>1, <2>3 DEF Users, UsersNext, TypeOK
  <2>6. InUseIsMapped'
    BY <1>0, <1>2, <2>1, <2>3, KeyLockSets DEF InUseIsMapped, TypeOK, Locals, Counted
  <2>7. OneKeyPerEntry'
    BY <1>0, <2>1 DEF OneKeyPerEntry, TypeOK, Fresh
  <2>8. RefsCountUsers'
    <3>1. Cardinality({p}) = 1
      BY FS_Singleton
    <3>2. ASSUME NEW j \in Keys, keyLocks'[j] # Nil
          PROVE  /\ refs'[keyLocks'[j]] = Cardinality(UsersNext(keyLocks'[j]))
                 /\ UsersNext(keyLocks'[j]) # {}
      <4>1. CASE j = k
        BY <4>1, <3>1, <1>0, <2>1, <2>4 DEF TypeOK
      <4>2. CASE j # k
        <5>1. keyLocks'[j] = keyLocks[j] /\ keyLocks[j] # e /\ keyLocks[j] \in Entries
          BY <4>2, <3>2, <2>1, <1>0 DEF TypeOK, Fresh
        <5>2. refs'[keyLocks[j]] = refs[keyLocks[j]]
          BY <5>1, <2>1 DEF TypeOK
        <5> QED BY <5>1, <5>2, <2>5, <3>2 DEF RefsCountUsers
      <4> QED BY <4>1, <4>2
    <3> QED BY <3>2, RefsNext
  <2>9. MuHeld'
    BY <1>0, <2>1 DEF MuHeld, TypeOK, Locals, Fresh
  <2> QED BY <2>2, <2>6, <2>7, <2>8, <2>9
<1> QED BY <1>1, <1>2

\* Taking the entry's mutex.
LEMMA LockIInv ==
  ASSUME IInv, NEW p \in Procs, Lock(p)
  PROVE  IInv'
<1> USE DEF IInv, Lock
<1>0. Counted(p) /\ ent[p] \in Entries
  BY DEF Counted, InUseIsMapped
<1>1. TypeOK' /\ Locals'
  BY <1>0 DEF TypeOK, Locals
<1>2. \A q \in Procs : Counted(q)' <=> Counted(q)
  BY DEF Counted, TypeOK
<1>3. \A e : Users(e)' = Users(e)
  BY <1>2 DEF Users
<1>4. InUseIsMapped' /\ OneKeyPerEntry'
  BY <1>2 DEF InUseIsMapped, OneKeyPerEntry
<1>5. RefsCountUsers'
  BY <1>3 DEF RefsCountUsers
<1>6. MuHeld'
  BY <1>0, KeyLockSets DEF MuHeld, TypeOK, InUseIsMapped, Counted
<1> QED BY <1>1, <1>4, <1>5, <1>6

\* Releasing the entry's mutex.
LEMMA UnlockIInv ==
  ASSUME IInv, NEW p \in Procs, Unlock(p)
  PROVE  IInv'
<1> USE DEF IInv, Unlock
<1>0. Counted(p) /\ ent[p] \in Entries
  BY DEF Counted, InUseIsMapped
<1>1. TypeOK' /\ Locals'
  BY <1>0 DEF TypeOK, Locals
<1>2. \A q \in Procs : Counted(q)' <=> Counted(q)
  BY DEF Counted, TypeOK
<1>3. \A e : Users(e)' = Users(e)
  BY <1>2 DEF Users
<1>4. InUseIsMapped' /\ OneKeyPerEntry'
  BY <1>2 DEF InUseIsMapped, OneKeyPerEntry
<1>5. RefsCountUsers'
  BY <1>3 DEF RefsCountUsers
<1>6. MuHeld'
  BY <1>0, KeyLockSets DEF MuHeld, TypeOK, InUseIsMapped, Counted
<1> QED BY <1>1, <1>4, <1>5, <1>6

\* Counting out: the entry leaves the map exactly when the last user leaves.
LEMMA UnrefIInv ==
  ASSUME IInv, NEW p \in Procs, Unref(p)
  PROVE  IInv'
<1> USE DEF IInv, Unref
<1>00. PICK e \in Entries, k \in Keys : e = ent[p] /\ k = want[p]
  BY DEF Counted, InUseIsMapped, Locals
<1>0. Counted(p) /\ keyLocks[k] = e /\ e # Nil
  BY <1>00, <1>00, KeyLockSets DEF Counted, InUseIsMapped
<1>1. p \in Users(e) /\ Users(e) \in SUBSET Procs
  BY <1>00, <1>0 DEF Users
<1>2. refs[e] = Cardinality(Users(e))
  BY <1>00, <1>0 DEF RefsCountUsers
<1>3. /\ Cardinality(Users(e) \ {p}) = refs[e] - 1
      /\ refs[e] - 1 \in Nat
      /\ refs[e] - 1 = 0 <=> Users(e) \ {p} = {}
  BY <1>1, <1>2, UsersLeave
<1>4. refs' = [refs EXCEPT ![e] = refs[e] - 1] /\ refs'[e] = refs[e] - 1
  BY <1>00, <1>0 DEF TypeOK
<1>5. \A q \in Procs : Counted(q)' <=> (Counted(q) /\ q # p)
  BY DEF Counted, TypeOK
<1>6. UsersNext(e) = Users(e) \ {p}
  BY <1>00, <1>0, <1>5 DEF Users, UsersNext, TypeOK
<1>7. \A f \in Entries : f # e => UsersNext(f) = Users(f)
  BY <1>00, <1>0, <1>5, KeyLockSets DEF Users, UsersNext, TypeOK
<1>8. keyLocks' = IF Users(e) \ {p} = {} THEN [keyLocks EXCEPT ![k] = Nil] ELSE keyLocks
  BY <1>00, <1>3, <1>4
<1>9. TypeOK' /\ Locals'
  BY <1>00, <1>0, <1>3, <1>4, <1>8 DEF TypeOK, Locals
<1>10. InUseIsMapped'
  <2> SUFFICES ASSUME NEW q \in Procs, Counted(q)'
               PROVE  ent'[q] \in Entries /\ keyLocks'[want'[q]] = ent'[q]
    BY DEF InUseIsMapped
  <2>1. q # p /\ Counted(q) /\ ent'[q] = ent[q] /\ want'[q] = want[q] /\ want[q] \in Keys
    BY <1>5 DEF TypeOK, Locals, Counted
  <2>2. ent[q] \in Entries /\ keyLocks[want[q]] = ent[q]
    BY <2>1 DEF InUseIsMapped
  <2>3. CASE want[q] = k
    <3>1. q \in Users(e) \ {p}
      BY <2>1, <2>2, <2>3, <1>0 DEF Users
    <3> QED BY <3>1, <2>1, <2>2, <1>8
  <2>4. CASE want[q] # k
    BY <2>1, <2>2, <2>4, <1>8 DEF TypeOK
  <2> QED BY <2>3, <2>4
<1>11. OneKeyPerEntry'
  BY <1>00, <1>0, <1>8 DEF OneKeyPerEntry, TypeOK
<1>12. RefsCountUsers'
  <2> SUFFICES ASSUME NEW j \in Keys, keyLocks'[j] # Nil
               PROVE  /\ refs'[keyLocks'[j]] = Cardinality(UsersNext(keyLocks'[j]))
                      /\ UsersNext(keyLocks'[j]) # {}
    BY RefsNext
  <2>1. keyLocks'[j] = keyLocks[j] /\ keyLocks[j] \in Entries
    BY <1>00, <1>0, <1>8 DEF TypeOK
  <2>2. CASE j = k
    <3>1. Users(e) \ {p} # {}
      BY <2>2, <1>0, <1>8 DEF TypeOK
    <3> QED BY <3>1, <2>1, <2>2, <1>0, <1>3, <1>4, <1>6
  <2>3. CASE j # k
    <3>1. keyLocks[j] # e
      BY <2>3, <1>0, <2>1 DEF OneKeyPerEntry
    <3>2. refs'[keyLocks[j]] = refs[keyLocks[j]]
      BY <3>1, <2>1, <1>4 DEF TypeOK
    <3>3. keyLocks[j] # Nil
      BY <2>1, KeyLockSets
    <3> QED BY <3>1, <3>2, <3>3, <2>1, <1>7 DEF RefsCountUsers
  <2> QED BY <2>2, <2>3
<1>13. MuHeld'
  BY <1>00, <1>0 DEF MuHeld, TypeOK
<1> QED BY <1>9, <1>10, <1>11, <1>12, <1>13

\* Every step preserves the inductive invariant.
LEMMA NextIInv == IInv /\ [Next]_vars => IInv'
<1> SUFFICES ASSUME IInv, [Next]_vars PROVE IInv'
  OBVIOUS
<1>1. CASE UNCHANGED vars
  BY <1>1 DEF vars, IInv, TypeOK, Locals, InUseIsMapped, OneKeyPerEntry,
    RefsCountUsers, MuHeld, Counted, Users
<1>2. CASE Next
  BY <1>2, CallIInv, LookupIInv, LockIInv, UnlockIInv, UnrefIInv DEF Next
<1> QED BY <1>1, <1>2

\* The inductive invariant holds in every reachable state.
THEOREM KeyLockInvariant == Spec => []IInv
BY InitIInv, NextIInv, PTL DEF Spec

\* Two attempts for one key never run side by side: lockKey is a per-key mutex
\* for any number of goroutines, although entries come and go.
THEOREM KeyLockExclusion == Spec => []MutualExclusion
<1>1. IInv => MutualExclusion
  BY DEF IInv, MutualExclusion, MuHeld, InUseIsMapped, Counted
<1> QED BY <1>1, KeyLockInvariant, PTL

\* The map has an entry exactly while some goroutine holds or waits on it: the
\* unlock closure drops no entry in use and leaks none.
THEOREM KeyLockEntries == Spec => []EntriesInUse
<1>1. IInv => EntriesInUse
  <2> SUFFICES ASSUME IInv, NEW e \in Entries
               PROVE  (\E k \in Keys : keyLocks[k] = e) <=> Users(e) # {}
    BY DEF EntriesInUse
  <2>1. ASSUME NEW k \in Keys, keyLocks[k] = e PROVE Users(e) # {}
    BY <2>1, KeyLockSets DEF IInv, RefsCountUsers
  <2>2. ASSUME NEW p \in Users(e) PROVE \E k \in Keys : keyLocks[k] = e
    BY <2>2 DEF IInv, InUseIsMapped, Locals, Users, Counted
  <2> QED BY <2>1, <2>2
<1> QED BY <1>1, KeyLockInvariant, PTL

----------------------------------------------------------------------------
(* The refinement.                                                         *)

\* The variables of KeyMutex, as KeyLock computes them.
absWant == [p \in Procs |-> IF pc[p] \in {"lookup", "lock", "held"}
                            THEN want[p] ELSE NoKey]
absHolder == [k \in Keys |-> IF keyLocks[k] = Nil THEN Nobody
                             ELSE mu[keyLocks[k]]]

\* Every step of lockKey and of the unlock it returns is a step of the
\* abstract lock or invisible to it.
LEMMA StepRefines == IInv /\ [Next]_vars => [Abstract!Next]_(Abstract!vars)
<1> SUFFICES ASSUME IInv, [Next]_vars
             PROVE  \/ Abstract!Next
                    \/ absWant' = absWant /\ absHolder' = absHolder
  BY DEF Abstract!vars, absWant, absHolder
<1> USE DEF IInv
<1>1. ASSUME NEW p \in Procs, NEW k \in Keys, Call(p, k)
      PROVE  Abstract!Next
  <2>1. absWant[p] = NoKey /\ absWant' = [absWant EXCEPT ![p] = k]
    BY <1>1 DEF Call, absWant, TypeOK
  <2>2. absHolder' = absHolder
    BY <1>1 DEF Call, absHolder
  <2>3. Abstract!Request(p, k)
    BY <2>1, <2>2 DEF Abstract!Request, absWant, absHolder
  <2> QED BY <2>3 DEF Abstract!Next
<1>2. ASSUME NEW p \in Procs, Lookup(p)
      PROVE  absWant' = absWant /\ absHolder' = absHolder
  <2>1. absWant' = absWant
    BY <1>2 DEF Lookup, absWant, TypeOK
  <2>2. CASE keyLocks[want[p]] # Nil
    <3>1. keyLocks' = keyLocks /\ mu' = mu
      BY <1>2, <2>2 DEF Lookup
    <3> QED BY <2>1, <3>1 DEF absHolder
  <2>3. CASE keyLocks[want[p]] = Nil
    <3>1. PICK e \in Entries :
            /\ Fresh(e)
            /\ keyLocks' = [keyLocks EXCEPT ![want[p]] = e]
            /\ mu' = [mu EXCEPT ![e] = Nobody]
      BY <1>2, <2>3 DEF Lookup
    <3>2. want[p] \in Keys
      BY <1>2 DEF Lookup, Locals
    <3>3. \A k \in Keys : absHolder'[k] = absHolder[k]
      BY <2>3, <3>1, <3>2, KeyLockSets DEF absHolder, TypeOK, Fresh
    <3> QED BY <2>1, <3>3 DEF absHolder
  <2> QED BY <2>1, <2>2, <2>3
<1>3. ASSUME NEW p \in Procs, Lock(p)
      PROVE  Abstract!Next
  <2>1. PICK k \in Keys, e \in Entries :
          k = want[p] /\ e = ent[p] /\ keyLocks[k] = e /\ e # Nil
    BY <1>3, KeyLockSets DEF Lock, Locals, InUseIsMapped, Counted
  <2>2. absWant[p] = k /\ absWant' = absWant
    BY <1>3, <2>1 DEF Lock, absWant, TypeOK
  <2>3. absHolder[k] = Nobody
    BY <1>3, <2>1 DEF Lock, absHolder
  <2>4. absHolder' = [absHolder EXCEPT ![k] = p]
    <3>1. \A j \in Keys : keyLocks[j] = e => j = k
      BY <2>1 DEF OneKeyPerEntry
    <3> QED BY <1>3, <2>1, <3>1 DEF Lock, absHolder, TypeOK
  <2>5. Abstract!Acquire(p, k)
    BY <2>2, <2>3, <2>4 DEF Abstract!Acquire, absWant, absHolder
  <2> QED BY <2>5 DEF Abstract!Next
<1>4. ASSUME NEW p \in Procs, Unlock(p)
      PROVE  Abstract!Next
  <2>1. PICK k \in Keys, e \in Entries :
          k = want[p] /\ e = ent[p] /\ keyLocks[k] = e /\ e # Nil
    BY <1>4, KeyLockSets DEF Unlock, Locals, InUseIsMapped, Counted
  <2>2. absWant' = [absWant EXCEPT ![p] = NoKey]
    BY <1>4 DEF Unlock, absWant, TypeOK
  <2>3. absHolder[k] = p
    BY <1>4, <2>1 DEF Unlock, absHolder, MuHeld
  <2>4. absHolder' = [absHolder EXCEPT ![k] = Nobody]
    <3>1. \A j \in Keys : keyLocks[j] = e => j = k
      BY <2>1 DEF OneKeyPerEntry
    <3> QED BY <1>4, <2>1, <3>1 DEF Unlock, absHolder, TypeOK
  <2>5. Abstract!Release(p, k)
    BY <2>2, <2>3, <2>4 DEF Abstract!Release, absWant, absHolder
  <2> QED BY <2>5 DEF Abstract!Next
<1>5. ASSUME NEW p \in Procs, Unref(p)
      PROVE  absWant' = absWant /\ absHolder' = absHolder
  <2>1. absWant' = absWant
    BY <1>5 DEF Unref, absWant, TypeOK
  <2>2. PICK k \in Keys, e \in Entries :
          k = want[p] /\ e = ent[p] /\ keyLocks[k] = e
    BY <1>5 DEF Unref, Locals, InUseIsMapped, Counted
  <2>3. CASE keyLocks' = keyLocks
    BY <1>5, <2>1, <2>3 DEF Unref, absHolder
  <2>4. CASE keyLocks' = [keyLocks EXCEPT ![k] = Nil] /\ refs[e] - 1 = 0
    <3>1. mu[e] = Nobody
      <4>1. SUFFICES ASSUME mu[e] # Nobody PROVE FALSE
        OBVIOUS
      <4>2. PICK q \in Procs : q = mu[e] /\ pc[q] = "held" /\ ent[q] = e
        BY <4>1 DEF MuHeld, TypeOK
      <4>3. q \in Users(e) \ {p} /\ p \in Users(e) /\ Users(e) \in SUBSET Procs
        BY <1>5, <2>2, <4>2 DEF Unref, Users, Counted
      <4>4. refs[e] = Cardinality(Users(e))
        BY <2>2, KeyLockSets DEF RefsCountUsers
      <4> QED BY <2>4, <4>3, <4>4, UsersLeave
    <3> QED BY <1>5, <2>1, <2>2, <2>4, <3>1 DEF Unref, absHolder, TypeOK
  <2>5. keyLocks' = keyLocks \/ (keyLocks' = [keyLocks EXCEPT ![k] = Nil] /\ refs[e] - 1 = 0)
    BY <1>5, <2>2 DEF Unref, TypeOK
  <2> QED BY <2>3, <2>4, <2>5
<1>6. CASE UNCHANGED vars
  BY <1>6 DEF vars, absWant, absHolder
<1> QED BY <1>1, <1>2, <1>3, <1>4, <1>5, <1>6 DEF Next

\* lockKey implements the per-key lock of KeyMutex, which is what AuthGate's
\* lockKey and unlockKey steps assume of it.
THEOREM KeyLockRefines == Spec => ImplementsKeyMutex
<1>1. Init => Abstract!Init
  BY DEF Init, Abstract!Init
<1> QED BY <1>1, StepRefines, KeyLockInvariant, PTL
       DEF Spec, ImplementsKeyMutex, Abstract!Spec

----------------------------------------------------------------------------
(* Unlock sessions.                                                        *)

\* Division with remainder, as the provers know it.
LEMMA Remainder ==
  ASSUME NEW s \in Nat \ {0}, NEW t \in Nat
  PROVE  /\ t \div s \in Nat
         /\ t % s \in 0 .. (s - 1)
         /\ t = s * (t \div s) + (t % s)
  OBVIOUS

\* A product with a natural factor is monotone.
LEMMA TimesMonotone ==
  ASSUME NEW s \in Nat \ {0}, NEW p \in Int, NEW q \in Int
  PROVE  /\ p < q => s * p + s <= s * q
         /\ p <= q => s * p <= s * q
  OBVIOUS

\* Time.Unix rounds down by less than a second, to a time it leaves alone.
LEMMA UnixRounds ==
  ASSUME NEW t \in Nat
  PROVE  /\ Unix(t) \in Nat
         /\ Unix(t) <= t
         /\ t - Unix(t) < Second
         /\ Unix(t) = Second * (t \div Second)
  BY Remainder, SessionBounds DEF Unix

\* Time.Unix keeps the order of times.
LEMMA UnixMonotone ==
  ASSUME NEW a \in Nat, NEW b \in Nat, a <= b
  PROVE  Unix(a) <= Unix(b)
<1> DEFINE p == a \div Second
           q == b \div Second
<1>0. Second \in Nat \ {0}
  BY SessionBounds
<1>1. /\ p \in Nat /\ q \in Nat
      /\ a >= Second * p
      /\ b < Second * q + Second
      /\ Second \in Nat \ {0}
  <2>1. p \in Nat /\ a % Second \in 0 .. (Second - 1) /\ a = Second * p + (a % Second)
    BY <1>0, Remainder
  <2>2. q \in Nat /\ b % Second \in 0 .. (Second - 1) /\ b = Second * q + (b % Second)
    BY <1>0, Remainder
  <2>3. Second * p \in Nat /\ Second * q \in Nat
    BY <1>0, <2>1, <2>2
  <2> HIDE DEF p, q
  <2> QED BY <1>0, <2>1, <2>2, <2>3
<1>2. /\ q < p => Second * q + Second <= Second * p
      /\ p <= q => Second * p <= Second * q
  BY <1>1, TimesMonotone
<1>3. Second * p \in Int /\ Second * q \in Int
  BY <1>1
<1>4. Second * p <= Second * q
  <2> HIDE DEF p, q
  <2> QED BY <1>1, <1>2, <1>3
<1> QED BY <1>4, UnixRounds

\* Rounding a rounded time changes nothing.
LEMMA UnixIdempotent ==
  ASSUME NEW t \in Nat
  PROVE  Unix(Unix(t)) = Unix(t)
<1>1. Unix(t) \in Nat /\ Unix(t) <= t /\ Unix(t) = Second * (t \div Second)
  BY UnixRounds
<1>2. t \div Second \in Nat
  BY Remainder, SessionBounds
<1>3. ASSUME NEW s \in Nat \ {0}, NEW k \in Nat
      PROVE  (s * k) % s = 0
  <2> DEFINE n == s * k
             j == n \div s
  <2>1. n \in Nat
    OBVIOUS
  <2>2. j \in Nat /\ n % s \in 0 .. (s - 1) /\ n = s * j + (n % s)
    BY <2>1, Remainder
  <2>3. /\ j < k => s * j + s <= s * k
        /\ k < j => s * k + s <= s * j
    BY <2>2, TimesMonotone
  <2>4. s * j \in Int /\ s * k \in Int /\ n = s * k
    BY <2>2
  <2>5. j = k
    <3> HIDE DEF j, n
    <3> QED BY <2>2, <2>3, <2>4
  <2> QED BY <2>2, <2>4, <2>5
<1>4. Unix(t) % Second = 0
  BY <1>1, <1>2, <1>3, SessionBounds
<1> QED BY <1>1, <1>4 DEF Unix

----------------------------------------------------------------------------
(* The inductive invariant.                                                *)

LEMMA SessionInitInv == SessionInit => SessionInv
  BY SessionBounds DEF SessionInit, SessionInv, SessionTypeOK, OriginIsTyped, JarFresh, PassedKnown, TypedPast,
     Times, Token, Request

\* A freshly minted token is a token, no newer than the clock, and less than the
\* refresh threshold old.
LEMMA Minted ==
  ASSUME NEW o \in Times, SessionTypeOK, o <= now
  PROVE  LET t == mintToken(o, now)
         IN  /\ t \in Token /\ t # NoToken
             /\ t.origin = Unix(o) /\ t.refreshed = Unix(now) /\ t.secret = secret
             /\ t.origin <= t.refreshed
             /\ t.refreshed <= now
             /\ t.refreshed = Unix(t.refreshed)
             /\ now - t.refreshed < RefreshThreshold
<1>1. o \in Nat /\ now \in Nat /\ now <= MaxTime /\ MaxTime \in Nat
  BY SessionBounds DEF SessionTypeOK, Times
<1>2. /\ Unix(o) \in Nat /\ Unix(now) \in Nat /\ Unix(o) <= o
      /\ Unix(now) <= now /\ now - Unix(now) < Second /\ Unix(o) <= Unix(now)
      /\ Unix(Unix(now)) = Unix(now)
  BY <1>1, UnixRounds, UnixMonotone, UnixIdempotent
<1>3. Unix(o) \in Times /\ Unix(now) \in Times
  BY <1>1, <1>2 DEF Times
<1>4. now - Unix(now) < RefreshThreshold
  BY <1>1, <1>2, SessionBounds
<1> QED BY <1>1, <1>2, <1>3, <1>4, SessionBounds DEF mintToken, Token, SessionTypeOK, Times

LEMMA SessionNextInv == SessionInv /\ [SessionNext]_sessionVars => SessionInv'
<1> SUFFICES ASSUME SessionInv, [SessionNext]_sessionVars PROVE SessionInv'
  OBVIOUS
<1> USE DEF SessionInv
<1>t. now \in Nat /\ lastOk \in Nat /\ secret \in Nat /\ RefreshThreshold \in Nat
  BY SessionBounds DEF SessionTypeOK, Times
<1>i. \A t \in issued : /\ t \in Token /\ t.origin \in Nat /\ t.refreshed \in Nat /\ t.secret \in Nat
                        /\ t # NoToken
  BY SessionBounds DEF SessionTypeOK, Token, Times
<1>1. CASE handleAuthUnlock
  <2> DEFINE t == mintToken(now, now)
  <2>1. /\ t \in Token /\ t # NoToken /\ t.origin = Unix(now) /\ t.secret = secret
        /\ t.origin <= t.refreshed /\ t.refreshed <= now /\ t.refreshed = Unix(t.refreshed)
        /\ t.refreshed = Unix(now)
        /\ now - t.refreshed < RefreshThreshold
    BY <1>t, Minted DEF SessionTypeOK
  <2>2. PICK m : m = t
    OBVIOUS
  <2>3. \A s \in issued : s.refreshed <= m.refreshed
    BY <1>t, <1>i, <2>1, <2>2, UnixMonotone DEF OriginIsTyped
  <2>4. /\ jar' = m /\ issued' = issued \cup {m}
        /\ typed' = typed \cup {[secret |-> secret, at |-> now]}
        /\ lastOk' = now /\ UNCHANGED <<now, secret, configured, passed, answer>>
    BY <1>1, <2>2 DEF handleAuthUnlock
  <2>5. /\ m \in Token /\ m # NoToken /\ m.origin = Unix(now) /\ m.secret = secret
        /\ m.origin <= m.refreshed /\ m.refreshed <= now /\ m.refreshed = Unix(m.refreshed)
        /\ now - m.refreshed < RefreshThreshold
    BY <2>1, <2>2
  <2> HIDE DEF t
  <2>a. SessionTypeOK'
    BY <1>t, <2>4, <2>5 DEF SessionTypeOK, Times
  <2>b. OriginIsTyped'
    <3>1. ASSUME NEW s \in issued PROVE \E u \in typed' : u.secret = s.secret /\ s.origin = Unix(u.at)
      BY <2>4 DEF OriginIsTyped
    <3>2. \E u \in typed' : u.secret = m.secret /\ m.origin = Unix(u.at)
      <4>1. PICK v : v = [secret |-> secret, at |-> now]
        OBVIOUS
      <4>2. v \in typed' /\ v.secret = secret /\ v.at = now
        BY <2>4, <4>1
      <4> QED BY <2>5, <4>2
    <3> QED BY <1>t, <2>4, <2>5, <3>1, <3>2 DEF OriginIsTyped, Unix
  <2>c. JarFresh'
    BY <1>t, <2>4, <2>5 DEF JarFresh
  <2>d. PassedKnown'
    BY <1>t, <2>3, <2>4, <2>5 DEF PassedKnown
  <2>e. TypedPast'
    BY <1>t, <2>4 DEF TypedPast
  <2> QED BY <2>a, <2>b, <2>c, <2>d, <2>e
<1>2. ASSUME NEW t \in issued, NEW ours \in BOOLEAN, Validate(t, ours)
      PROVE  SessionInv'
  <2>1. /\ passed' = passed \cup {[token |-> t, ours |-> ours]}
        /\ UNCHANGED <<now, secret, configured, issued, jar, typed, lastOk, answer>>
        /\ t.secret = secret
        /\ ours => t = jar
    BY <1>2 DEF Validate, Unlocked, tokenTimesOk
  <2>a. SessionTypeOK'
    BY <1>i, <2>1 DEF SessionTypeOK, Request
  <2>b. OriginIsTyped'
    BY <2>1 DEF OriginIsTyped, Unix
  <2>c. JarFresh'
    BY <2>1 DEF JarFresh
  <2>d. PassedKnown'
    BY <1>2, <1>i, <2>1 DEF PassedKnown
  <2>e. TypedPast'
    BY <2>1 DEF TypedPast
  <2> QED BY <2>a, <2>b, <2>c, <2>d, <2>e
<1>3. ASSUME NEW r \in passed, Admit(r), Slide(r)
      PROVE  SessionInv'
  <2> DEFINE t == mintToken(r.token.origin, now)
  <2>0. /\ r.token \in issued /\ r.token.secret = secret
        /\ r.token.origin \in Times /\ r.token.origin <= now
    BY <1>3, <1>i, <1>t DEF PassedKnown, OriginIsTyped, SessionTypeOK, Token, Slide, tokenTimesOk
  <2>1. /\ t \in Token /\ t # NoToken /\ t.origin = Unix(r.token.origin) /\ t.secret = secret
        /\ t.origin <= t.refreshed /\ t.refreshed <= now /\ t.refreshed = Unix(t.refreshed)
        /\ t.refreshed = Unix(now)
        /\ now - t.refreshed < RefreshThreshold
    BY <1>t, <2>0, Minted
  <2>2. PICK m : m = t
    OBVIOUS
  <2>3. \A s \in issued : s.refreshed <= m.refreshed
    BY <1>t, <1>i, <2>1, <2>2, UnixMonotone DEF OriginIsTyped
  <2>4. /\ jar' = (IF r.ours THEN m ELSE jar) /\ issued' = issued \cup {m}
        /\ passed' = passed \ {r}
        /\ lastOk' = (IF r.ours THEN now ELSE lastOk)
        /\ answer' = "next" /\ UNCHANGED <<now, secret, configured, typed>>
    BY <1>3, <2>2 DEF Admit, Slide
  <2>5. /\ m \in Token /\ m # NoToken /\ m.origin = Unix(r.token.origin) /\ m.secret = secret
        /\ m.origin <= m.refreshed /\ m.refreshed <= now /\ m.refreshed = Unix(m.refreshed)
        /\ now - m.refreshed < RefreshThreshold
    BY <2>1, <2>2
  <2> HIDE DEF t
  <2>a. SessionTypeOK'
    BY <1>t, <2>4, <2>5 DEF SessionTypeOK, Times
  <2>6. PICK u \in typed : u.secret = secret /\ r.token.origin = Unix(u.at) /\ u.at \in Nat
    BY <2>0 DEF OriginIsTyped, SessionTypeOK, Times
  <2>7. m.origin = Unix(u.at)
    BY <2>5, <2>6, UnixIdempotent
  <2>b. OriginIsTyped'
    BY <1>t, <2>4, <2>5, <2>6, <2>7 DEF OriginIsTyped, Unix
  <2>c. JarFresh'
    BY <1>t, <2>4, <2>5 DEF JarFresh
  <2>d. PassedKnown'
    BY <1>t, <2>3, <2>4, <2>5 DEF PassedKnown
  <2>e. TypedPast'
    BY <1>t, <2>4 DEF TypedPast
  <2> QED BY <2>a, <2>b, <2>c, <2>d, <2>e
<1>4. ASSUME NEW r \in passed, Admit(r), KeepCookie(r)
      PROVE  SessionInv'
  <2>1. /\ passed' = passed \ {r}
        /\ lastOk' = (IF r.ours THEN now ELSE lastOk)
        /\ answer' = "next" /\ UNCHANGED <<now, secret, configured, issued, jar, typed>>
    BY <1>4 DEF Admit, KeepCookie
  <2>2. /\ r.token \in issued /\ r.token.secret = secret
        /\ r.token.origin <= r.token.refreshed /\ r.token.refreshed <= now
        /\ r.ours => jar # NoToken /\ r.token.refreshed <= jar.refreshed
    BY <1>4 DEF PassedKnown, OriginIsTyped
  <2>3. now - r.token.refreshed < RefreshThreshold
    BY <1>4, <1>i, <1>t, <2>2 DEF KeepCookie, tokenTimesOk
  <2>a. SessionTypeOK'
    BY <2>1 DEF SessionTypeOK
  <2>b. OriginIsTyped'
    BY <2>1 DEF OriginIsTyped, Unix
  <2>c. JarFresh'
    BY <1>i, <1>t, <2>1, <2>2, <2>3 DEF JarFresh
  <2>d. PassedKnown'
    BY <2>1 DEF PassedKnown
  <2>e. TypedPast'
    BY <2>1 DEF TypedPast
  <2> QED BY <2>a, <2>b, <2>c, <2>d, <2>e
<1>5. CASE RefuseLocked
  BY <1>5 DEF RefuseLocked, SessionTypeOK, OriginIsTyped, Unix, JarFresh, PassedKnown, TypedPast
<1>6. CASE RefuseUnset
  BY <1>6 DEF RefuseUnset, SessionTypeOK, OriginIsTyped, Unix, JarFresh, PassedKnown, TypedPast
<1>7. CASE Reconfigure
  BY <1>7 DEF Reconfigure, SessionTypeOK, OriginIsTyped, Unix, JarFresh, PassedKnown, TypedPast
<1>8. CASE Restart
  <2> USE <1>8 DEF Restart
  <2>a. SessionTypeOK'
    BY SessionBounds DEF SessionTypeOK
  <2>b. OriginIsTyped'
    BY <1>i, <1>t DEF OriginIsTyped, Unix
  <2>c. JarFresh'
    BY DEF JarFresh
  <2>d. PassedKnown' /\ TypedPast'
    BY DEF PassedKnown, TypedPast
  <2> QED BY <2>a, <2>b, <2>c, <2>d
<1>9. CASE Tick
  <2> USE <1>9 DEF Tick
  <2>a. SessionTypeOK'
    BY SessionBounds DEF SessionTypeOK, Times
  <2>b. OriginIsTyped'
    BY <1>i, <1>t DEF OriginIsTyped, Unix
  <2>c. JarFresh'
    BY <1>t DEF JarFresh
  <2>d. PassedKnown'
    BY DEF PassedKnown
  <2>e. TypedPast'
    BY <1>t DEF TypedPast, SessionTypeOK, Times
  <2> QED BY <2>a, <2>b, <2>c, <2>d, <2>e
<1>10. CASE UNCHANGED sessionVars
  BY <1>10 DEF sessionVars, SessionTypeOK, OriginIsTyped, Unix, JarFresh, PassedKnown, TypedPast
<1>11. \A r \in passed : Admit(r) => Slide(r) \/ KeepCookie(r)
  BY DEF Admit
<1> QED
  BY <1>1, <1>2, <1>3, <1>4, <1>5, <1>6, <1>7, <1>8, <1>9, <1>10, <1>11 DEF SessionNext

\* The parts of SessionInv hold in every reachable state: an issued token's origin
\* is when a password was typed to its process (mintToken, refreshCookie), and the
\* browser's token lags its last accepted request by less than refreshThreshold.
THEOREM SessionInvariant == SessionSpec => []SessionInv
  BY SessionInitInv, SessionNextInv, PTL DEF SessionSpec

\* However a session is slid forward (refreshCookie), a token opens the gate only
\* within maxSessionLifetime of a password typed to the running process.
THEOREM SessionsEnd == SessionSpec => []SessionBounded
<1>1. SessionInv => SessionBounded
  <2> SUFFICES ASSUME SessionInv, NEW t \in issued, Unlocked(t)
               PROVE  \E u \in typed : /\ u.secret = secret
                                       /\ u.at <= now
                                       /\ now < u.at + SessionLifetime
    BY DEF SessionBounded
  <2>1. PICK u \in typed : u.secret = t.secret /\ t.origin = Unix(u.at)
    BY DEF SessionInv, OriginIsTyped
  <2>2. /\ u.at \in Nat /\ u.at <= now /\ now \in Nat
        /\ t.origin \in Nat /\ t.refreshed \in Nat
    BY DEF SessionInv, SessionTypeOK, Times, TypedPast, Token
  <2>3. Unix(u.at) <= u.at
    BY <2>2, UnixRounds
  <2>4. t.secret = secret /\ now < t.origin + SessionLifetime
    BY <2>2, SessionBounds DEF Unlocked, tokenTimesOk, Deadline
  <2> QED BY <2>1, <2>2, <2>3, <2>4, SessionBounds
<1> QED BY <1>1, SessionInvariant, PTL

\* A browser that keeps coming back within sessionTTL - refreshThreshold is never
\* asked for the password again before its session's life ends (refreshCookie).
THEOREM IdleHolds == SessionSpec => []IdleGuarantee
<1>1. SessionInv => IdleGuarantee
  <2> SUFFICES ASSUME SessionInv, jar # NoToken, jar.secret = secret,
                      now - lastOk <= SessionTTL - RefreshThreshold,
                      now < jar.origin + SessionLifetime
               PROVE  Unlocked(jar)
    BY DEF IdleGuarantee
  <2>1. /\ jar \in issued /\ lastOk - jar.refreshed < RefreshThreshold
        /\ jar.origin <= jar.refreshed /\ jar.refreshed <= now
    BY DEF SessionInv, JarFresh, OriginIsTyped
  <2>2. /\ now \in Nat /\ lastOk \in Nat /\ jar.origin \in Nat /\ jar.refreshed \in Nat
    BY <2>1 DEF SessionInv, SessionTypeOK, Times, Token
  <2> QED BY <2>1, <2>2, SessionBounds DEF Unlocked, tokenTimesOk, Deadline
<1> QED BY <1>1, SessionInvariant, PTL
=============================================================================
