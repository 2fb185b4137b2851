--------------------------- MODULE AuthGateProofs ---------------------------
(***************************************************************************)
(* What the password gate guarantees for any number of requests, keys,     *)
(* passwords, slots and tokens, and any lockout schedule.                  *)
(***************************************************************************)
EXTENDS AuthGate, FiniteSetTheorems, TLAPS

\* A backoff is a natural number.
LEMMA BackoffType ==
  ASSUME NEW f \in MaxFailures .. FailureCap
  PROVE  Backoff(f) \in Nat
<1>1. f - MaxFailures \in 0 .. (FailureCap - MaxFailures)
  BY GateBounds
<1>2. Doubled(f - MaxFailures) \in Nat
  BY <1>1, GatePowers
<1> QED BY <1>2, GateBounds DEF Backoff

\* The sets of requests the gate counts are finite.
LEMMA VerifyingFinite ==
  ASSUME NEW S \in SUBSET Reqs
  PROVE  IsFiniteSet(S) /\ Cardinality(S) \in Nat
BY GateSets, FS_Subset, FS_CardinalityType

\* A step that moves nobody into or out of argon2id and leaves the channel
\* alone keeps the slots conserved.
LEMMA SlotsKept ==
  ASSUME SlotsConserved, verifySlots' = verifySlots,
         \A q \in Reqs : pc'[q] = "verify" <=> pc[q] = "verify"
  PROVE  SlotsConserved'
<1>1. Verifying' = Verifying
  BY DEF Verifying
<1> QED BY <1>1 DEF SlotsConserved

\* A request that leaves argon2id gives back one slot, and there is one to give.
LEMMA SlotGivenBack ==
  ASSUME TypeOK, SlotsConserved, NEW r \in Reqs, pc[r] = "verify",
         verifySlots' = verifySlots - 1, NEW to, to # "verify", Goto(r, to)
  PROVE  SlotsConserved' /\ verifySlots' \in 0 .. MaxVerifies
<1>1. Verifying' = Verifying \ {r} /\ r \in Verifying
  BY DEF Verifying, TypeOK, Goto
<1>2. IsFiniteSet(Verifying) /\ Cardinality(Verifying) \in Nat
  BY VerifyingFinite DEF Verifying
<1>3. Cardinality(Verifying') = Cardinality(Verifying) - 1
  BY <1>1, <1>2, FS_RemoveElement
<1>4. Cardinality(Verifying') \in Nat
  BY VerifyingFinite DEF Verifying
<1> QED BY <1>3, <1>4, GateBounds DEF SlotsConserved, TypeOK

\* A failure recorded: the entry stays well-typed, and its lockout is the
\* backoff counted from now.
LEMMA FailedEntryFacts ==
  ASSUME TypeOK, NEW k \in Keys
  PROVE  LET n == FailedEntry(attempts[k])
         IN  /\ n \in [failures : 0 .. FailureCap, lockedUntil : Nat]
             /\ n.failures >= MaxFailures => n.lockedUntil = now + Backoff(n.failures)
<1> DEFINE f == IF attempts[k].failures < FailureCap
                THEN attempts[k].failures + 1 ELSE FailureCap
<1>1. attempts[k].failures \in 0 .. FailureCap /\ attempts[k].lockedUntil \in Nat
  BY DEF TypeOK
<1>2. f \in 0 .. FailureCap
  BY <1>1, GateBounds
<1>3. f >= MaxFailures => Backoff(f) \in Nat
  BY <1>2, GateBounds, BackoffType
<1>4. now \in Nat
  BY GateBounds DEF TypeOK
<1> HIDE DEF f
<1>5. FailedEntry(attempts[k]) =
        [failures |-> f,
         lockedUntil |-> IF f >= MaxFailures THEN now + Backoff(f)
                                             ELSE attempts[k].lockedUntil]
  BY DEF FailedEntry, f
<1> QED BY <1>1, <1>2, <1>3, <1>4, <1>5

----------------------------------------------------------------------------

\* An arriving request with locals fit for the point it arrives at.
LEMMA ArriveInv ==
  ASSUME GateInv, NEW r \in Reqs, NEW op, NEW to \in {"lock", "announce", "setup"},
         NEW fields \in Request_, Arrive(r, op, to, fields),
         to = "lock" => fields.op \in {"unlock", "change"} /\ fields.key \in Keys,
         to = "announce" => fields.op \in {"status", "setup"},
         to = "setup" => fields.op = "setup",
         fields.op = "setup" => fields.token < MaxTokens
  PROVE  GateInv'
<1> USE DEF GateInv, Arrive, Goto, gateVars, fileVars, histVars
<1>1. /\ pc' \in [Reqs -> States] /\ pc'[r] = to /\ req'[r] = fields
      /\ req' \in [Reqs -> Request_]
      /\ \A q \in Reqs : q # r => pc'[q] = pc[q] /\ req'[q] = req[q]
  BY DEF TypeOK, States
<1>2. TypeOK'
  BY <1>1 DEF TypeOK
<1>3. ReqShape'
  BY <1>1 DEF ReqShape, InAttempt, Writing
<1>4. KeyHeld' /\ SetupHeld'
  BY <1>1 DEF KeyHeld, SetupHeld, InAttempt, Writing
<1>5. NoGuessUnderLockout' /\ Ledger'
  BY <1>1 DEF NoGuessUnderLockout, Guessing, Ledger
<1>6. SlotsConserved'
  BY <1>1, SlotsKept
<1>7. TokenLedger'
  BY DEF TokenLedger
<1> QED BY <1>2, <1>3, <1>4, <1>5, <1>6, <1>7

\* Every request arrives with such locals.
LEMMA RequestInv ==
  ASSUME GateInv, NEW r \in Reqs, Request(r)
  PROVE  GateInv'
<1> USE DEF GateInv
<1>0. currentHash \in Hashes
  BY GateSets DEF currentHash, readStoredHash, Hashes, TypeOK
<1>1. ASSUME NEW k \in Keys, NEW pw \in Passwords, TryUnlock(r, k, pw)
      PROVE  GateInv'
  <2> DEFINE f == Locals("unlock", k, pw, NoHash, currentHash, 0)
  <2>1. f \in Request_ /\ f.op = "unlock" /\ f.key = k
    BY <1>0, GateBounds DEF Locals, Request_
  <2>2. Arrive(r, "unlock", "lock", f)
    BY <1>1 DEF TryUnlock
  <2> HIDE DEF f
  <2> QED BY <2>1, <2>2, ArriveInv
<1>2. ASSUME NEW k \in Keys, NEW pw \in Passwords, NEW new \in Passwords,
             ChangePassword(r, k, pw, new)
      PROVE  GateInv'
  <2> DEFINE f == Locals("change", k, pw, new, NoHash, 0)
  <2>1. f \in Request_ /\ f.op = "change" /\ f.key = k
    BY GateBounds DEF Locals, Request_, Hashes
  <2>2. Arrive(r, "change", "lock", f)
    BY <1>2 DEF ChangePassword
  <2> HIDE DEF f
  <2> QED BY <2>1, <2>2, ArriveInv
<1>3. ASSUME handleAuthStatus(r)
      PROVE  GateInv'
  <2> DEFINE f == Locals("status", Nobody, NoHash, NoHash, NoHash, 0)
  <2>1. f \in Request_ /\ f.op = "status"
    BY GateBounds DEF Locals, Request_, Hashes
  <2>2. Arrive(r, "status", "announce", f)
    BY <1>3 DEF handleAuthStatus
  <2> HIDE DEF f
  <2> QED BY <2>1, <2>2, ArriveInv
<1>4. ASSUME NEW t \in known \cup {0}, NEW new \in Passwords, handleAuthSetup(r, t, new)
      PROVE  GateInv'
  <2> DEFINE f == Locals("setup", Nobody, NoHash, new, NoHash, t)
  <2> DEFINE to == IF Configured THEN "setup" ELSE "announce"
  <2>0. t \in 0 .. MaxTokens
    BY GateBounds DEF TypeOK, Tokens
  <2>1. f \in Request_ /\ f.op = "setup" /\ f.token = t
    BY <2>0 DEF Locals, Request_, Hashes
  <2>2. Arrive(r, "setup", to, f) /\ t < MaxTokens
    BY <1>4 DEF handleAuthSetup
  <2>3. to \in {"announce", "setup"}
    OBVIOUS
  <2> HIDE DEF f, to
  <2> QED BY <2>1, <2>2, <2>3, ArriveInv
<1> QED BY <1>1, <1>2, <1>3, <1>4 DEF Request

----------------------------------------------------------------------------
(* Steps of a request.                                                     *)

\* Assigning a local variable of a request.
LEMMA FieldSet ==
  ASSUME NEW q \in Request_
  PROVE  /\ \A h \in Hashes : [q EXCEPT !.hash = h] \in Request_
         /\ \A i \in Inodes \cup {NoFile} : [q EXCEPT !.fd = i] \in Request_
<1>1. q = [op |-> q.op, key |-> q.key, pw |-> q.pw, new |-> q.new,
           hash |-> q.hash, token |-> q.token, fd |-> q.fd]
  BY DEF Request_
<1>2. ASSUME NEW h \in Hashes PROVE [q EXCEPT !.hash = h] \in Request_
  <2>1. [q EXCEPT !.hash = h] =
          [op |-> q.op, key |-> q.key, pw |-> q.pw, new |-> q.new,
           hash |-> h, token |-> q.token, fd |-> q.fd]
    BY <1>1
  <2> QED BY <2>1 DEF Request_
<1>3. ASSUME NEW i \in Inodes \cup {NoFile} PROVE [q EXCEPT !.fd = i] \in Request_
  <2>1. [q EXCEPT !.fd = i] =
          [op |-> q.op, key |-> q.key, pw |-> q.pw, new |-> q.new,
           hash |-> q.hash, token |-> q.token, fd |-> i]
    BY <1>1
  <2> QED BY <2>1 DEF Request_
<1> QED BY <1>2, <1>3

\* What is left of a request once it is answered.
LEMMA AnswerFrame ==
  ASSUME TypeOK, NEW r \in Reqs, Answer(r)
  PROVE  /\ pc' \in [Reqs -> States] /\ req' \in [Reqs -> Request_]
         /\ pc'[r] = "idle" /\ req'[r].op = "none"
         /\ \A q \in Reqs : q # r => pc'[q] = pc[q] /\ req'[q] = req[q]
<1>1. NoReq \in Request_ /\ NoReq.op = "none"
  BY GateBounds DEF NoReq, Locals, Request_, Hashes
<1> QED BY <1>1 DEF TypeOK, Answer, Goto, States

\* What a request that moves on and keeps its locals looks like.
LEMMA GotoFrame ==
  ASSUME TypeOK, NEW r \in Reqs, NEW to \in States, Goto(r, to), req' = req
  PROVE  /\ pc' \in [Reqs -> States] /\ req' \in [Reqs -> Request_]
         /\ pc'[r] = to
         /\ \A q \in Reqs : q # r => pc'[q] = pc[q]
         /\ \A q \in Reqs : req'[q] = req[q]
BY DEF TypeOK, Goto

\* An attempt that ends releases a key nobody else holds.
LEMMA KeyReleased ==
  ASSUME GateInv, NEW r \in Reqs, Answer(r), unlockKey(r), setupMu' = setupMu,
         setupToken' = setupToken,
         InAttempt(r) \/ (Writing(r) /\ req[r].op = "change")
  PROVE  /\ holder' \in [Keys -> Reqs \cup {Nobody}]
         /\ ReqShape' /\ KeyHeld' /\ SetupHeld'
<1> USE DEF GateInv
<1>1. /\ pc'[r] = "idle" /\ req'[r].op = "none"
      /\ \A q \in Reqs : q # r => pc'[q] = pc[q] /\ req'[q] = req[q]
  BY AnswerFrame
<1>2. req[r].key \in Keys /\ holder[req[r].key] = r
  BY DEF ReqShape, KeyHeld
<1>3. holder' \in [Keys -> Reqs \cup {Nobody}]
  BY DEF unlockKey, TypeOK
<1>4. ReqShape'
  BY <1>1 DEF ReqShape, InAttempt, Writing
<1>5. KeyHeld'
  BY <1>1, <1>2 DEF KeyHeld, ReqShape, InAttempt, Writing, unlockKey, TypeOK
<1>6. SetupHeld'
  BY <1>1 DEF SetupHeld, Writing
<1> QED BY <1>3, <1>4, <1>5, <1>6

\* A refused check and an expired slot wait end the attempt without a trace.
LEMMA RefusalInv ==
  ASSUME GateInv, NEW r \in Reqs, CheckRefused(r) \/ VerifyBusy(r)
  PROVE  GateInv'
<1> USE DEF GateInv, CheckRefused, VerifyBusy, fileVars, histVars
<1>0. Answer(r) /\ unlockKey(r) /\ pc[r] \in {"check", "queued"} /\ InAttempt(r)
  BY DEF InAttempt
<1>1. /\ pc' \in [Reqs -> States] /\ req' \in [Reqs -> Request_] /\ pc'[r] = "idle"
      /\ \A q \in Reqs : q # r => pc'[q] = pc[q] /\ req'[q] = req[q]
  BY <1>0, AnswerFrame
<1>2. /\ holder' \in [Keys -> Reqs \cup {Nobody}]
      /\ ReqShape' /\ KeyHeld' /\ SetupHeld'
  BY <1>0, KeyReleased
<1>3. TypeOK'
  BY <1>1, <1>2 DEF TypeOK
<1>4. NoGuessUnderLockout' /\ Ledger'
  BY <1>1 DEF NoGuessUnderLockout, Guessing, Ledger
<1>5. SlotsConserved'
  BY <1>0, <1>1, SlotsKept
<1>6. TokenLedger'
  BY DEF TokenLedger
<1> QED BY <1>2, <1>3, <1>4, <1>5, <1>6

\* lockKey returns.
LEMMA LockInv ==
  ASSUME GateInv, NEW r \in Reqs, lockKey(r)
  PROVE  GateInv'
<1> USE DEF GateInv, lockKey, fileVars, histVars
<1>1. /\ pc' \in [Reqs -> States] /\ req' \in [Reqs -> Request_] /\ pc'[r] = "check"
      /\ \A q \in Reqs : q # r => pc'[q] = pc[q]
      /\ \A q \in Reqs : req'[q] = req[q]
  BY GotoFrame DEF States
<1>2. req[r].key \in Keys /\ req[r].op \in {"unlock", "change"}
  BY DEF ReqShape
<1>3. TypeOK'
  BY <1>1, <1>2 DEF TypeOK
<1>4. ReqShape'
  BY <1>1, <1>2 DEF ReqShape, InAttempt, Writing
<1>5. KeyHeld'
  BY <1>1, <1>2, GateSets DEF KeyHeld, ReqShape, InAttempt, Writing, TypeOK
<1>6. SetupHeld' /\ NoGuessUnderLockout' /\ Ledger'
  BY <1>1 DEF SetupHeld, Writing, NoGuessUnderLockout, Guessing, Ledger
<1>7. SlotsConserved'
  BY <1>1, SlotsKept
<1>8. TokenLedger'
  BY DEF TokenLedger
<1> QED BY <1>3, <1>4, <1>5, <1>6, <1>7, <1>8

\* The lockout test passes under the key's lock, so the ledger entry it read
\* stays as it is until this request records its outcome.
LEMMA CheckPassedInv ==
  ASSUME GateInv, NEW r \in Reqs, CheckPassed(r)
  PROVE  GateInv'
<1> USE DEF GateInv, CheckPassed, gateVars, fileVars, histVars
<1>0. HashToVerify(r) \in Hashes
  BY GateSets DEF HashToVerify, currentHash, readStoredHash, Hashes, TypeOK, Request_
<1>1. /\ pc' \in [Reqs -> States] /\ pc'[r] = "slot"
      /\ \A q \in Reqs : q # r => pc'[q] = pc[q]
  BY DEF Goto, TypeOK, States
<1>2. req' \in [Reqs -> Request_]
  <2>1. [req[r] EXCEPT !.hash = HashToVerify(r)] \in Request_
    BY <1>0, FieldSet DEF TypeOK
  <2> QED BY <2>1 DEF TypeOK
<1>3. \A q \in Reqs : /\ req'[q].op = req[q].op /\ req'[q].key = req[q].key
                      /\ req'[q].token = req[q].token
  BY DEF TypeOK, Request_
<1>4. attempts[req[r].key].lockedUntil <= now
  <2>1. req[r].key \in Keys
    BY DEF ReqShape, InAttempt
  <2>2. attempts[req[r].key].lockedUntil \in Nat /\ now \in Nat
    BY <2>1 DEF TypeOK
  <2> QED BY <2>2 DEF Refused, rateLimited
<1>5. TypeOK'
  BY <1>1, <1>2 DEF TypeOK
<1>6. ReqShape'
  BY <1>1, <1>3 DEF ReqShape, InAttempt, Writing
<1>7. KeyHeld' /\ SetupHeld'
  BY <1>1, <1>3 DEF KeyHeld, SetupHeld, InAttempt, Writing
<1>8. NoGuessUnderLockout' /\ Ledger'
  BY <1>1, <1>3, <1>4 DEF NoGuessUnderLockout, Guessing, Ledger
<1>9. SlotsConserved'
  BY <1>1, SlotsKept
<1>10. TokenLedger'
  BY DEF TokenLedger
<1> QED BY <1>5, <1>6, <1>7, <1>8, <1>9, <1>10

\* Taking a slot, or queueing for one.
LEMMA SlotInv ==
  ASSUME GateInv, NEW r \in Reqs, TakeSlot(r) \/ SlotsFull(r)
  PROVE  GateInv'
<1> USE DEF GateInv, TakeSlot, SlotsFull, gateVars, fileVars, histVars
<1>0. PICK to \in {"queued", "verify"} :
        /\ Goto(r, to) /\ req' = req
        /\ to = "verify" => TakeSlot(r)
        /\ to = "queued" => SlotsFull(r)
  OBVIOUS
<1>1. /\ pc' \in [Reqs -> States] /\ req' \in [Reqs -> Request_] /\ pc'[r] = to
      /\ \A q \in Reqs : q # r => pc'[q] = pc[q]
      /\ \A q \in Reqs : req'[q] = req[q]
  BY <1>0, GotoFrame DEF States
<1>2. TypeOK'
  BY <1>0, <1>1, GateBounds DEF TypeOK
<1>3. ReqShape' /\ KeyHeld' /\ SetupHeld'
  BY <1>0, <1>1 DEF ReqShape, KeyHeld, SetupHeld, InAttempt, Writing
<1>4. NoGuessUnderLockout' /\ Ledger'
  BY <1>0, <1>1 DEF NoGuessUnderLockout, Guessing, Ledger
<1>5. SlotsConserved'
  <2>1. CASE to = "queued"
    BY <1>0, <1>1, <2>1, SlotsKept
  <2>2. CASE to = "verify"
    <3>1. Verifying' = Verifying \cup {r} /\ r \notin Verifying
      BY <1>0, <1>1, <2>2 DEF Verifying
    <3>2. IsFiniteSet(Verifying)
      BY VerifyingFinite DEF Verifying
    <3>3. Cardinality(Verifying') = Cardinality(Verifying) + 1
      BY <3>1, <3>2, FS_AddElement
    <3> QED BY <1>0, <2>2, <3>3 DEF SlotsConserved
  <2> QED BY <2>1, <2>2
<1>6. TokenLedger'
  BY <1>0 DEF TokenLedger
<1> QED BY <1>2, <1>3, <1>4, <1>5, <1>6

\* A wrong password: the failure is recorded under the key's lock, when no other
\* guess for the key is under way.
LEMMA MismatchInv ==
  ASSUME GateInv, NEW r \in Reqs, VerifyMismatch(r)
  PROVE  GateInv'
<1> USE DEF GateInv, VerifyMismatch, recordFailure, fileVars, histVars
<1>0. Answer(r) /\ unlockKey(r) /\ InAttempt(r) /\ Goto(r, "idle")
  BY DEF InAttempt, Answer
<1>1. /\ pc' \in [Reqs -> States] /\ req' \in [Reqs -> Request_] /\ pc'[r] = "idle"
      /\ \A q \in Reqs : q # r => pc'[q] = pc[q] /\ req'[q] = req[q]
  BY <1>0, AnswerFrame
<1>2. /\ holder' \in [Keys -> Reqs \cup {Nobody}]
      /\ ReqShape' /\ KeyHeld' /\ SetupHeld'
  BY <1>0, KeyReleased
<1>3. PICK k \in Keys : k = req[r].key /\ holder[k] = r
  BY <1>0 DEF ReqShape, KeyHeld
<1>4. SlotsConserved' /\ verifySlots' \in 0 .. MaxVerifies
  BY <1>0, SlotGivenBack
<1>5. /\ FailedEntry(attempts[k]) \in [failures : 0 .. FailureCap, lockedUntil : Nat]
      /\ FailedEntry(attempts[k]).failures >= MaxFailures =>
           FailedEntry(attempts[k]).lockedUntil
             = now + Backoff(FailedEntry(attempts[k]).failures)
  BY FailedEntryFacts
<1>6. attempts' = [attempts EXCEPT ![k] = FailedEntry(attempts[k])]
      /\ lastFail' = [lastFail EXCEPT ![k] = now]
  BY <1>3
<1>7. TypeOK'
  <2>1. attempts' \in [Keys -> [failures : 0 .. FailureCap, lockedUntil : Nat]]
    BY <1>5, <1>6 DEF TypeOK
  <2>2. lastFail' \in [Keys -> Nat]
    <3>1. now \in Nat /\ lastFail \in [Keys -> Nat]
      BY GateBounds DEF TypeOK
    <3> QED BY <1>6, <3>1
  <2> QED BY <1>1, <1>2, <1>4, <2>1, <2>2 DEF TypeOK
<1>8. NoGuessUnderLockout'
  <2> SUFFICES ASSUME NEW q \in Reqs, Guessing(q)'
               PROVE  attempts'[req'[q].key].lockedUntil <= now'
    BY DEF NoGuessUnderLockout
  <2>1. q # r /\ Guessing(q) /\ req'[q] = req[q]
    BY <1>1 DEF Guessing
  <2>2. req[q].key \in Keys /\ holder[req[q].key] = q
    BY <2>1 DEF ReqShape, KeyHeld, Guessing, InAttempt
  <2>3. req[q].key # k
    BY <2>1, <2>2, <1>3
  <2> QED BY <2>1, <2>2, <2>3, <1>6 DEF NoGuessUnderLockout, TypeOK
<1>9. Ledger'
  BY <1>5, <1>6 DEF Ledger, TypeOK
<1>10. TokenLedger'
  BY DEF TokenLedger
<1> QED BY <1>2, <1>4, <1>7, <1>8, <1>9, <1>10

\* A ledger entry cleared is never a lockout.
LEMMA LedgerCleared ==
  ASSUME GateInv, NEW k \in Keys, recordSuccess(k), now' = now
  PROVE  /\ attempts' \in [Keys -> [failures : 0 .. FailureCap, lockedUntil : Nat]]
         /\ Ledger'
         /\ \A j \in Keys : attempts'[j].lockedUntil <= now
                              \/ attempts'[j] = attempts[j]
<1> USE DEF GateInv, recordSuccess
<1>1. NoAttempts \in [failures : 0 .. FailureCap, lockedUntil : Nat]
      /\ NoAttempts.failures = 0 /\ NoAttempts.lockedUntil = 0
  BY GateBounds DEF NoAttempts
<1>2. attempts' \in [Keys -> [failures : 0 .. FailureCap, lockedUntil : Nat]]
  BY <1>1 DEF TypeOK
<1>3. \A j \in Keys : attempts'[j] = IF j = k THEN NoAttempts ELSE attempts[j]
  BY DEF TypeOK
<1>4. Ledger'
  BY <1>1, <1>3, GateBounds DEF Ledger
<1>5. now \in Nat
  BY DEF TypeOK
<1> QED BY <1>1, <1>2, <1>3, <1>4, <1>5

\* The right password, in an unlock.
LEMMA UnlockMatchInv ==
  ASSUME GateInv, NEW r \in Reqs, UnlockMatch(r)
  PROVE  GateInv'
<1> USE DEF GateInv, UnlockMatch, fileVars, histVars
<1>0. Answer(r) /\ unlockKey(r) /\ InAttempt(r) /\ Goto(r, "idle")
  BY DEF InAttempt, Answer
<1>1. /\ pc' \in [Reqs -> States] /\ req' \in [Reqs -> Request_] /\ pc'[r] = "idle"
      /\ \A q \in Reqs : q # r => pc'[q] = pc[q] /\ req'[q] = req[q]
  BY <1>0, AnswerFrame
<1>2. /\ holder' \in [Keys -> Reqs \cup {Nobody}]
      /\ ReqShape' /\ KeyHeld' /\ SetupHeld'
  BY <1>0, KeyReleased
<1>3. SlotsConserved' /\ verifySlots' \in 0 .. MaxVerifies
  BY <1>0, SlotGivenBack
<1>4. /\ attempts' \in [Keys -> [failures : 0 .. FailureCap, lockedUntil : Nat]]
      /\ Ledger'
      /\ \A j \in Keys : attempts'[j].lockedUntil <= now
                           \/ attempts'[j] = attempts[j]
  <2>1. req[r].key \in Keys
    BY <1>0 DEF ReqShape
  <2> QED BY <2>1, LedgerCleared
<1>5. TypeOK'
  BY <1>1, <1>2, <1>3, <1>4 DEF TypeOK, recordSuccess
<1>6. NoGuessUnderLockout'
  BY <1>1, <1>4 DEF NoGuessUnderLockout, Guessing, ReqShape, InAttempt
<1>7. TokenLedger'
  BY DEF TokenLedger
<1> QED BY <1>2, <1>3, <1>4, <1>5, <1>6, <1>7

\* The right password, in a change: the request goes on to write, key in hand.
LEMMA ChangeMatchInv ==
  ASSUME GateInv, NEW r \in Reqs, ChangeMatch(r)
  PROVE  GateInv'
<1> USE DEF GateInv, ChangeMatch, fileVars, histVars
<1>0. InAttempt(r) /\ Goto(r, "open") /\ req' = req
  BY DEF InAttempt
<1>1. /\ pc' \in [Reqs -> States] /\ req' \in [Reqs -> Request_] /\ pc'[r] = "open"
      /\ \A q \in Reqs : q # r => pc'[q] = pc[q]
      /\ \A q \in Reqs : req'[q] = req[q]
  BY <1>0, GotoFrame DEF States
<1>2. ReqShape' /\ KeyHeld' /\ SetupHeld'
  BY <1>0, <1>1 DEF ReqShape, KeyHeld, SetupHeld, InAttempt, Writing
<1>3. SlotsConserved' /\ verifySlots' \in 0 .. MaxVerifies
  BY <1>0, SlotGivenBack
<1>4. /\ attempts' \in [Keys -> [failures : 0 .. FailureCap, lockedUntil : Nat]]
      /\ Ledger'
      /\ \A j \in Keys : attempts'[j].lockedUntil <= now
                           \/ attempts'[j] = attempts[j]
  <2>1. req[r].key \in Keys
    BY <1>0 DEF ReqShape
  <2> QED BY <2>1, LedgerCleared
<1>5. TypeOK'
  BY <1>1, <1>3, <1>4 DEF TypeOK, recordSuccess
<1>6. NoGuessUnderLockout'
  BY <1>1, <1>4 DEF NoGuessUnderLockout, Guessing, ReqShape, InAttempt
<1>7. TokenLedger'
  BY DEF TokenLedger
<1> QED BY <1>2, <1>3, <1>4, <1>5, <1>6, <1>7

\* Announcing, and the two outcomes of a setup's checks.
LEMMA SetupStepsInv ==
  ASSUME GateInv, NEW r \in Reqs,
         AnnounceSetupToken(r) \/ SetupRefused(r) \/ SetupPassword(r)
  PROVE  GateInv'
<1> USE DEF GateInv, AnnounceSetupToken, SetupRefused, SetupPassword,
            gateVars, fileVars, histVars
<1>1. CASE AnnounceSetupToken(r) \/ SetupRefused(r)
  <2>1. /\ pc' \in [Reqs -> States] /\ req' \in [Reqs -> Request_]
        /\ \/ pc'[r] = "idle" /\ req'[r].op = "none"
           \/ pc'[r] = "setup" /\ req'[r] = req[r] /\ req[r].op = "setup"
        /\ \A q \in Reqs : q # r => pc'[q] = pc[q] /\ req'[q] = req[q]
    <3>1. CASE Answer(r)
      BY <3>1, AnswerFrame
    <3>2. CASE Goto(r, "setup") /\ UNCHANGED req /\ req[r].op = "setup"
      BY <3>2, GotoFrame DEF States
    <3>3. Answer(r) \/ (Goto(r, "setup") /\ UNCHANGED req /\ req[r].op = "setup")
      BY <1>1 DEF ReqShape
    <3> QED BY <3>1, <3>2, <3>3
  <2>2. pc[r] \in {"announce", "setup"}
    BY <1>1
  <2>3. TypeOK'
    BY <1>1, <2>1 DEF TypeOK
  <2>4. ReqShape'
    BY <2>1 DEF ReqShape, InAttempt, Writing
  <2>5. KeyHeld' /\ SetupHeld'
    BY <1>1, <2>1 DEF KeyHeld, SetupHeld, InAttempt, Writing
  <2>6. NoGuessUnderLockout' /\ Ledger'
    BY <1>1, <2>1 DEF NoGuessUnderLockout, Guessing, Ledger
  <2>7. SlotsConserved'
    BY <1>1, <2>1, <2>2, SlotsKept
  <2>8. TokenLedger'
    BY <1>1 DEF TokenLedger
  <2> QED BY <2>3, <2>4, <2>5, <2>6, <2>7, <2>8
<1>2. CASE SetupPassword(r)
  <2>1. /\ pc' \in [Reqs -> States] /\ req' \in [Reqs -> Request_] /\ pc'[r] = "open"
        /\ \A q \in Reqs : q # r => pc'[q] = pc[q]
        /\ \A q \in Reqs : req'[q] = req[q]
    BY <1>2, GotoFrame DEF States
  <2>2. req[r].op = "setup"
    BY <1>2 DEF ReqShape
  <2>3. TypeOK'
    BY <1>2, <2>1 DEF TypeOK
  <2>4. ReqShape'
    BY <2>1, <2>2 DEF ReqShape, InAttempt, Writing
  <2>5. KeyHeld'
    BY <1>2, <2>1, <2>2 DEF KeyHeld, InAttempt, Writing
  <2>6. SetupHeld'
    BY <1>2, <2>1, <2>2, GateSets DEF SetupHeld, Writing
  <2>7. NoGuessUnderLockout' /\ Ledger'
    BY <1>2, <2>1 DEF NoGuessUnderLockout, Guessing, Ledger
  <2>8. SlotsConserved'
    BY <1>2, <2>1, SlotsKept
  <2>9. TokenLedger'
    BY <1>2 DEF TokenLedger
  <2> QED BY <2>3, <2>4, <2>5, <2>6, <2>7, <2>8, <2>9
<1> QED BY <1>1, <1>2

\* Opening and writing the .tmp: the writer keeps whichever lock it holds.
LEMMA WriterInv ==
  ASSUME GateInv, NEW r \in Reqs, OpenTmp(r) \/ WriteTmp(r)
  PROVE  GateInv'
<1> USE DEF GateInv, OpenTmp, WriteTmp, gateVars, fileVars, histVars
<1>1. PICK to \in {"write", "rename"}, i \in Inodes \cup {NoFile} :
        Goto(r, to) /\ req' = [req EXCEPT ![r] = [req[r] EXCEPT !.fd = i]]
  OBVIOUS
<1>2. /\ pc' \in [Reqs -> States] /\ pc'[r] = to
      /\ \A q \in Reqs : q # r => pc'[q] = pc[q]
  BY <1>1 DEF Goto, TypeOK, States
<1>3. req' \in [Reqs -> Request_]
  BY <1>1, FieldSet DEF TypeOK
<1>4. \A q \in Reqs : /\ req'[q].op = req[q].op /\ req'[q].key = req[q].key
                      /\ req'[q].token = req[q].token
  BY <1>1 DEF TypeOK, Request_
<1>5. Writing(r)
  BY DEF Writing
<1>6. tmp' \in Inodes \cup {NoFile} /\ content' \in [Inodes -> Passwords \cup {NoHash}]
  BY DEF TypeOK, Request_
<1>7. TypeOK'
  BY <1>2, <1>3, <1>6 DEF TypeOK
<1>8. ReqShape'
  BY <1>2, <1>4, <1>5 DEF ReqShape, InAttempt, Writing
<1>9. KeyHeld' /\ SetupHeld'
  BY <1>2, <1>4, <1>5 DEF KeyHeld, SetupHeld, InAttempt, Writing
<1>10. NoGuessUnderLockout' /\ Ledger'
  BY <1>2, <1>4 DEF NoGuessUnderLockout, Guessing, Ledger
<1>11. SlotsConserved'
  BY <1>2, SlotsKept
<1>12. TokenLedger'
  BY DEF TokenLedger
<1> QED BY <1>7, <1>8, <1>9, <1>10, <1>11, <1>12

\* A writer that ends releases its lock; a setup that ends gives up setupMu.
LEMMA WriterReleased ==
  ASSUME GateInv, NEW r \in Reqs, Writing(r), Answer(r), ReleaseWriter(r),
         setupToken' = setupToken \/ req[r].op = "setup"
  PROVE  /\ holder' \in [Keys -> Reqs \cup {Nobody}]
         /\ setupMu' \in Reqs \cup {Nobody}
         /\ ReqShape' /\ KeyHeld' /\ SetupHeld'
<1> USE DEF GateInv, ReleaseWriter
<1>1. CASE req[r].op = "setup"
  <2>1. /\ pc'[r] = "idle" /\ req'[r].op = "none"
        /\ \A q \in Reqs : q # r => pc'[q] = pc[q] /\ req'[q] = req[q]
    BY AnswerFrame
  <2>2. setupMu' = Nobody /\ holder' = holder /\ setupMu = r
    BY <1>1 DEF SetupHeld
  <2>3. ReqShape' /\ KeyHeld'
    BY <2>1, <2>2 DEF ReqShape, KeyHeld, InAttempt, Writing
  <2>4. SetupHeld'
    BY <2>1, <2>2 DEF SetupHeld, Writing
  <2> QED BY <2>2, <2>3, <2>4 DEF TypeOK
<1>2. CASE req[r].op # "setup"
  <2>1. req[r].op = "change" /\ unlockKey(r) /\ setupMu' = setupMu
    BY <1>2 DEF ReqShape
  <2> QED BY <1>2, <2>1, KeyReleased DEF TypeOK
<1> QED BY <1>1, <1>2

\* A failed write or rename.
LEMMA WriteErrorInv ==
  ASSUME GateInv, NEW r \in Reqs, WriteFails(r) \/ RenameFails(r)
  PROVE  GateInv'
<1> USE DEF GateInv, WriteFails, RenameFails, fileVars, histVars
<1>0. Answer(r) /\ ReleaseWriter(r) /\ Writing(r)
  BY DEF Writing
<1>1. /\ pc' \in [Reqs -> States] /\ req' \in [Reqs -> Request_] /\ pc'[r] = "idle"
      /\ \A q \in Reqs : q # r => pc'[q] = pc[q] /\ req'[q] = req[q]
  BY <1>0, AnswerFrame
<1>2. /\ holder' \in [Keys -> Reqs \cup {Nobody}] /\ setupMu' \in Reqs \cup {Nobody}
      /\ ReqShape' /\ KeyHeld' /\ SetupHeld'
  BY <1>0, WriterReleased
<1>3. TypeOK'
  BY <1>1, <1>2 DEF TypeOK
<1>4. NoGuessUnderLockout' /\ Ledger'
  BY <1>1 DEF NoGuessUnderLockout, Guessing, Ledger
<1>5. SlotsConserved'
  BY <1>0, <1>1, SlotsKept DEF Writing
<1>6. TokenLedger'
  BY DEF TokenLedger
<1> QED BY <1>2, <1>3, <1>4, <1>5, <1>6

\* The rename: a setup uses up the current token, which had paid for nothing,
\* and rotates it.
LEMMA RenameInv ==
  ASSUME GateInv, NEW r \in Reqs, RenameTmp(r)
  PROVE  GateInv'
<1> USE DEF GateInv, RenameTmp
<1>0. Answer(r) /\ ReleaseWriter(r) /\ Writing(r)
  BY DEF Writing
<1>1. /\ pc' \in [Reqs -> States] /\ req' \in [Reqs -> Request_] /\ pc'[r] = "idle"
      /\ \A q \in Reqs : q # r => pc'[q] = pc[q] /\ req'[q] = req[q]
  BY <1>0, AnswerFrame
<1>2. /\ holder' \in [Keys -> Reqs \cup {Nobody}] /\ setupMu' \in Reqs \cup {Nobody}
      /\ ReqShape' /\ KeyHeld' /\ SetupHeld'
  BY <1>0, WriterReleased
<1>3. setupToken' \in Tokens /\ announced' \in BOOLEAN /\ claims' \in [Tokens -> Nat]
      /\ TokenLedger'
  <2>1. CASE req[r].op = "setup"
    <3>1. req[r].token = setupToken /\ setupToken < MaxTokens
      BY <1>0, <2>1 DEF SetupHeld, ReqShape
    <3>2. /\ setupToken \in Tokens /\ setupToken' = setupToken + 1
          /\ announced' = FALSE
          /\ claims' = [claims EXCEPT ![setupToken] = @ + 1]
      BY <2>1, <3>1 DEF TypeOK
    <3>3. setupToken' \in Tokens /\ claims' \in [Tokens -> Nat]
      BY <3>1, <3>2, GateBounds DEF Tokens, TypeOK
    <3>4. TokenLedger'
      BY <3>2, GateBounds DEF TokenLedger, Tokens, TypeOK
    <3> QED BY <3>2, <3>3, <3>4
  <2>2. CASE req[r].op # "setup"
    BY <2>2 DEF TokenLedger, TypeOK
  <2> QED BY <2>1, <2>2
<1>4. acked' \in Passwords \cup {NoHash}
  BY DEF TypeOK, Request_
<1>5. TypeOK'
  BY <1>1, <1>2, <1>3, <1>4 DEF TypeOK
<1>6. NoGuessUnderLockout' /\ Ledger'
  BY <1>1 DEF NoGuessUnderLockout, Guessing, Ledger
<1>7. SlotsConserved'
  BY <1>0, <1>1, SlotsKept DEF Writing
<1> QED BY <1>2, <1>3, <1>5, <1>6, <1>7

----------------------------------------------------------------------------
(* The environment, and the whole.                                         *)

\* Time passing ends lockouts and starts none; a deleted file concerns no lock.
LEMMA EnvironmentInv ==
  ASSUME GateInv, Tick \/ DeleteStore
  PROVE  GateInv'
<1> USE DEF GateInv, Tick, DeleteStore, gateVars, fileVars, histVars
<1>1. /\ pc' = pc /\ req' = req /\ holder' = holder /\ attempts' = attempts
      /\ now' \in 0 .. MaxTime /\ now' >= now /\ now \in Nat
  BY GateBounds DEF TypeOK
<1>2. TypeOK'
  BY <1>1 DEF TypeOK
<1>3. ReqShape' /\ KeyHeld' /\ SetupHeld' /\ Ledger' /\ TokenLedger'
  BY <1>1 DEF ReqShape, KeyHeld, SetupHeld, InAttempt, Writing, Ledger, TokenLedger
<1>4. NoGuessUnderLockout'
  <2> SUFFICES ASSUME NEW q \in Reqs, Guessing(q)
               PROVE  attempts[req[q].key].lockedUntil <= now'
    BY <1>1 DEF NoGuessUnderLockout, Guessing
  <2>1. req[q].key \in Keys
    BY DEF ReqShape, Guessing, InAttempt
  <2>2. attempts[req[q].key].lockedUntil \in Nat
    BY <2>1 DEF TypeOK
  <2>3. attempts[req[q].key].lockedUntil <= now
    BY DEF NoGuessUnderLockout
  <2> QED BY <1>1, <2>2, <2>3
<1>5. SlotsConserved'
  BY <1>1, SlotsKept
<1> QED BY <1>2, <1>3, <1>4, <1>5

\* Facts common to a start and a restart: nobody runs, nothing is recorded.
LEMMA EmptyGate ==
  /\ NoReq \in Request_ /\ NoReq.op = "none"
  /\ NoAttempts \in [failures : 0 .. FailureCap, lockedUntil : Nat]
  /\ NoAttempts.failures < MaxFailures
  /\ Cardinality({}) = 0
<1>1. NoReq \in Request_ /\ NoReq.op = "none"
  BY GateBounds DEF NoReq, Locals, Request_, Hashes
<1>2. NoAttempts \in [failures : 0 .. FailureCap, lockedUntil : Nat]
      /\ NoAttempts.failures < MaxFailures
  BY GateBounds DEF NoAttempts
<1> QED BY <1>1, <1>2, FS_EmptySet

\* A restart.
LEMMA RestartInv ==
  ASSUME GateInv, Restart
  PROVE  GateInv'
<1> USE DEF GateInv, Restart, fileVars
<1>1. /\ \A q \in Reqs : pc'[q] = "idle" /\ req'[q].op = "none"
      /\ pc' \in [Reqs -> States] /\ req' \in [Reqs -> Request_]
  BY EmptyGate DEF States
<1>2. /\ setupToken' \in Tokens
      /\ attempts' \in [Keys -> [failures : 0 .. FailureCap, lockedUntil : Nat]]
      /\ lastFail' \in [Keys -> Nat]
      /\ known' \subseteq Tokens
      /\ envHash' \in EnvHashes /\ announced' \in BOOLEAN
  BY EmptyGate, GateBounds DEF TypeOK, Tokens
<1>3. verifySlots' \in 0 .. MaxVerifies /\ holder' \in [Keys -> Reqs \cup {Nobody}]
  BY GateBounds
<1>4. TypeOK'
  BY <1>1, <1>2, <1>3 DEF TypeOK
<1>5. ReqShape' /\ KeyHeld' /\ SetupHeld' /\ NoGuessUnderLockout'
  BY <1>1 DEF ReqShape, KeyHeld, SetupHeld, NoGuessUnderLockout, Guessing,
    InAttempt, Writing
<1>6. Ledger'
  <2>1. \A k \in Keys : attempts'[k].failures < MaxFailures
                        /\ attempts'[k].failures \in 0 .. FailureCap
    BY EmptyGate, <1>2
  <2> QED BY <2>1, GateBounds DEF Ledger
<1>7. SlotsConserved'
  <2>1. Verifying' = {}
    BY <1>1 DEF Verifying
  <2> QED BY <2>1, EmptyGate DEF SlotsConserved
<1>8. TokenLedger'
  BY <1>2 DEF TokenLedger, TypeOK, Tokens
<1> QED BY <1>4, <1>5, <1>6, <1>7, <1>8

\* The first start.
LEMMA InitInv == Init => GateInv
<1> SUFFICES ASSUME Init PROVE GateInv
  OBVIOUS
<1> USE DEF Init
<1>1. \A q \in Reqs : pc[q] = "idle" /\ req[q].op = "none"
  BY EmptyGate
<1>2. /\ pc \in [Reqs -> States] /\ req \in [Reqs -> Request_]
      /\ attempts \in [Keys -> [failures : 0 .. FailureCap, lockedUntil : Nat]]
  BY EmptyGate DEF States
<1>3. TypeOK
  BY <1>2, GateBounds DEF TypeOK, Tokens
<1>4. ReqShape /\ KeyHeld /\ SetupHeld /\ NoGuessUnderLockout
  BY <1>1 DEF ReqShape, KeyHeld, SetupHeld, NoGuessUnderLockout, Guessing,
    InAttempt, Writing
<1>5. Ledger
  <2>1. \A k \in Keys : attempts[k].failures < MaxFailures
                        /\ attempts[k].failures \in 0 .. FailureCap
    BY EmptyGate, <1>2
  <2> QED BY <2>1, GateBounds DEF Ledger
<1>6. SlotsConserved
  <2>1. Verifying = {}
    BY <1>1 DEF Verifying
  <2> QED BY <2>1, EmptyGate DEF SlotsConserved
<1>7. TokenLedger
  BY DEF TokenLedger
<1> QED BY <1>3, <1>4, <1>5, <1>6, <1>7 DEF GateInv

\* Every step preserves the inductive invariant.
LEMMA NextInv == GateInv /\ [Next]_vars => GateInv'
<1> SUFFICES ASSUME GateInv, [Next]_vars PROVE GateInv'
  OBVIOUS
<1>1. ASSUME NEW r \in Reqs, Step(r) PROVE GateInv'
  BY <1>1, LockInv, RefusalInv, CheckPassedInv, SlotInv, MismatchInv,
     UnlockMatchInv, ChangeMatchInv, SetupStepsInv, WriterInv, WriteErrorInv,
     RenameInv DEF Step
<1>2. CASE UNCHANGED vars
  <2> USE <1>2 DEF vars, gateVars, fileVars, histVars, GateInv
  <2>1. TypeOK' /\ ReqShape' /\ KeyHeld' /\ SetupHeld'
    BY DEF TypeOK, ReqShape, KeyHeld, SetupHeld, InAttempt, Writing
  <2>2. NoGuessUnderLockout' /\ Ledger' /\ TokenLedger'
    BY DEF NoGuessUnderLockout, Guessing, Ledger, TokenLedger
  <2>3. SlotsConserved'
    BY SlotsKept
  <2> QED BY <2>1, <2>2, <2>3
<1> QED BY <1>1, <1>2, RequestInv, EnvironmentInv, RestartInv DEF Next

\* The inductive invariant holds in every reachable state.
THEOREM GateInvariant == Spec => []GateInv
BY InitInv, NextInv, PTL DEF Spec

\* Every variable of the gate keeps its type.
THEOREM GateTypes == Spec => []TypeOK
<1>1. GateInv => TypeOK
  BY DEF GateInv
<1> QED BY <1>1, GateInvariant, PTL

\* No password guess is evaluated for a key that is locked out, however many
\* requests use the key at once.
THEOREM LockoutHolds == Spec => []NoGuessUnderLockout
<1>1. GateInv => NoGuessUnderLockout
  BY DEF GateInv
<1> QED BY <1>1, GateInvariant, PTL

\* At most maxConcurrentVerifies argon2id computations run, and no slot leaks.
THEOREM SlotsHold == Spec => []SlotsConserved
<1>1. GateInv => SlotsConserved
  BY DEF GateInv
<1> QED BY <1>1, GateInvariant, PTL

\* A setup token pays for at most one password.
THEOREM TokensHold == Spec => []TokenSingleUse
<1>1. GateInv => TokenSingleUse
  BY DEF GateInv, TokenLedger, TokenSingleUse
<1> QED BY <1>1, GateInvariant, PTL

\* Only a failed guess under the key's lock writes a non-empty ledger entry, so
\* failures beyond the threshold are at least the backoff apart.
LEMMA LedgerStep ==
  ASSUME GateInv, [Next]_vars, NEW k \in Keys,
         attempts[k].failures >= MaxFailures,
         attempts'[k] \notin {attempts[k], NoAttempts}
  PROVE  now >= lastFail[k] + Backoff(attempts[k].failures)
<1>1. ASSUME NEW r \in Reqs, VerifyMismatch(r)
      PROVE  now >= lastFail[k] + Backoff(attempts[k].failures)
  <2>1. k = req[r].key
    BY <1>1 DEF VerifyMismatch, recordFailure, GateInv, TypeOK
  <2>2. attempts[k].lockedUntil <= now
    BY <1>1, <2>1 DEF VerifyMismatch, GateInv, NoGuessUnderLockout, Guessing
  <2> QED BY <2>2 DEF GateInv, Ledger
<1>2. ASSUME NEW r \in Reqs, UnlockMatch(r) \/ ChangeMatch(r)
      PROVE  FALSE
  BY <1>2 DEF UnlockMatch, ChangeMatch, recordSuccess, GateInv, TypeOK
<1>3. ASSUME Restart PROVE FALSE
  BY <1>3 DEF Restart
<1>4. ASSUME attempts' = attempts PROVE FALSE
  BY <1>4
<1>5. ASSUME NEW r \in Reqs, Request(r) PROVE attempts' = attempts
  BY <1>5 DEF Request, TryUnlock, ChangePassword, handleAuthStatus,
    handleAuthSetup, Arrive, gateVars
<1>6. ASSUME NEW r \in Reqs, Step(r)
      PROVE  \/ attempts' = attempts
             \/ VerifyMismatch(r) \/ UnlockMatch(r) \/ ChangeMatch(r)
  BY <1>6 DEF Step, lockKey, CheckRefused, CheckPassed, TakeSlot, SlotsFull,
    VerifyBusy, AnnounceSetupToken, SetupRefused, SetupPassword, OpenTmp,
    WriteTmp, WriteFails, RenameTmp, RenameFails, gateVars
<1>7. ASSUME Tick \/ DeleteStore \/ UNCHANGED vars PROVE attempts' = attempts
  BY <1>7 DEF Tick, DeleteStore, vars, gateVars
<1> QED BY <1>1, <1>2, <1>3, <1>4, <1>5, <1>6, <1>7 DEF Next

\* The backoff really throttles: consecutive failures of a key beyond the
\* threshold are at least the backoff apart, under every interleaving.
THEOREM ThrottleHolds == Spec => Throttled
<1>1. GateInv /\ [Next]_vars =>
        [\A k \in Keys :
           /\ attempts[k].failures >= MaxFailures
           /\ attempts'[k] \notin {attempts[k], NoAttempts}
           => now >= lastFail[k] + Backoff(attempts[k].failures)]_vars
  BY LedgerStep
<1> QED BY <1>1, GateInvariant, PTL DEF Spec, Throttled

----------------------------------------------------------------------------
(* The password file, with one client address and no operator reset.       *)

\* Steps that leave the files, the env hash and the acknowledged password alone,
\* and do not take their request to its write or its rename.
LEMMA StoreFrame ==
  ASSUME StoreInv, NEW r \in Reqs, UNCHANGED <<envHash, path, tmp, content, acked>>,
         \A q \in Reqs : q # r => pc'[q] = pc[q] /\ req'[q] = req[q],
         pc'[r] \notin {"write", "rename"},
         req'[r].op \in {"change", "setup"} => req'[r].new \in Passwords,
         req'[r].op = "change" => envHash = NoHash,
         Guessing(r)' \/ pc'[r] = "open" =>
           /\ req'[r].op = "change" => path # NoFile
           /\ req'[r].op = "setup" => Guessing(r)' \/ (path = NoFile /\ envHash = NoHash)
  PROVE  StoreInv'
<1>1. StoredIsAcked'
  BY DEF StoreInv, StoredIsAcked
<1>2. WriterGuards'
  BY DEF StoreInv, WriterGuards, Guessing, Writing
<1>3. TmpOwned'
  BY DEF StoreInv, TmpOwned
<1> QED BY <1>1, <1>2, <1>3 DEF StoreInv

\* The file has at most one writer.
LEMMA OneWriter ==
  ASSUME OneClient, GateInv, StoreInv, NEW r \in Reqs, NEW q \in Reqs, Writing(r), Writing(q)
  PROVE  r = q
<1>1. req[r].op \in {"change", "setup"} /\ req[q].op \in {"change", "setup"}
  BY DEF GateInv, ReqShape
<1>2. CASE req[r].op = "change" /\ req[q].op = "change"
  BY <1>2 DEF OneClient, GateInv, ReqShape, KeyHeld
<1>3. CASE req[r].op = "setup" /\ req[q].op = "setup"
  BY <1>3 DEF GateInv, SetupHeld
<1>4. CASE req[r].op # req[q].op
  BY <1>1, <1>4 DEF StoreInv, WriterGuards
<1> QED BY <1>1, <1>2, <1>3, <1>4

\* Without an env hash, a password is configured exactly when one is stored.
LEMMA StoredHash ==
  ASSUME TypeOK, StoreInv
  PROVE  /\ readStoredHash = acked
         /\ readStoredHash = NoHash <=> path = NoFile
         /\ ~Configured <=> envHash = NoHash /\ path = NoFile
BY DEF StoreInv, StoredIsAcked, readStoredHash, Configured, currentHash

\* A request arrives with the password it means to store.
LEMMA RequestStore ==
  ASSUME GateInv, StoreInv, NEW r \in Reqs, Request(r)
  PROVE  StoreInv'
<1> DEFINE Fits(to, f) ==
             /\ \E op : Arrive(r, op, to, f)
             /\ to \in {"lock", "announce", "setup"}
             /\ f.op \in {"change", "setup"} => f.new \in Passwords
             /\ f.op = "change" => envHash = NoHash
<1>1. PICK to, fields : Fits(to, fields)
  <2>1. ASSUME NEW k \in Keys, NEW pw \in Passwords, TryUnlock(r, k, pw)
        PROVE  Fits("lock", Locals("unlock", k, pw, NoHash, currentHash, 0))
    BY <2>1 DEF TryUnlock, Locals
  <2>2. ASSUME NEW k \in Keys, NEW pw \in Passwords, NEW new \in Passwords,
               ChangePassword(r, k, pw, new)
        PROVE  Fits("lock", Locals("change", k, pw, new, NoHash, 0))
    BY <2>2 DEF ChangePassword, Locals
  <2>3. ASSUME handleAuthStatus(r)
        PROVE  Fits("announce", Locals("status", Nobody, NoHash, NoHash, NoHash, 0))
    BY <2>3 DEF handleAuthStatus, Locals
  <2>4. ASSUME NEW t \in known \cup {0}, NEW new \in Passwords, handleAuthSetup(r, t, new)
        PROVE  \E to : Fits(to, Locals("setup", Nobody, NoHash, new, NoHash, t))
    BY <2>4 DEF handleAuthSetup, Locals
  <2> HIDE DEF Fits
  <2> QED BY <2>1, <2>2, <2>3, <2>4 DEF Request
<1>2. /\ pc'[r] = to /\ req'[r] = fields
      /\ \A q \in Reqs : q # r => pc'[q] = pc[q] /\ req'[q] = req[q]
  BY <1>1 DEF Arrive, Goto, GateInv, TypeOK
<1>3. UNCHANGED <<envHash, path, tmp, content, acked>>
  BY <1>1 DEF Arrive, fileVars, histVars
<1> QED BY <1>1, <1>2, <1>3, StoreFrame DEF Guessing

\* An answered request has nothing left to store.
LEMMA AnswerStore ==
  ASSUME GateInv, StoreInv, NEW r \in Reqs, Answer(r),
         UNCHANGED <<envHash, path, tmp, content, acked>>
  PROVE  StoreInv'
<1>1. /\ pc'[r] = "idle" /\ req'[r].op = "none"
      /\ \A q \in Reqs : q # r => pc'[q] = pc[q] /\ req'[q] = req[q]
  BY AnswerFrame DEF GateInv
<1> QED BY <1>1, StoreFrame DEF Guessing

\* A request that moves on with its locals, short of opening the .tmp.
LEMMA MoveStore ==
  ASSUME GateInv, StoreInv, NEW r \in Reqs, NEW to \in States \ {"open", "write", "rename"},
         Goto(r, to), req' = req, Guessing(r)' => Guessing(r),
         UNCHANGED <<envHash, path, tmp, content, acked>>
  PROVE  StoreInv'
<1>1. /\ pc'[r] = to /\ req'[r] = req[r]
      /\ \A q \in Reqs : q # r => pc'[q] = pc[q] /\ req'[q] = req[q]
  BY GotoFrame DEF GateInv
<1>2. /\ req[r].op \in {"change", "setup"} => req[r].new \in Passwords
      /\ req[r].op = "change" => envHash = NoHash
      /\ Guessing(r) /\ req[r].op = "change" => path # NoFile
  BY DEF StoreInv, WriterGuards
<1> QED BY <1>1, <1>2, StoreFrame

\* The lockout test reads a stored password before a change is verified against it.
LEMMA CheckPassedStore ==
  ASSUME GateInv, StoreInv, NEW r \in Reqs, CheckPassed(r)
  PROVE  StoreInv'
<1>1. /\ pc'[r] = "slot" /\ req'[r].op = req[r].op /\ req'[r].new = req[r].new
      /\ \A q \in Reqs : q # r => pc'[q] = pc[q] /\ req'[q] = req[q]
  BY DEF CheckPassed, Goto, GateInv, TypeOK, Request_
<1>2. /\ req[r].op \in {"unlock", "change"}
      /\ req[r].op = "change" => envHash = NoHash /\ req[r].new \in Passwords
  BY DEF CheckPassed, GateInv, ReqShape, InAttempt, StoreInv, WriterGuards
<1>3. req[r].op = "change" => path # NoFile
  BY <1>2, StoredHash DEF CheckPassed, Refused, HashToVerify, GateInv, currentHash
<1>4. UNCHANGED <<envHash, path, tmp, content, acked>>
  BY DEF CheckPassed, fileVars, histVars
<1> QED BY <1>1, <1>2, <1>3, <1>4, StoreFrame

\* A verified change has a stored password to replace, and a setup that has looked
\* under setupMu has none.
LEMMA WriterStarts ==
  ASSUME GateInv, StoreInv, NEW r \in Reqs, ChangeMatch(r) \/ SetupPassword(r)
  PROVE  StoreInv'
<1>1. UNCHANGED <<envHash, path, tmp, content, acked>> /\ req' = req /\ Goto(r, "open")
  BY DEF ChangeMatch, SetupPassword, fileVars, histVars
<1>2. /\ pc'[r] = "open" /\ req'[r] = req[r]
      /\ \A q \in Reqs : q # r => pc'[q] = pc[q] /\ req'[q] = req[q]
  BY <1>1, GotoFrame DEF GateInv, States
<1>3. /\ req[r].op \in {"change", "setup"} => req[r].new \in Passwords
      /\ req[r].op = "change" => envHash = NoHash
  BY DEF StoreInv, WriterGuards
<1>4. CASE ChangeMatch(r)
  <2>1. req[r].op = "change" /\ path # NoFile
    BY <1>4 DEF ChangeMatch, StoreInv, WriterGuards, Guessing
  <2> QED BY <1>1, <1>2, <1>3, <2>1, StoreFrame
<1>5. CASE SetupPassword(r)
  <2>1. req[r].op = "setup" /\ path = NoFile /\ envHash = NoHash
    BY <1>5, StoredHash DEF SetupPassword, GateInv, ReqShape
  <2> QED BY <1>1, <1>2, <1>3, <2>1, StoreFrame
<1> QED BY <1>4, <1>5

\* Opening the .tmp truncates an inode that is not the password file.
LEMMA OpenStore ==
  ASSUME OneClient, GateInv, StoreInv, NEW r \in Reqs, OpenTmp(r)
  PROVE  StoreInv'
<1> USE DEF GateInv, StoreInv
<1>1. PICK i \in Inodes :
        /\ IF tmp = NoFile THEN i \notin InUse ELSE i = tmp
        /\ tmp' = i
        /\ content' = [content EXCEPT ![i] = NoHash]
        /\ req' = [req EXCEPT ![r] = [req[r] EXCEPT !.fd = i]]
  BY DEF OpenTmp
<1>2. i # path /\ i # NoFile
  BY <1>1, GateSets DEF TmpOwned, InUse
<1>3. path' = path /\ envHash' = envHash /\ acked' = acked /\ content'[path] = content[path]
  BY <1>1, <1>2 DEF OpenTmp, histVars, TypeOK
<1>4. /\ pc'[r] = "write" /\ req'[r].fd = i /\ Writing(r)
      /\ req'[r].op = req[r].op /\ req'[r].new = req[r].new
      /\ \A q \in Reqs : q # r => pc'[q] = pc[q] /\ req'[q] = req[q]
  BY <1>1 DEF OpenTmp, Goto, TypeOK, Request_, Writing
<1>5. \A q \in Reqs : q # r => ~Writing(q)
  BY <1>4, OneWriter
<1>6. StoredIsAcked'
  BY <1>3 DEF StoredIsAcked
<1>7. WriterGuards'
  BY <1>3, <1>4 DEF WriterGuards, Guessing, Writing
<1>8. TmpOwned'
  BY <1>1, <1>2, <1>3, <1>4, <1>5 DEF TmpOwned, Writing
<1> QED BY <1>6, <1>7, <1>8

\* Writing it fills that inode.
LEMMA WriteStore ==
  ASSUME OneClient, GateInv, StoreInv, NEW r \in Reqs, WriteTmp(r)
  PROVE  StoreInv'
<1> USE DEF GateInv, StoreInv
<1>1. /\ tmp # NoFile /\ req[r].fd = tmp /\ tmp # path /\ tmp \in Inodes
  BY DEF WriteTmp, TmpOwned, TypeOK
<1>2. /\ UNCHANGED <<path, tmp, envHash, acked>> /\ content'[tmp] = req[r].new
      /\ path # NoFile => content'[path] = content[path]
  BY <1>1 DEF WriteTmp, histVars, TypeOK
<1>3. /\ pc'[r] = "rename" /\ Writing(r)
      /\ req'[r].op = req[r].op /\ req'[r].new = req[r].new
      /\ \A q \in Reqs : q # r => pc'[q] = pc[q] /\ req'[q] = req[q]
  BY DEF WriteTmp, Goto, TypeOK, Request_, Writing
<1>4. \A q \in Reqs : q # r => ~Writing(q)
  BY <1>3, OneWriter
<1>5. StoredIsAcked'
  BY <1>2 DEF StoredIsAcked
<1>6. WriterGuards'
  BY <1>2, <1>3 DEF WriterGuards, Guessing, Writing
<1>7. TmpOwned'
  BY <1>1, <1>2, <1>3, <1>4 DEF TmpOwned, Writing
<1> QED BY <1>5, <1>6, <1>7

\* The rename puts the complete new password in place and acknowledges it.
LEMMA RenameStore ==
  ASSUME OneClient, GateInv, StoreInv, NEW r \in Reqs, RenameTmp(r)
  PROVE  StoreInv'
<1> USE DEF GateInv, StoreInv
<1>1. /\ tmp # NoFile /\ content[tmp] = req[r].new /\ Writing(r)
      /\ path' = tmp /\ tmp' = NoFile /\ acked' = req[r].new
      /\ content' = content /\ envHash' = envHash
  BY DEF RenameTmp, TmpOwned, Writing
<1>2. req[r].new \in Passwords
  BY <1>1 DEF ReqShape, WriterGuards
<1>3. /\ pc'[r] = "idle" /\ req'[r].op = "none"
      /\ \A q \in Reqs : q # r => pc'[q] = pc[q] /\ req'[q] = req[q]
  BY AnswerFrame DEF RenameTmp
<1>4. \A q \in Reqs : q # r => ~Writing(q)
  BY <1>1, OneWriter
<1>5. StoredIsAcked'
  BY <1>1, <1>2, GateSets DEF StoredIsAcked
<1>6. WriterGuards'
  BY <1>1, <1>3, <1>4 DEF WriterGuards, Guessing, Writing
<1>7. TmpOwned'
  BY <1>1, <1>3, <1>4 DEF TmpOwned, Writing
<1> QED BY <1>5, <1>6, <1>7

\* The first start, and every later one, has no writer.
LEMMA InitStore == Init => StoreInv
<1> SUFFICES ASSUME Init PROVE StoreInv
  OBVIOUS
<1>1. \A q \in Reqs : pc[q] = "idle" /\ req[q].op = "none"
  BY EmptyGate DEF Init
<1>2. StoredIsAcked
  BY GateSets DEF Init, StoredIsAcked
<1>3. WriterGuards /\ TmpOwned
  BY <1>1 DEF Init, WriterGuards, TmpOwned, Guessing, Writing
<1> QED BY <1>2, <1>3 DEF StoreInv

\* A restart leaves the files as they are, a .tmp cut short included.
LEMMA RestartStore ==
  ASSUME StoreInv, Restart
  PROVE  StoreInv'
<1>1. \A q \in Reqs : pc'[q] = "idle" /\ req'[q].op = "none"
  BY EmptyGate DEF Restart
<1>2. UNCHANGED <<path, tmp, content, acked>>
  BY DEF Restart, fileVars
<1>3. StoredIsAcked'
  BY <1>2 DEF StoreInv, StoredIsAcked
<1>4. WriterGuards' /\ TmpOwned'
  BY <1>1, <1>2 DEF StoreInv, WriterGuards, TmpOwned, Guessing, Writing
<1> QED BY <1>3, <1>4 DEF StoreInv

\* Every step preserves the file's invariant.
LEMMA NextStore ==
  ASSUME OneClient, GateInv, StoreInv, [Next]_vars
  PROVE  StoreInv'
<1>1. ASSUME NEW r \in Reqs, Step(r) PROVE StoreInv'
  <2> USE DEF fileVars, histVars
  <2>1. CASE lockKey(r)
    BY <2>1, MoveStore DEF lockKey, States, Guessing, Goto, GateInv, TypeOK
  <2>2. CASE CheckRefused(r) \/ VerifyBusy(r) \/ VerifyMismatch(r) \/ UnlockMatch(r)
    BY <2>2, AnswerStore DEF CheckRefused, VerifyBusy, VerifyMismatch, UnlockMatch
  <2>3. CASE TakeSlot(r) \/ SlotsFull(r)
    BY <2>3, MoveStore DEF TakeSlot, SlotsFull, States, Guessing
  <2>4. CASE AnnounceSetupToken(r)
    <3>1. CASE req[r].op = "status"
      BY <2>4, <3>1, AnswerStore DEF AnnounceSetupToken
    <3>2. CASE req[r].op # "status"
      <4>1. pc'[r] = "setup"
        BY <2>4, <3>2 DEF AnnounceSetupToken, Goto, GateInv, TypeOK
      <4> QED BY <2>4, <3>2, <4>1, MoveStore DEF AnnounceSetupToken, States, Guessing
    <3> QED BY <3>1, <3>2
  <2>5. CASE SetupRefused(r)
    BY <2>5, AnswerStore DEF SetupRefused
  <2>6. CASE WriteFails(r) \/ RenameFails(r)
    BY <2>6, AnswerStore DEF WriteFails, RenameFails
  <2> QED BY <1>1, <2>1, <2>2, <2>3, <2>4, <2>5, <2>6, CheckPassedStore, WriterStarts,
             OpenStore, WriteStore, RenameStore DEF Step
<1>2. CASE Tick \/ UNCHANGED vars
  BY <1>2 DEF Tick, vars, fileVars, histVars, StoreInv, StoredIsAcked, WriterGuards, TmpOwned,
    Guessing, Writing
<1>3. ~DeleteStore
  BY DEF OneClient, DeleteStore
<1> QED BY <1>1, <1>2, <1>3, RequestStore, RestartStore DEF Next

\* The file's invariant holds in every reachable state.
THEOREM StoreInvariant ==
  ASSUME OneClient
  PROVE  Spec => []StoreInv
<1>1. GateInv /\ StoreInv /\ [Next]_vars => StoreInv'
  BY NextStore
<1> QED BY <1>1, InitStore, GateInvariant, PTL DEF Spec

\* Whatever step of writeStoredHash fails and wherever the process dies, the password
\* file is complete: with one client address and no reset, for any number of requests.
THEOREM StoreNeverPartialHolds ==
  ASSUME OneClient
  PROVE  Spec => []StoreNeverPartial
<1>1. StoreInv => StoreNeverPartial
  BY DEF StoreInv, StoredIsAcked, StoreNeverPartial
<1> QED BY <1>1, StoreInvariant, PTL

\* The stored password is the last one that a change or a setup was answered for.
THEOREM AckedHolds ==
  ASSUME OneClient
  PROVE  Spec => []AckedPasswordInForce
<1>1. TypeOK /\ StoreInv => AckedPasswordInForce
  BY StoredHash DEF AckedPasswordInForce
<1> QED BY <1>1, StoreInvariant, GateTypes, PTL

\* No setup replaces a configured password: at its rename there is still none.
THEOREM SetupHolds ==
  ASSUME OneClient
  PROVE  Spec => SetupNeverOverwrites
<1>1. GateInv /\ StoreInv =>
        [\A r \in Reqs :
           pc[r] = "rename" /\ req[r].op = "setup" /\ path' # path /\ path' = tmp
           => ~Configured]_vars
  BY StoredHash DEF GateInv, StoreInv, WriterGuards, Writing
<1> QED BY <1>1, StoreInvariant, GateInvariant, PTL DEF SetupNeverOverwrites
=============================================================================
