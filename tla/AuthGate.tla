------------------------------ MODULE AuthGate ------------------------------
(***************************************************************************)
(* The password gate of router-manager (backend/internal/authgate and      *)
(* backend/handlers_auth.go): concurrent unlock, change, setup and status  *)
(* requests over one per-key attempt lock, one pool of verification slots, *)
(* one setup mutex and one password file written through a temporary file  *)
(* of a fixed name.                                                        *)
(*                                                                         *)
(* A hash is the password it was made from: what the gate does with one is *)
(* compare it with a candidate.  NoHash is the empty string (not           *)
(* configured), Malformed an env hash VerifyPassword cannot decode.  Files *)
(* are inodes, because a writer that still holds an open descriptor writes *)
(* to the inode wherever a rename has moved it.                            *)
(***************************************************************************)
EXTENDS Integers, FiniteSets

CONSTANTS
  Reqs,         \* request goroutines
  Keys,         \* rate-limit keys (client addresses)
  Passwords,    \* plaintext passwords
  EnvHashes,    \* values ROUTER_MANAGER_AUTH_PASSWORD_HASH may have at a start
  Ops,          \* which of "unlock", "change", "setup", "status" are requested
  MayReset,     \* whether the operator may delete the password file
  MaxFailures,  \* maxFailuresBeforeLockout
  LockoutBase,  \* lockoutBase, in ticks
  LockoutMax,   \* lockoutMax, in ticks
  FailureCap,   \* the failure counter saturates here (see recordFailure)
  MaxVerifies,  \* maxConcurrentVerifies
  Inodes,       \* inodes available to the password file and its .tmp
  MaxTime,      \* bound on the clock
  MaxTokens,    \* bound on the number of setup tokens generated
  NoHash, Malformed, Nobody, NoFile

\* The loop in recordFailure doubles lockoutBase once per failure beyond the
\* threshold until lockoutMax is reached, then takes the minimum of the two.
Doubled(n) == LockoutBase * 2^n
Backoff(failures) ==
  LET d == Doubled(failures - MaxFailures)
  IN  IF d < LockoutMax THEN d ELSE LockoutMax

ASSUME GateSets ==
  /\ IsFiniteSet(Reqs)
  /\ Nobody \notin Reqs
  /\ NoFile \notin Inodes
  /\ NoHash \notin Passwords
  /\ Malformed \notin Passwords \cup {NoHash}
  /\ EnvHashes \subseteq Passwords \cup {NoHash, Malformed}
  /\ Ops \subseteq {"unlock", "change", "setup", "status"}
  /\ MayReset \in BOOLEAN

ASSUME GateBounds ==
  /\ MaxFailures \in Nat \ {0}
  /\ LockoutBase \in Nat \ {0}
  /\ LockoutMax \in Nat
  /\ FailureCap \in Nat
  /\ FailureCap >= MaxFailures
  /\ MaxVerifies \in Nat
  /\ MaxTime \in Nat
  /\ MaxTokens \in Nat \ {0}

\* Arithmetic the provers do not know of: powers of two are numbers.  At
\* FailureCap the backoff has reached lockoutMax, so that a saturated counter
\* locks out for exactly as long as the code's unbounded one.
ASSUME GatePowers ==
  /\ \A n \in 0 .. (FailureCap - MaxFailures) : Doubled(n) \in Nat
  /\ Doubled(FailureCap - MaxFailures) >= LockoutMax

VARIABLES
  pc,          \* where each request is in its handler
  req,         \* the request's arguments and local variables
  holder,      \* who holds each key's lock (Gate.keyLocks, see KeyLock)
  setupMu,     \* who holds Gate.setupMu
  attempts,    \* Gate.attempts; a missing entry is NoAttempts
  verifySlots, \* number of slots taken in the verifySlots channel
  setupToken,  \* Gate.setupToken, numbered in the order they are generated
  announced,   \* Gate.tokenAnnounced
  envHash,     \* Gate.envHash
  path, tmp,   \* the inode behind storePath and behind storePath + ".tmp"
  content,     \* what each inode holds; NoHash when empty or partial
  now,         \* the monotonic clock
  known,       \* history: tokens the container log has shown
  claims,      \* history: how many setups each token has paid for
  acked,       \* history: the last password acknowledged since the last reset
  lastFail     \* history: when each key last failed

gateVars == <<holder, setupMu, attempts, verifySlots, setupToken, announced>>
fileVars == <<path, tmp, content>>
histVars == <<known, claims, acked, lastFail>>
vars == <<pc, req, gateVars, envHash, fileVars, now, histVars>>

Tokens == 1 .. MaxTokens
Hashes == Passwords \cup {NoHash, Malformed}
NoAttempts == [failures |-> 0, lockedUntil |-> 0]

\* A request's arguments and locals: operation, key, password, new password,
\* the hash to verify against and the setup token; no file open yet.
Locals(op, k, pw, new, h, t) ==
  [op |-> op, key |-> k, pw |-> pw, new |-> new, hash |-> h, token |-> t,
   fd |-> NoFile]
NoReq == Locals("none", Nobody, NoHash, NoHash, NoHash, 0)

----------------------------------------------------------------------------
(* Reading the effective hash.                                             *)

readStoredHash == IF path = NoFile THEN NoHash ELSE content[path]

currentHash == IF envHash # NoHash THEN envHash ELSE readStoredHash

Configured == currentHash # NoHash

----------------------------------------------------------------------------
(* The attempt ledger.                                                     *)

rateLimited(k) == attempts[k].lockedUntil > now

\* Mutant of FailedEntry: only the failure that reaches the threshold locks out.
FailedEntryOnce(st) ==
  LET f == IF st.failures < FailureCap THEN st.failures + 1 ELSE FailureCap
  IN  [failures    |-> f,
       lockedUntil |-> IF f = MaxFailures THEN now + Backoff(f)
                                          ELSE st.lockedUntil]

\* What recordFailure leaves in the key's entry.
FailedEntry(st) ==
  LET f == IF st.failures < FailureCap THEN st.failures + 1 ELSE FailureCap
  IN  [failures    |-> f,
       lockedUntil |-> IF f >= MaxFailures THEN now + Backoff(f)
                                           ELSE st.lockedUntil]

recordFailure(k) ==
  /\ attempts' = [attempts EXCEPT ![k] = FailedEntry(@)]
  /\ lastFail' = [lastFail EXCEPT ![k] = now]

recordSuccess(k) ==
  /\ attempts' = [attempts EXCEPT ![k] = NoAttempts]
  /\ UNCHANGED lastFail

----------------------------------------------------------------------------
(* Control-flow helpers.                                                   *)

Goto(r, to) == pc' = [pc EXCEPT ![r] = to]

\* The handler answers: its goroutine and its locals are gone.
Answer(r) ==
  /\ Goto(r, "idle")
  /\ req' = [req EXCEPT ![r] = NoReq]

Arrive(r, op, to, fields) ==
  /\ op \in Ops
  /\ pc[r] = "idle"
  /\ Goto(r, to)
  /\ req' = [req EXCEPT ![r] = fields]
  /\ UNCHANGED <<gateVars, envHash, fileVars, now, histVars>>

\* unlock() of lockKey: the deferred release every return path takes.
unlockKey(r) == holder' = [holder EXCEPT ![req[r].key] = Nobody]

----------------------------------------------------------------------------
(* TryUnlock and ChangePassword.                                           *)

\* handleAuthUnlock up to lockKey: TryUnlock reads the hash BEFORE it queues
\* on the key; without one it answers 401 at once and nothing changes.
TryUnlock(r, k, pw) ==
  /\ Configured
  /\ Arrive(r, "unlock", "lock",
            Locals("unlock", k, pw, NoHash, currentHash, 0))

\* handleAuthChange up to lockKey: refused at once while the env var pins
\* the hash.
ChangePassword(r, k, pw, new) ==
  /\ envHash = NoHash
  /\ Arrive(r, "change", "lock",
            Locals("change", k, pw, new, NoHash, 0))

\* Mutant of lockKey: attempts of one key run side by side.
lockKeyShared(r) ==
  /\ pc[r] = "lock"
  /\ holder' = [holder EXCEPT ![req[r].key] = r]
  /\ Goto(r, "check")
  /\ UNCHANGED <<req, setupMu, attempts, verifySlots, setupToken, announced,
                 envHash, fileVars, now, histVars>>

\* lockKey returns: the key's mutex is taken.
lockKey(r) ==
  /\ pc[r] = "lock"
  /\ holder[req[r].key] = Nobody
  /\ holder' = [holder EXCEPT ![req[r].key] = r]
  /\ Goto(r, "check")
  /\ UNCHANGED <<req, setupMu, attempts, verifySlots, setupToken, announced,
                 envHash, fileVars, now, histVars>>

\* ChangePassword reads the hash only now, under the lock.
HashToVerify(r) == IF req[r].op = "change" THEN currentHash ELSE req[r].hash

\* The three ways out before the slow part: nothing configured any more, the
\* key locked out (429), an undecodable hash (500).
Refused(r) ==
  \/ HashToVerify(r) = NoHash
  \/ rateLimited(req[r].key)
  \/ HashToVerify(r) = Malformed

CheckRefused(r) ==
  /\ pc[r] = "check"
  /\ Refused(r)
  /\ Answer(r)
  /\ unlockKey(r)
  /\ UNCHANGED <<setupMu, attempts, verifySlots, setupToken, announced,
                 envHash, fileVars, now, histVars>>

CheckPassed(r) ==
  /\ pc[r] = "check"
  /\ ~Refused(r)
  /\ req' = [req EXCEPT ![r].hash = HashToVerify(r)]
  /\ Goto(r, "slot")
  /\ UNCHANGED <<gateVars, envHash, fileVars, now, histVars>>

\* VerifyPassword gets one of the verifySlots, at once or after queueing.
TakeSlot(r) ==
  /\ pc[r] \in {"slot", "queued"}
  /\ verifySlots < MaxVerifies
  /\ verifySlots' = verifySlots + 1
  /\ Goto(r, "verify")
  /\ UNCHANGED <<req, holder, setupMu, attempts, setupToken, announced,
                 envHash, fileVars, now, histVars>>

\* Every slot is taken when VerifyPassword gets to its select: it blocks.
SlotsFull(r) ==
  /\ pc[r] = "slot"
  /\ verifySlots >= MaxVerifies
  /\ Goto(r, "queued")
  /\ UNCHANGED <<req, gateVars, envHash, fileVars, now, histVars>>

\* Mutant of VerifyBusy: the deferred release runs without a slot.
VerifyBusyFreesSlot(r) ==
  /\ pc[r] = "queued"
  /\ Answer(r)
  /\ unlockKey(r)
  /\ verifySlots' = verifySlots - 1
  /\ UNCHANGED <<setupMu, attempts, setupToken, announced,
                 envHash, fileVars, now, histVars>>

\* Mutant of VerifyBusy: a busy answer is retried inside the handler.
VerifyBusyRetries(r) ==
  /\ pc[r] = "queued"
  /\ Goto(r, "slot")
  /\ UNCHANGED <<req, gateVars, envHash, fileVars, now, histVars>>

\* verifyQueueWait expires in the select: ErrBusy, and no failure recorded.
VerifyBusy(r) ==
  /\ pc[r] = "queued"
  /\ Answer(r)
  /\ unlockKey(r)
  /\ UNCHANGED <<setupMu, attempts, verifySlots, setupToken, announced,
                 envHash, fileVars, now, histVars>>

VerifyMismatch(r) ==
  /\ pc[r] = "verify"
  /\ req[r].hash # req[r].pw
  /\ verifySlots' = verifySlots - 1
  /\ recordFailure(req[r].key)
  /\ Answer(r)
  /\ unlockKey(r)
  /\ UNCHANGED <<setupMu, setupToken, announced, envHash, fileVars, now,
                 known, claims, acked>>

\* A correct password: the ledger entry goes, the token is issued (see
\* AuthSession) and the key released.
UnlockMatch(r) ==
  /\ pc[r] = "verify"
  /\ req[r].op = "unlock"
  /\ req[r].hash = req[r].pw
  /\ verifySlots' = verifySlots - 1
  /\ recordSuccess(req[r].key)
  /\ Answer(r)
  /\ unlockKey(r)
  /\ UNCHANGED <<setupMu, setupToken, announced, envHash, fileVars, now,
                 known, claims, acked>>

ChangeMatch(r) ==
  /\ pc[r] = "verify"
  /\ req[r].op = "change"
  /\ req[r].hash = req[r].pw
  /\ verifySlots' = verifySlots - 1
  /\ recordSuccess(req[r].key)
  /\ Goto(r, "open")
  /\ UNCHANGED <<req, holder, setupMu, setupToken, announced, envHash,
                 fileVars, now, known, claims, acked>>

----------------------------------------------------------------------------
(* AnnounceSetupToken and SetupPassword.                                   *)

\* handleAuthStatus: AnnounceSetupToken looks at Configured() BEFORE it takes
\* setupMu; when configured the request is over.
handleAuthStatus(r) ==
  /\ ~Configured
  /\ Arrive(r, "status", "announce",
            Locals("status", Nobody, NoHash, NoHash, NoHash, 0))

\* handleAuthSetup announces too, on the same unlocked look, before it calls
\* SetupPassword.  A client presents a token the log has shown, or a wrong one
\* (0); a token at the bound is never presented.
handleAuthSetup(r, token, new) ==
  /\ token < MaxTokens
  /\ Arrive(r, "setup", IF Configured THEN "setup" ELSE "announce",
            Locals("setup", Nobody, NoHash, new, NoHash, token))

\* AnnounceSetupToken under setupMu: at most once per token.
AnnounceSetupToken(r) ==
  /\ pc[r] = "announce"
  /\ setupMu = Nobody
  /\ announced' = TRUE
  /\ known' = IF announced THEN known ELSE known \cup {setupToken}
  /\ IF req[r].op = "status"
     THEN Answer(r)
     ELSE Goto(r, "setup") /\ UNCHANGED req
  /\ UNCHANGED <<holder, setupMu, attempts, verifySlots, setupToken, envHash,
                 fileVars, now, claims, acked, lastFail>>

\* SetupPassword takes setupMu, and gives it up again when a password is
\* configured (409) or the token is not the current one (403).
SetupRefused(r) ==
  /\ pc[r] = "setup"
  /\ setupMu = Nobody
  /\ Configured \/ req[r].token # setupToken
  /\ Answer(r)
  /\ UNCHANGED <<gateVars, envHash, fileVars, now, histVars>>

\* Mutant of SetupPassword: it trusts the handler's earlier Configured().
SetupPasswordUnchecked(r) ==
  /\ pc[r] = "setup"
  /\ setupMu = Nobody
  /\ req[r].token = setupToken
  /\ setupMu' = r
  /\ Goto(r, "open")
  /\ UNCHANGED <<req, holder, attempts, verifySlots, setupToken, announced,
                 envHash, fileVars, now, histVars>>

SetupPassword(r) ==
  /\ pc[r] = "setup"
  /\ setupMu = Nobody
  /\ ~Configured
  /\ req[r].token = setupToken
  /\ setupMu' = r
  /\ Goto(r, "open")
  /\ UNCHANGED <<req, holder, attempts, verifySlots, setupToken, announced,
                 envHash, fileVars, now, histVars>>

----------------------------------------------------------------------------
(* writeStoredHash: os.WriteFile of the .tmp (open with truncation, write) *)
(* and os.Rename, under the key's lock or under setupMu.                   *)

\* The deferred unlock of whichever mutex the caller holds.
ReleaseWriter(r) ==
  IF req[r].op = "setup"
  THEN setupMu' = Nobody /\ UNCHANGED holder
  ELSE unlockKey(r) /\ UNCHANGED setupMu

InUse == {path, tmp} \cup {req[r].fd : r \in Reqs}

OpenTmp(r) ==
  /\ pc[r] = "open"
  /\ \E i \in Inodes :
       /\ IF tmp = NoFile THEN i \notin InUse ELSE i = tmp
       /\ tmp' = i
       /\ content' = [content EXCEPT ![i] = NoHash]
       /\ req' = [req EXCEPT ![r].fd = i]
  /\ Goto(r, "write")
  /\ UNCHANGED <<gateVars, envHash, path, now, histVars>>

WriteTmp(r) ==
  /\ pc[r] = "write"
  /\ content' = [content EXCEPT ![req[r].fd] = req[r].new]
  /\ req' = [req EXCEPT ![r].fd = NoFile]
  /\ Goto(r, "rename")
  /\ UNCHANGED <<gateVars, envHash, path, tmp, now, histVars>>

\* Mutants of WriteFails: the rename follows all the same; or the handler answers
\* as if the password had been stored.
WriteFailsRenames(r) ==
  /\ pc[r] = "write"
  /\ req' = [req EXCEPT ![r].fd = NoFile]
  /\ Goto(r, "rename")
  /\ UNCHANGED <<gateVars, envHash, fileVars, now, histVars>>

WriteFailsAcked(r) ==
  /\ pc[r] \in {"open", "write"}
  /\ Answer(r)
  /\ ReleaseWriter(r)
  /\ acked' = req[r].new
  /\ UNCHANGED <<attempts, verifySlots, setupToken, announced, envHash,
                 fileVars, now, known, claims, lastFail>>

\* Hashing, opening or writing fails: an error answer, and the .tmp as it is.
WriteFails(r) ==
  /\ pc[r] \in {"open", "write"}
  /\ Answer(r)
  /\ ReleaseWriter(r)
  /\ UNCHANGED <<attempts, verifySlots, setupToken, announced, envHash,
                 fileVars, now, histVars>>

\* Mutant of RenameTmp: a setup leaves its token valid.
RenameTmpKeepsToken(r) ==
  /\ pc[r] = "rename"
  /\ tmp # NoFile
  /\ path' = tmp
  /\ tmp' = NoFile
  /\ acked' = req[r].new
  /\ claims' = IF req[r].op = "setup"
               THEN [claims EXCEPT ![req[r].token] = @ + 1] ELSE claims
  /\ Answer(r)
  /\ ReleaseWriter(r)
  /\ UNCHANGED <<setupToken, announced, attempts, verifySlots, envHash, content,
                 now, known, lastFail>>

\* The rename succeeds; SetupPassword then rotates the token.
RenameTmp(r) ==
  /\ pc[r] = "rename"
  /\ tmp # NoFile
  /\ path' = tmp
  /\ tmp' = NoFile
  /\ acked' = req[r].new
  /\ IF req[r].op = "setup"
     THEN /\ setupToken' = setupToken + 1
          /\ announced' = FALSE
          /\ claims' = [claims EXCEPT ![req[r].token] = @ + 1]
     ELSE UNCHANGED <<setupToken, announced, claims>>
  /\ Answer(r)
  /\ ReleaseWriter(r)
  /\ UNCHANGED <<attempts, verifySlots, envHash, content, now, known, lastFail>>

\* An error answer: another writer renamed the shared .tmp away, or the disk objects.
RenameFails(r) ==
  /\ pc[r] = "rename"
  /\ Answer(r)
  /\ ReleaseWriter(r)
  /\ UNCHANGED <<attempts, verifySlots, setupToken, announced, envHash,
                 fileVars, now, histVars>>

----------------------------------------------------------------------------
(* The environment.                                                        *)

Tick ==
  /\ now < MaxTime
  /\ now' = now + 1
  /\ UNCHANGED <<pc, req, gateVars, envHash, fileVars, histVars>>

\* The operator deletes the password file to reset the gate.
DeleteStore ==
  /\ MayReset
  /\ path # NoFile
  /\ path' = NoFile
  /\ acked' = NoHash
  /\ UNCHANGED <<pc, req, gateVars, envHash, tmp, content, now, known, claims, lastFail>>

\* The process dies and main() starts again: New forgets every goroutine,
\* lock and failure, generates a token and announces it when nothing is
\* configured.  The files stay as they are; the env var may have changed.
Restart ==
  /\ setupToken < MaxTokens
  /\ \E e \in EnvHashes :
       LET unset == e = NoHash /\ readStoredHash = NoHash
       IN  /\ envHash' = e
           /\ announced' = unset
           /\ known' = IF unset THEN known \cup {setupToken + 1} ELSE known
  /\ setupToken' = setupToken + 1
  /\ pc' = [r \in Reqs |-> "idle"]
  /\ req' = [r \in Reqs |-> NoReq]
  /\ holder' = [k \in Keys |-> Nobody]
  /\ setupMu' = Nobody
  /\ attempts' = [k \in Keys |-> NoAttempts]
  /\ verifySlots' = 0
  /\ lastFail' = [k \in Keys |-> now]
  /\ UNCHANGED <<fileVars, now, claims, acked>>

----------------------------------------------------------------------------

Init ==
  /\ pc = [r \in Reqs |-> "idle"]
  /\ req = [r \in Reqs |-> NoReq]
  /\ holder = [k \in Keys |-> Nobody]
  /\ setupMu = Nobody
  /\ attempts = [k \in Keys |-> NoAttempts]
  /\ verifySlots = 0
  /\ setupToken = 1
  /\ envHash \in EnvHashes
  /\ acked \in Passwords \cup {NoHash}   \* what an earlier process stored
  /\ announced = (envHash = NoHash /\ acked = NoHash)
  /\ path \in Inodes \cup {NoFile}
  /\ path = NoFile <=> acked = NoHash
  /\ content = [i \in Inodes |-> IF i = path THEN acked ELSE NoHash]
  /\ tmp = NoFile
  /\ now = 0
  /\ known = IF announced THEN {1} ELSE {}
  /\ claims = [t \in Tokens |-> 0]
  /\ lastFail = [k \in Keys |-> 0]

\* The steps a request takes by itself once it has arrived.
Step(r) ==
  \/ lockKey(r) \/ CheckRefused(r) \/ CheckPassed(r)
  \/ TakeSlot(r) \/ SlotsFull(r) \/ VerifyBusy(r)
  \/ VerifyMismatch(r) \/ UnlockMatch(r) \/ ChangeMatch(r)
  \/ AnnounceSetupToken(r) \/ SetupRefused(r) \/ SetupPassword(r)
  \/ OpenTmp(r) \/ WriteTmp(r) \/ WriteFails(r)
  \/ RenameTmp(r) \/ RenameFails(r)

Request(r) ==
  \/ \E k \in Keys, pw \in Passwords : TryUnlock(r, k, pw)
  \/ \E k \in Keys, pw, new \in Passwords : ChangePassword(r, k, pw, new)
  \/ handleAuthStatus(r)
  \/ \E t \in known \cup {0}, new \in Passwords : handleAuthSetup(r, t, new)

Next ==
  \/ \E r \in Reqs : Request(r) \/ Step(r)
  \/ Tick \/ DeleteStore \/ Restart

Spec == Init /\ [][Next]_vars

\* A goroutine that can take its next step takes it: the Go scheduler runs
\* every runnable goroutine, sync.Mutex hands a lock to a waiter it has starved
\* (hence strong fairness on the acquisitions), argon2id and file calls return,
\* and the timer of verifyQueueWait fires.
Fairness ==
  \A r \in Reqs :
    /\ WF_vars(Step(r))
    /\ SF_vars(lockKey(r))
    /\ SF_vars(AnnounceSetupToken(r))
    /\ SF_vars(SetupRefused(r) \/ SetupPassword(r))

FairSpec == Spec /\ Fairness

----------------------------------------------------------------------------
(* Properties.                                                             *)

States == {"idle", "lock", "check", "slot", "queued", "verify",
           "announce", "setup", "open", "write", "rename"}

Request_ == [op : {"none", "unlock", "change", "setup", "status"},
             key : Keys \cup {Nobody}, pw : Passwords \cup {NoHash},
             new : Passwords \cup {NoHash}, hash : Hashes,
             token : 0 .. MaxTokens, fd : Inodes \cup {NoFile}]

\* Every variable holds a value of its kind.
TypeOK ==
  /\ pc \in [Reqs -> States]
  /\ req \in [Reqs -> Request_]
  /\ holder \in [Keys -> Reqs \cup {Nobody}]
  /\ setupMu \in Reqs \cup {Nobody}
  /\ attempts \in [Keys -> [failures : 0 .. FailureCap, lockedUntil : Nat]]
  /\ verifySlots \in 0 .. MaxVerifies
  /\ setupToken \in Tokens
  /\ announced \in BOOLEAN
  /\ envHash \in EnvHashes
  /\ path \in Inodes \cup {NoFile}
  /\ tmp \in Inodes \cup {NoFile}
  /\ content \in [Inodes -> Passwords \cup {NoHash}]
  /\ now \in 0 .. MaxTime
  /\ known \subseteq Tokens
  /\ claims \in [Tokens -> Nat]
  /\ acked \in Passwords \cup {NoHash}
  /\ lastFail \in [Keys -> Nat]

Guessing(r) == pc[r] \in {"slot", "queued", "verify"}

\* While a guess is queued for or undergoing verification, its key is not
\* locked out: the lockout test before argon2id and the failure record after
\* it behave as one step, whatever other requests the key has (lockKey,
\* rateLimited, recordFailure).
NoGuessUnderLockout ==
  \A r \in Reqs : Guessing(r) => attempts[req[r].key].lockedUntil <= now

\* Once a key has failed maxFailuresBeforeLockout times in a row, its next
\* failed guess comes no earlier than the whole backoff after the last one, for
\* every interleaving of unlocks and changes with that key (recordFailure).
Throttled ==
  [][\A k \in Keys :
       /\ attempts[k].failures >= MaxFailures
       /\ attempts'[k] \notin {attempts[k], NoAttempts}
       => now >= lastFail[k] + Backoff(attempts[k].failures)]_vars

Verifying == {r \in Reqs : pc[r] = "verify"}

\* A verification slot is taken exactly while an argon2id computation runs, so
\* no return path leaks one and at most maxConcurrentVerifies run at a time
\* (VerifyPassword).
SlotsConserved == verifySlots = Cardinality(Verifying)

Writing(r) == pc[r] \in {"open", "write", "rename"}

\* The password file is never seen empty or partial: not while a change or a
\* setup is half way, not after a crash, not after a failed write
\* (writeStoredHash's promise).
StoreNeverPartial == path # NoFile => content[path] # NoHash

\* Whenever no write is under way the file holds the password of the last
\* change or setup that was answered with success, unless the operator has
\* removed it: no acknowledged password is lost and none that was answered with
\* an error is in force
\* (ChangePassword, SetupPassword).
AckedPasswordInForce ==
  (\A r \in Reqs : ~Writing(r)) => readStoredHash = acked

\* A setup token pays for one password, also when several setups present it at
\* once and when the operator resets the gate afterwards (SetupPassword).
TokenSingleUse == \A t \in Tokens : claims[t] <= 1

\* A first-run setup never replaces a password that is already configured, even
\* one configured after the setup request arrived (SetupPassword).
SetupNeverOverwrites ==
  [][\A r \in Reqs :
       pc[r] = "rename" /\ req[r].op = "setup" /\ path' # path /\ path' = tmp
       => ~Configured]_vars

\* Every request is answered: nobody waits for ever on a key, a slot or
\* setupMu (lockKey, VerifyPassword, SetupPassword).
EveryRequestAnswered ==
  \A r \in Reqs : pc[r] # "idle" ~> pc[r] = "idle"

----------------------------------------------------------------------------
(* The inductive invariant behind the theorems of AuthGateProofs.          *)

InAttempt(r) == pc[r] \in {"check", "slot", "queued", "verify"}

\* The locals a request has at each point of its handler.
ReqShape ==
  \A r \in Reqs :
    /\ pc[r] = "lock" \/ InAttempt(r)
         => req[r].op \in {"unlock", "change"} /\ req[r].key \in Keys
    /\ Writing(r) => req[r].op \in {"change", "setup"}
    /\ Writing(r) /\ req[r].op = "change" => req[r].key \in Keys
    /\ pc[r] = "announce" => req[r].op \in {"status", "setup"}
    /\ pc[r] = "setup" => req[r].op = "setup"
    /\ req[r].op = "setup" => req[r].token < MaxTokens

\* From the return of lockKey to the deferred unlock a request holds its key.
KeyHeld ==
  \A r \in Reqs :
    InAttempt(r) \/ (Writing(r) /\ req[r].op = "change")
      => holder[req[r].key] = r

\* A setup that has passed its checks holds setupMu, so its token stays current.
SetupHeld ==
  \A r \in Reqs :
    Writing(r) /\ req[r].op = "setup"
      => setupMu = r /\ req[r].token = setupToken

\* The lockout of a key is the backoff after its last failure.
Ledger ==
  \A k \in Keys :
    attempts[k].failures >= MaxFailures
      => attempts[k].lockedUntil = lastFail[k] + Backoff(attempts[k].failures)

\* Tokens not yet rotated out have paid for nothing.
TokenLedger ==
  \A t \in Tokens : claims[t] <= 1 /\ (t >= setupToken => claims[t] = 0)

GateInv ==
  /\ TypeOK
  /\ ReqShape
  /\ KeyHeld
  /\ SetupHeld
  /\ NoGuessUnderLockout
  /\ Ledger
  /\ SlotsConserved
  /\ TokenLedger

----------------------------------------------------------------------------
(* The strengthening for the password file, where one client address makes *)
(* the changes and the operator leaves the file alone.  The file's writers *)
(* share one .tmp: what keeps two of them apart is the key's lock, setupMu *)
(* and, between a change and a setup, that a change needs a stored         *)
(* password and a setup that there is none.                                *)

OneClient == ~MayReset /\ \A j, k \in Keys : j = k

\* The file is there exactly when a password was acknowledged, and holds that one.
StoredIsAcked ==
  /\ path = NoFile <=> acked = NoHash
  /\ path # NoFile => content[path] = acked

\* A change past its check has a stored password to replace, no setup that is past
\* its check has one, and neither runs beside an env hash.
WriterGuards ==
  \A r \in Reqs :
    /\ req[r].op \in {"change", "setup"} => req[r].new \in Passwords
    /\ req[r].op = "change" => envHash = NoHash
    /\ (Guessing(r) \/ Writing(r)) /\ req[r].op = "change" => path # NoFile
    /\ Writing(r) /\ req[r].op = "setup" => path = NoFile /\ envHash = NoHash

\* The .tmp is nobody else's: not the file itself, still behind the descriptor that
\* writes it, and complete when it is renamed.
TmpOwned ==
  /\ tmp # NoFile => tmp # path
  /\ \A r \in Reqs :
       /\ pc[r] = "write" => tmp # NoFile /\ req[r].fd = tmp
       /\ pc[r] = "rename" => tmp # NoFile /\ content[tmp] = req[r].new

StoreInv == StoredIsAcked /\ WriterGuards /\ TmpOwned
=============================================================================
