----------------------------- MODULE AuthSession -----------------------------
(***************************************************************************)
(* Unlock sessions (backend/internal/authgate/gate.go): the signed cookie  *)
(* that carries when the password was typed and when it was last slid      *)
(* forward, and RequirePassword, which checks and slides it.  There is no  *)
(* session store, so every token ever issued may still be presented.       *)
(*                                                                         *)
(* Time is counted in ticks, Second of them to a second: tokens carry unix *)
(* seconds, the clock does not.  A signature is the secret it was made     *)
(* with; a token signed with another process's secret does not verify.     *)
(***************************************************************************)
EXTENDS Integers, FiniteSets

CONSTANTS
  Second,           \* ticks in a second
  SessionTTL,       \* sessionTTL, in ticks
  SessionLifetime,  \* maxSessionLifetime, in ticks
  RefreshThreshold, \* refreshThreshold, in ticks
  MaxTime,          \* bound on the clock
  MaxSecrets,       \* bound on the number of process starts
  MaxUnlocks,       \* bound on the passwords typed
  MaxInFlight,      \* bound on the requests in RequirePassword at once
  NoToken

ASSUME SessionBounds ==
  /\ Second \in Nat \ {0}
  /\ SessionTTL \in Nat
  /\ SessionLifetime \in Nat
  /\ RefreshThreshold \in Nat
  /\ Second <= RefreshThreshold
  /\ RefreshThreshold <= SessionTTL
  /\ MaxTime \in Nat
  /\ MaxSecrets \in Nat \ {0}
  /\ MaxUnlocks \in Nat
  /\ MaxInFlight \in Nat
  /\ NoToken \notin [origin : 0 .. MaxTime, refreshed : 0 .. MaxTime, secret : 1 .. MaxSecrets]

VARIABLES
  now,         \* the clock
  secret,      \* Gate.secret, numbered in the order of process starts
  configured,  \* Gate.Configured()
  issued,      \* every token a client was ever given
  jar,         \* the token a well-behaved browser sends: the last it was given
  passed,      \* requests RequirePassword has validated and not yet refreshed
  typed,       \* history: when a correct password was typed, and in which process
  lastOk,      \* history: when the browser's session was last accepted
  answer       \* what RequirePassword did with the last gated request

sessionVars == <<now, secret, configured, issued, jar, passed, typed, lastOk, answer>>

Times == 0 .. MaxTime
Token == [origin : Times, refreshed : Times, secret : 1 .. MaxSecrets]
\* A request in RequirePassword: its cookie, and whether the browser sent it.
Request == [token : Token, ours : BOOLEAN]

\* Time.Unix: whole seconds.
Unix(t) == t - (t % Second)

mintToken(origin, refreshed) ==
  [origin |-> Unix(origin), refreshed |-> Unix(refreshed), secret |-> secret]

\* tokenTimes: the signature matches and the times are not inconsistent.
tokenTimesOk(t) ==
  /\ t.secret = secret
  /\ t.origin <= now
  /\ t.refreshed <= now
  /\ t.origin <= t.refreshed

\* Mutant of Deadline: no cap on the session as a whole.
DeadlineIdle(t) == t.refreshed + SessionTTL

\* UnlockedUntil: the idle deadline, or the end of the session's life when that
\* comes first.
Deadline(t) ==
  LET idle == t.refreshed + SessionTTL
      hard == t.origin + SessionLifetime
  IN  IF hard < idle THEN hard ELSE idle

Unlocked(t) == tokenTimesOk(t) /\ now < Deadline(t)

----------------------------------------------------------------------------

\* The unlock handler with a correct password: issueToken and SetCookie.
handleAuthUnlock ==
  /\ configured
  /\ Cardinality(typed) < MaxUnlocks
  /\ jar' = mintToken(now, now)
  /\ issued' = issued \cup {jar'}
  /\ typed' = typed \cup {[secret |-> secret, at |-> now]}
  /\ lastOk' = now
  /\ UNCHANGED <<now, secret, configured, passed, answer>>

\* RequirePassword, the check: the password is configured and the token valid.
\* The browser sends its jar; any other client any token it was ever given.
Validate(t, ours) ==
  /\ Cardinality(passed) < MaxInFlight
  /\ configured
  /\ Unlocked(t)
  /\ ours => t = jar
  /\ passed' = passed \cup {[token |-> t, ours |-> ours]}
  /\ UNCHANGED <<now, secret, configured, issued, jar, typed, lastOk, answer>>

\* Mutants of Slide: it slides from the origin, which restarts the session's life;
\* or it carries the old refresh time through as well.
SlideOrigin(r) ==
  /\ tokenTimesOk(r.token)
  /\ now - r.token.refreshed >= RefreshThreshold
  /\ LET t == mintToken(now, now)
     IN  /\ issued' = issued \cup {t}
         /\ jar' = IF r.ours THEN t ELSE jar

SlideStale(r) ==
  /\ tokenTimesOk(r.token)
  /\ now - r.token.refreshed >= RefreshThreshold
  /\ LET t == mintToken(r.token.origin, r.token.refreshed)
     IN  /\ issued' = issued \cup {t}
         /\ jar' = IF r.ours THEN t ELSE jar

\* refreshCookie reads the clock again.  Past the threshold the client is given a
\* token with the same origin and a new refresh time ...
Slide(r) ==
  /\ tokenTimesOk(r.token)
  /\ now - r.token.refreshed >= RefreshThreshold
  /\ LET t == mintToken(r.token.origin, now)
     IN  /\ issued' = issued \cup {t}
         /\ jar' = IF r.ours THEN t ELSE jar

\* ... and before it no cookie is set.
KeepCookie(r) ==
  /\ tokenTimesOk(r.token) => now - r.token.refreshed < RefreshThreshold
  /\ UNCHANGED <<issued, jar>>

\* RequirePassword, the rest: refreshCookie, then the handler runs.
Admit(r) ==
  /\ Slide(r) \/ KeepCookie(r)
  /\ passed' = passed \ {r}
  /\ lastOk' = IF r.ours THEN now ELSE lastOk
  /\ answer' = "next"
  /\ UNCHANGED <<now, secret, configured, typed>>

\* 401, the token is missing or not valid.
RefuseLocked ==
  /\ configured
  /\ jar = NoToken \/ (jar # NoToken /\ ~Unlocked(jar))
  /\ answer' = "401"
  /\ UNCHANGED <<now, secret, configured, issued, jar, passed, typed, lastOk>>

\* 503: no password is configured, whatever the token.
RefuseUnset ==
  /\ ~configured
  /\ answer' = "503"
  /\ UNCHANGED <<now, secret, configured, issued, jar, passed, typed, lastOk>>

\* The password file appears (setup) or is deleted (reset).
Reconfigure ==
  /\ configured' = ~configured
  /\ UNCHANGED <<now, secret, issued, jar, passed, typed, lastOk, answer>>

\* The process restarts: its requests are gone and New draws a fresh secret.
Restart ==
  /\ secret < MaxSecrets
  /\ secret' = secret + 1
  /\ passed' = {}
  /\ UNCHANGED <<now, configured, issued, jar, typed, lastOk, answer>>

Tick ==
  /\ now < MaxTime
  /\ now' = now + 1
  /\ UNCHANGED <<secret, configured, issued, jar, passed, typed, lastOk, answer>>

SessionInit ==
  /\ now = 0
  /\ secret = 1
  /\ configured \in BOOLEAN
  /\ issued = {}
  /\ jar = NoToken
  /\ passed = {}
  /\ typed = {}
  /\ lastOk = 0
  /\ answer = "none"

SessionNext ==
  \/ handleAuthUnlock
  \/ \E t \in issued, ours \in BOOLEAN : Validate(t, ours)
  \/ \E r \in passed : Admit(r)
  \/ RefuseLocked \/ RefuseUnset
  \/ Reconfigure \/ Restart \/ Tick

SessionSpec == SessionInit /\ [][SessionNext]_sessionVars

----------------------------------------------------------------------------
(* Properties.                                                             *)

\* Every variable holds a value of its kind.
SessionTypeOK ==
  /\ now \in Times
  /\ secret \in 1 .. MaxSecrets
  /\ configured \in BOOLEAN
  /\ issued \subseteq Token
  /\ jar \in Token \cup {NoToken}
  /\ passed \subseteq Request
  /\ typed \subseteq [secret : 1 .. MaxSecrets, at : Times]
  /\ lastOk \in Times
  /\ answer \in {"none", "next", "401", "503"}

\* Whatever token is presented, and however often it was slid forward, it opens
\* the gate only within maxSessionLifetime of a password typed to this very
\* process (refreshCookie, UnlockedUntil, New).
SessionBounded ==
  \A t \in issued : Unlocked(t) =>
    \E u \in typed : /\ u.secret = secret
                     /\ u.at <= now
                     /\ now < u.at + SessionLifetime

\* A browser that comes back within sessionTTL minus refreshThreshold of its last
\* accepted request, with its session not yet at the end of its life, is let in:
\* skipping a refresh never costs more than the threshold (refreshCookie).
IdleGuarantee ==
  ( /\ jar # NoToken
    /\ jar.secret = secret
    /\ now - lastOk <= SessionTTL - RefreshThreshold
    /\ now < jar.origin + SessionLifetime )
  => Unlocked(jar)

\* The inductive invariant, in parts.  A token's origin is a moment a password was
\* typed to the process that signed it.
OriginIsTyped ==
  \A t \in issued :
    /\ t.origin <= t.refreshed
    /\ t.refreshed <= now
    /\ t.refreshed = Unix(t.refreshed)
    /\ t.secret <= secret
    /\ \E u \in typed : u.secret = t.secret /\ t.origin = Unix(u.at)

\* The browser's token trails its last accepted request by less than the threshold.
JarFresh ==
  jar # NoToken =>
    /\ jar \in issued
    /\ lastOk <= now
    /\ lastOk - jar.refreshed < RefreshThreshold

\* A request in flight carries a token of this process, no newer than the jar's.
PassedKnown ==
  \A r \in passed :
    /\ r.token \in issued
    /\ r.token.secret = secret
    /\ r.ours => jar # NoToken /\ r.token.refreshed <= jar.refreshed

TypedPast == \A u \in typed : u.at <= now

SessionInv == SessionTypeOK /\ OriginIsTyped /\ JarFresh /\ PassedKnown /\ TypedPast
=============================================================================
