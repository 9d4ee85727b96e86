------------------------------ MODULE Identity ------------------------------
(* The identity components together: browser sessions, team administration,  *)
(* the durable limiter, the provider's keys, logins and the local operator's *)
(* token and sessions.  They share no state, so interleaving them adds no    *)
(* behaviour to any of them: part is the one that moves, the others stay in  *)
(* their initial state.                                                      *)
EXTENDS Integers, FiniteSets

CONSTANTS
  Parts, Threads, Nobody, Torn,
  Families, Holders, MaxGeneration, MaxActive, SessionLifetime, SessionIdle, TouchInterval,
  RotationInterval, SessionPurge, SessionTime,
  Subjects, MaxMembers, Tried,
  Clients, GlobalLimit, SubjectLimit, LimitWindow, LimitPurge, LimitLag, LimitTime,
  SigningKeys, CacheLifetime, Backoff, KeyTime,
  Attempts, Browsers, Users, MaxPending, LoginLifetime, LoginTime, LoginFaults,
  OperatorTokens, MaxSessions, MaxAge, OperatorIdle, TryLimit, TryWindow, TryLag,
  OperatorTime, MaxKills, MaxIssued, MaxChecks

VARIABLES part,
  stored, row, used, enabled, sessionClock, sessionPc, op, who, tok, at, verdict,
  role, active, recorded, session, teamLock, teamPc, req, changedBy,
  bucket, limitClock, consumed, decision,
  published, withdrawn, discovered, jwks, loadedAt, lastRefresh, keyLock, keyClock, keyPc,
  wanted, checked, retried, fetches, accepted,
  attempts, expires, drawn, startedIn, cookie, codes, spent, sessions, audited, excused,
  loginPc, call, loginEnabled, loginClock, faults,
  file, marker, phase, digest, unlocked, events, operatorPc, operatorClock, kills, created,
  served, late, issued, burned, passed

sessionVars == <<stored, row, used, enabled, sessionClock, sessionPc, op, who, tok, at, verdict>>
teamVars == <<role, active, recorded, session, teamLock, teamPc, req, changedBy>>
limitVars == <<bucket, limitClock, consumed, decision>>
keyVars == <<published, withdrawn, discovered, jwks, loadedAt, lastRefresh, keyLock, keyClock,
             keyPc, wanted, checked, retried, fetches, accepted>>
loginVars == <<attempts, expires, drawn, startedIn, cookie, codes, spent, sessions, audited,
               excused, loginPc, call, loginEnabled, loginClock, faults>>
operatorVars == <<file, marker, phase, digest, unlocked, events, operatorPc, operatorClock, kills,
                  created, served, late, issued, burned, passed>>
vars == <<part, sessionVars, teamVars, limitVars, keyVars, loginVars, operatorVars>>

Sessions == INSTANCE BrowserSessions WITH
  Members <- Holders, Lifetime <- SessionLifetime, Idle <- SessionIdle,
  PurgeLimit <- SessionPurge, MaxTime <- SessionTime, clock <- sessionClock, pc <- sessionPc

Team == INSTANCE TeamAdministration WITH lock <- teamLock, pc <- teamPc

Limits == INSTANCE RateLimits WITH
  Subjects <- Clients, Window <- LimitWindow, PurgeLimit <- LimitPurge, Lag <- LimitLag,
  MaxTime <- LimitTime, clock <- limitClock, spent <- consumed

Keys == INSTANCE ProviderKeys WITH
  Keys <- SigningKeys, MaxTime <- KeyTime, lock <- keyLock, clock <- keyClock, pc <- keyPc

Logins == INSTANCE LoginAttempts WITH
  Lifetime <- LoginLifetime, MaxTime <- LoginTime, MaxFaults <- LoginFaults,
  NoAttempt <- Nobody, rows <- attempts, pc <- loginPc, enabled <- loginEnabled,
  clock <- loginClock

Operator == INSTANCE LocalOperator WITH
  Tokens <- OperatorTokens, Idle <- OperatorIdle, Limit <- TryLimit, Window <- TryWindow,
  Lag <- TryLag, MaxTime <- OperatorTime, Absent <- Nobody, sessions <- unlocked,
  pc <- operatorPc, clock <- operatorClock

ASSUME IdentityAssumptions ==
  /\ Sessions!SessionAssumption /\ Team!TeamAssumption /\ Limits!LimiterAssumption
  /\ Keys!KeyAssumption /\ Logins!LoginAssumption /\ Operator!OperatorAssumption

Init ==
  /\ part \in Parts
  /\ Sessions!Init /\ Team!Init /\ Limits!Init /\ Keys!Init /\ Logins!Init
  /\ Operator!Init
  /\ part # "keys" => published = SigningKeys

Next ==
  \/ part = "sessions" /\ Sessions!Next
     /\ UNCHANGED <<part, teamVars, limitVars, keyVars, loginVars, operatorVars>>
  \/ part = "team" /\ Team!Next
     /\ UNCHANGED <<part, sessionVars, limitVars, keyVars, loginVars, operatorVars>>
  \/ part = "limits" /\ Limits!Next
     /\ UNCHANGED <<part, sessionVars, teamVars, keyVars, loginVars, operatorVars>>
  \/ part = "keys" /\ Keys!Next
     /\ UNCHANGED <<part, sessionVars, teamVars, limitVars, loginVars, operatorVars>>
  \/ part = "logins" /\ Logins!Next
     /\ UNCHANGED <<part, sessionVars, teamVars, limitVars, keyVars, operatorVars>>
  \/ part = "operator" /\ Operator!Next
     /\ UNCHANGED <<part, sessionVars, teamVars, limitVars, keyVars, loginVars>>

Spec == Init /\ [][Next]_vars

-----------------------------------------------------------------------------
(* What is checked.  The components' modules define and explain the parts.   *)

\* A family of session generations has one leaf, one deadline and no gap, also
\* when cleanup and rotation meet.
SessionLineage == part = "sessions" => Sessions!SessionLineage

\* A login leaves its member no more usable sessions than allowed, however many
\* logins race and however late its clock value is.
LoginsCapped == [][part = "sessions" => Sessions!LoginKeepsCap]_vars

\* At no time has a member more usable sessions than allowed: the cap as the
\* threat model states it.
ActiveSessionCap == part = "sessions" => Sessions!ActiveSessionCap

\* A member who was disabled has no session left.
DisabledIsOut == part = "sessions" => Sessions!DisabledIsOut

\* A family that was revoked, logged out or expired never becomes active again,
\* an idle one only by a request that came while it was current.
ClosedStaysClosed == [][part = "sessions" => Sessions!KeepsClosed]_vars

\* A request is accepted only on a session that is current when it is touched,
\* and a logout that reports success has closed its family.
AnswersHold == [][part = "sessions" => Sessions!TrueAnswers]_vars

\* One active owner, sessions only of members with access, and an audit trail
\* that ends in the team's state, under concurrent changes and logins.
TeamHolds == part = "team" => Team!TeamHolds

\* No interval as long as the window sees more than three windows' worth although
\* clock values arrive late, the table stays small and a denial is justified.
LimitsHold == part = "limits" => Limits!LimitsHold

\* No token is accepted on a key withdrawn longer than a cache lifetime ago, and
\* fetches keep their distance however many validations miss the cache.
KeysForgotten == part = "keys" => Keys!KeysForgotten

\* A browser is signed in once per attempt, as who authenticated for an attempt
\* started in that browser, whatever links are mixed up or repeated.
LoginsBound == part = "logins" => Logins!LoginsBound

\* A burned attempt leaves a session or a denial on record.
BurnedIsAudited == part = "logins" => Logins!BurnedIsAudited

\* The token is not regenerated, sessions of a changed token are gone, and the
\* throttles bound attempts in real time.
OperatorHolds == part = "operator" => Operator!OperatorHolds
=============================================================================
