---------------------------- MODULE LoginAttempts ----------------------------
(***************************************************************************)
(* OIDC logins from the challenge to the browser session (oidc.py,         *)
(* authentication.py, authentication_http.py).  An attempt stands for its  *)
(* state, browser token, nonce and PKCE verifier, which are drawn          *)
(* together; a browser's cookie holds the browser token of its newest      *)
(* attempt.  Any browser can deliver any state with any code, once, late   *)
(* or repeatedly: callbacks are links.                                     *)
(***************************************************************************)
EXTENDS Naturals, FiniteSets

CONSTANTS
  Attempts,      \* random attempts, never drawn twice
  Browsers, Users,
  Threads,       \* concurrent requests
  MaxPending,    \* MAX_PENDING_LOGIN_ATTEMPTS
  Lifetime,      \* LOGIN_ATTEMPT_LIFETIME
  MaxTime,       \* bound on the clock
  MaxFaults,     \* bound on transactions that the database refuses
  NoAttempt

LoginAssumption ==
  /\ IsFiniteSet(Attempts) /\ NoAttempt \notin Attempts
  /\ {MaxPending, Lifetime} \subseteq Nat \ {0} /\ {MaxTime, MaxFaults} \subseteq Nat

VARIABLES
  rows,        \* attempts with an OidcLoginAttempt row
  expires,     \* expires_at of each drawn attempt
  drawn,
  startedIn,   \* history: the browser an attempt was started in
  cookie,      \* each browser's transaction cookie
  codes,       \* codes the provider issued: [attempt, user]
  spent,       \* codes the provider has exchanged
  sessions,    \* issued sessions: [attempt, browser, user, thread]
  audited,     \* attempts with a committed session or denial event
  excused,     \* attempts whose last transaction the database refused
  pc, call,    \* each request's position and content
  enabled, clock, faults

attemptVars == <<rows, expires, drawn, startedIn>>
resultVars == <<sessions, audited, excused>>
envVars == <<enabled, clock>>
vars == <<attemptVars, cookie, codes, spent, resultVars, pc, call, envVars, faults>>

Codes == [attempt : Attempts, user : Users]
NoCode == [attempt |-> NoAttempt]
\* A callback's state parameter, cookie and code, and the browser that sent it.
NoCall == [state |-> NoAttempt, token |-> NoAttempt, code |-> NoCode, browser |-> NoAttempt]

Init ==
  /\ rows = {} /\ drawn = {} /\ expires = [a \in Attempts |-> 0]
  /\ startedIn = [a \in Attempts |-> NoAttempt]
  /\ cookie = [b \in Browsers |-> NoAttempt]
  /\ codes = {} /\ spent = {} /\ sessions = {} /\ audited = {} /\ excused = {}
  /\ pc = [p \in Threads |-> "idle"] /\ call = [p \in Threads |-> NoCall]
  /\ enabled = [u \in Users |-> TRUE] /\ clock = 0 /\ faults = 0

Goto(p, where) == pc' = [pc EXCEPT ![p] = where]
Done(p) == Goto(p, "idle") /\ call' = [call EXCEPT ![p] = NoCall]
\* Every trusted callback's response clears whatever transaction cookie the
\* browser holds by then.
Answer(p) == Done(p) /\ cookie' = [cookie EXCEPT ![call[p].browser] = NoAttempt]

-----------------------------------------------------------------------------
(* begin_login and issue_login_attempt, after the limiter and discovery *)

Room(retained) == Cardinality(retained) < MaxPending

\* The purge and the count: no lock is kept until the insert.
CountPending(p, b) ==
  LET retained == {a \in rows : expires[a] > clock}
  IN /\ pc[p] = "idle" /\ Room(retained)
     /\ Goto(p, "counted") /\ call' = [call EXCEPT ![p] = [NoCall EXCEPT !.browser = b]]
     /\ UNCHANGED <<attemptVars, cookie, codes, spent, resultVars, envVars, faults>>

\* Purge, insert and commit; the redirect sets the browser's cookie.
IssueAttempt(p, a) ==
  LET b == call[p].browser
  IN /\ pc[p] = "counted" /\ a \notin drawn
     /\ rows' = {x \in rows : expires[x] > clock} \cup {a}
     /\ drawn' = drawn \cup {a}
     /\ expires' = [expires EXCEPT ![a] = clock + Lifetime]
     /\ startedIn' = [startedIn EXCEPT ![a] = b]
     /\ cookie' = [cookie EXCEPT ![b] = a]
     /\ Done(p)
     /\ UNCHANGED <<codes, spent, resultVars, envVars, faults>>

\* The provider authenticates a user who opened the authorization URL of a
\* drawn attempt, in whatever browser (external).
Authenticate(a, u) ==
  /\ a \in drawn
  /\ codes' = codes \cup {[attempt |-> a, user |-> u]}
  /\ UNCHANGED <<attemptVars, cookie, spent, resultVars, pc, call, envVars, faults>>

-----------------------------------------------------------------------------
(* complete_callback *)

\* The limiter admitted the callback (one it refuses, or whose parameters are
\* malformed, ends as one with nothing to consume does); state and code are the
\* link's, the token is the browser's cookie.
Callback(p, b, s, c) ==
  /\ pc[p] = "idle" /\ s \in drawn /\ c \in codes
  /\ call' = [call EXCEPT ![p] = [state |-> s, token |-> cookie[b], code |-> c, browser |-> b]]
  /\ Goto(p, "admitted")
  /\ UNCHANGED <<attemptVars, cookie, codes, spent, resultVars, envVars, faults>>

\* The WHERE clause of consume_login_attempt.
Consumable(q) == q.state \in rows /\ q.token = q.state /\ expires[q.state] > clock

\* Mutant: the attempt is only read, and deleted when the session is issued.
ConsumeLater(p) ==
  /\ pc[p] = "admitted"
  /\ IF Consumable(call[p])
     THEN Goto(p, "consumed") /\ UNCHANGED <<call, cookie>>
     ELSE Answer(p)
  /\ UNCHANGED <<rows, expires, drawn, startedIn, codes, spent, resultVars, envVars, faults>>

\* DELETE ... RETURNING and its commit: one winner per attempt.
Consume(p) ==
  /\ pc[p] = "admitted"
  /\ IF Consumable(call[p])
     THEN Goto(p, "consumed") /\ rows' = rows \ {call[p].state} /\ UNCHANGED <<call, cookie>>
     ELSE Answer(p) /\ UNCHANGED rows
  /\ UNCHANGED <<expires, drawn, startedIn, codes, spent, resultVars, envVars, faults>>

\* The provider takes a code once, and only with the verifier it was bound to
\* (external); the response may be lost all the same.
Exchangeable(q) == q.code \notin spent /\ q.code.attempt = q.state

Exchange(p) ==
  /\ pc[p] = "consumed"
  /\ spent' = IF Exchangeable(call[p]) THEN spent \cup {call[p].code} ELSE spent
  /\ \/ Exchangeable(call[p]) /\ Goto(p, "exchanged")
     \/ Goto(p, "denied")
  /\ UNCHANGED <<attemptVars, cookie, codes, call, resultVars, envVars, faults>>

\* validate_id_token: the nonce in the token is that of the consumed attempt;
\* the token may be refused all the same.
Validate(p) ==
  /\ pc[p] = "exchanged"
  /\ \/ call[p].code.attempt = call[p].state /\ Goto(p, "validated")
     \/ Goto(p, "denied")
  /\ UNCHANGED <<attemptVars, cookie, codes, spent, call, resultVars, envVars, faults>>

\* Mutant: a failure after the attempt was burned is not recorded.
RecordDenialSkipped(p) ==
  /\ pc[p] = "denied"
  /\ Answer(p)
  /\ UNCHANGED <<attemptVars, codes, spent, resultVars, envVars, faults>>

\* _record_callback_denial
RecordDenial(p) ==
  /\ pc[p] = "denied"
  /\ audited' = audited \cup {call[p].state}
  /\ Answer(p)
  /\ UNCHANGED <<attemptVars, codes, spent, sessions, excused, envVars, faults>>

\* resolve_verified_identity and issue_browser_session in one transaction: the
\* member is locked; an identity that is not active is a recorded denial.
IssueSession(p) ==
  LET q == call[p]
  IN /\ pc[p] = "validated"
     /\ audited' = audited \cup {q.state}
     /\ sessions' = IF enabled[q.code.user]
                    THEN sessions \cup {[attempt |-> q.state, browser |-> q.browser,
                                         user |-> q.code.user, thread |-> p]}
                    ELSE sessions
     /\ Answer(p)
     /\ UNCHANGED <<attemptVars, codes, spent, excused, envVars, faults>>

\* The database refuses a transaction, which is answered like any failure, or
\* the process ends.
Fault(p) ==
  /\ faults < MaxFaults /\ faults' = faults + 1
  /\ pc[p] # "idle"
  /\ excused' = IF pc[p] \in {"counted", "admitted"} THEN excused ELSE excused \cup {call[p].state}
  /\ \/ pc[p] # "counted" /\ Answer(p)
     \/ Done(p) /\ UNCHANGED cookie
  /\ UNCHANGED <<attemptVars, codes, spent, sessions, audited, envVars>>

-----------------------------------------------------------------------------
ChangeAccess(u) ==
  /\ enabled' = [enabled EXCEPT ![u] = ~@]
  /\ UNCHANGED <<attemptVars, cookie, codes, spent, resultVars, pc, call, clock, faults>>

Tick ==
  /\ clock < MaxTime /\ clock' = clock + 1
  /\ UNCHANGED <<attemptVars, cookie, codes, spent, resultVars, pc, call, enabled, faults>>

Next ==
  \/ \E p \in Threads :
       \/ \E b \in Browsers : CountPending(p, b)
       \/ \E a \in Attempts : IssueAttempt(p, a)
       \/ \E b \in Browsers, s \in Attempts, c \in codes : Callback(p, b, s, c)
       \/ Consume(p) \/ Exchange(p) \/ Validate(p) \/ RecordDenial(p) \/ IssueSession(p)
       \/ Fault(p)
  \/ \E a \in Attempts, u \in Users : Authenticate(a, u)
  \/ \E u \in Users : ChangeAccess(u)
  \/ Tick

Spec == Init /\ [][Next]_vars

-----------------------------------------------------------------------------
\* The rows, and a request's content exactly while it is under way.
TypeOK ==
  /\ rows \subseteq drawn /\ drawn \subseteq Attempts /\ codes \subseteq Codes /\ spent \subseteq codes
  /\ \A b \in Browsers : cookie[b] # NoAttempt => startedIn[cookie[b]] = b
  /\ \A p \in Threads : pc[p] = "idle" <=> call[p] = NoCall

\* "One-use browser-bound callbacks": a browser is signed in only as a user who
\* authenticated for an attempt that was started in that browser, whichever
\* links, codes and cookies were mixed up or delivered twice.
SignedInAsStarted ==
  \A s \in sessions : /\ startedIn[s.attempt] = s.browser
                      /\ [attempt |-> s.attempt, user |-> s.user] \in codes

\* "One-winner callback consumption": an attempt opens at most one session and
\* is worked on by at most one callback once its row is gone.
OneSessionPerAttempt ==
  /\ \A s, t \in sessions : s.attempt = t.attempt => s = t
  /\ \A p, q \in Threads : p # q /\ {pc[p], pc[q]} \subseteq {"consumed", "exchanged", "validated"}
       => call[p].state # call[q].state

\* "The state is then burned before token exchange": whatever happens after a
\* code was sent to the provider, its attempt cannot be used again.
BurnedBeforeExchange ==
  /\ \A c \in spent : c.attempt \notin rows
  /\ \A s \in sessions : s.attempt \notin rows

\* The three together: what binds a callback to one attempt of one browser.
LoginsBound == SignedInAsStarted /\ OneSessionPerAttempt /\ BurnedBeforeExchange

\* A burned attempt that nobody works on any more left a session event or a
\* denial event, unless the database refused even that.
BurnedIsAudited ==
  \A a \in drawn \ rows :
    \/ a \in audited \cup excused \/ expires[a] <= clock
    \/ \E p \in Threads : call[p].state = a /\ pc[p] \notin {"idle", "counted", "admitted"}

-----------------------------------------------------------------------------
(* The inductive invariant *)

Locations == {"idle", "counted", "admitted", "consumed", "exchanged", "validated", "denied"}
Typed ==
  /\ rows \subseteq drawn /\ drawn \subseteq Attempts /\ expires \in [Attempts -> Nat]
  /\ startedIn \in [Attempts -> Browsers \cup {NoAttempt}]
  /\ cookie \in [Browsers -> drawn \cup {NoAttempt}]
  /\ codes \subseteq [attempt : drawn, user : Users] /\ spent \subseteq codes
  /\ pc \in [Threads -> Locations] /\ call = [p \in Threads |-> call[p]] /\ clock \in Nat

\* A cookie belongs to the browser that holds it, also after it left on a link.
CookiesBound == \A b \in Browsers : cookie[b] # NoAttempt => startedIn[cookie[b]] = b

\* A callback that burned its attempt is the only one that did, and got its
\* state and its token from one browser.
Burned == {"consumed", "exchanged", "validated", "denied"}
CallBound(p) ==
  LET q == call[p]
  IN /\ pc[p] = "counted" => q.browser \in Browsers
     /\ pc[p] \in Burned \cup {"admitted"} =>
          /\ q.state \in drawn /\ q.code \in codes /\ q.browser \in Browsers
          /\ q.token # NoAttempt => q.token \in drawn /\ startedIn[q.token] = q.browser
     /\ pc[p] \in Burned => q.token = q.state /\ q.state \notin rows
     /\ pc[p] \in {"exchanged", "validated"} => q.code.attempt = q.state
OneHolder ==
  \A p, q \in Threads :
    pc[p] \in Burned /\ pc[q] \in Burned /\ call[p].state = call[q].state => p = q

\* The attempt of a session is burned and finished.
SessionsFinal ==
  \A s \in sessions : /\ s.attempt \in drawn \ rows
                      /\ \A p \in Threads : pc[p] \in Burned => call[p].state # s.attempt

IInv ==
  /\ Typed /\ CookiesBound /\ (\A p \in Threads : CallBound(p)) /\ OneHolder /\ SessionsFinal
  /\ LoginsBound /\ BurnedIsAudited
=============================================================================
