---------------------------- MODULE LocalOperator ----------------------------
(***************************************************************************)
(* The local change boundary of local_security.py: the operator token that *)
(* the first start writes to the data volume, the marker that says it was  *)
(* written, the browser sessions that a token is exchanged for and the     *)
(* throttles.  Whoever owns the volume may remove the token file or put    *)
(* one in place at any time; the process may be killed between two writes. *)
(***************************************************************************)
EXTENDS Naturals, FiniteSets, Sequences

CONSTANTS
  Tokens,          \* what a token file may hold
  Threads,         \* concurrent requests
  MaxSessions,     \* _MAX_BROWSER_SESSIONS
  MaxAge, Idle,    \* BROWSER_SESSION_MAX_AGE_SECONDS, _BROWSER_SESSION_IDLE_SECONDS
  Limit, Window,   \* of both throttles
  Lag,             \* how long a request may wait for a lock after it read the clock
  MaxTime, MaxKills,
  MaxIssued,       \* bound on the sessions ever issued
  MaxChecks,       \* bound on the attempts that the throttles let through
  Absent, Torn     \* no file, a file that was opened and not written

OperatorAssumption ==
  /\ IsFiniteSet(Tokens) /\ {Absent, Torn} \cap Tokens = {} /\ Absent # Torn
  /\ {MaxSessions, MaxAge, Idle, Limit, Window} \subseteq Nat \ {0}
  /\ {Lag, MaxTime, MaxKills, MaxIssued, MaxChecks} \subseteq Nat /\ Lag < Window

VARIABLES
  file, marker,   \* the token file's content; does the .initialized file exist
  phase,          \* the process: "down", "opened", "written", "up"
  digest,         \* the runtime's token, Absent when unsafe requests are disabled
  sessions,       \* the OrderedDict, least recently used first
  events,         \* the deques of both throttles: the clock values of what passed
  pc,             \* where each request is
  clock, kills,
  created,        \* history: tokens this installation generated
  served,         \* history: a start got as far as serving
  late,           \* history: a token was generated after that
  issued,         \* history of the process: number of sessions issued,
  burned,         \* the sessions that existed when a mismatch was seen,
  passed          \* the real times at which attempts passed a throttle

fileVars == <<file, marker>>
startVars == <<phase, digest, created, served, late>>
sessionVars == <<sessions, issued, burned>>
vars == <<fileVars, startVars, sessionVars, events, pc, clock, kills, passed>>

Kinds == {"unlock", "change"}
MayPass == Len(passed["unlock"]) + Len(passed["change"]) < MaxChecks
Ids == {sessions[k].id : k \in 1 .. Len(sessions)}

Init ==
  /\ file = Absent /\ marker = FALSE /\ phase = "down" /\ digest = Absent
  /\ sessions = <<>> /\ events = [k \in Kinds |-> <<>>]
  /\ pc = [p \in Threads |-> "idle"]
  /\ clock = 0 /\ kills = 0
  /\ created = {} /\ served = FALSE /\ late = FALSE /\ issued = 0 /\ burned = {}
  /\ passed = [k \in Kinds |-> <<>>]

-----------------------------------------------------------------------------
(* load_or_create_local_operator *)

\* Neither file exists: open(O_EXCL) comes first, the token is flushed next,
\* into whatever has become of the file.
CreateFile ==
  /\ phase = "down" /\ file = Absent /\ ~marker
  /\ file' = Torn /\ phase' = "opened"
  /\ UNCHANGED <<marker, digest, created, served, late, sessionVars, events, pc, clock, kills, passed>>

WriteToken ==
  /\ phase = "opened"
  /\ \E t \in Tokens \ created :
       /\ file' = (IF file = Torn THEN t ELSE file)
       /\ digest' = t /\ created' = created \cup {t}
  /\ phase' = "written" /\ late' = (late \/ served)
  /\ UNCHANGED <<marker, served, sessionVars, events, pc, clock, kills, passed>>

\* Mutant: a token that is found is taken as initialized.
LoadTokenUnmarked ==
  /\ phase = "down" /\ file \in Tokens
  /\ digest' = file /\ phase' = "up" /\ served' = TRUE
  /\ UNCHANGED <<fileVars, created, late, sessionVars, events, pc, clock, kills, passed>>

\* A readable token is loaded; a torn one raises, and the start fails.
LoadToken ==
  /\ phase = "down" /\ file \in Tokens
  /\ digest' = file /\ phase' = "written"
  /\ UNCHANGED <<fileVars, created, served, late, sessionVars, events, pc, clock, kills, passed>>

\* _ensure_marker, and the lifespan goes on to serve.
EnsureMarker ==
  /\ phase = "written"
  /\ marker' = TRUE /\ phase' = "up" /\ served' = TRUE
  /\ UNCHANGED <<file, digest, created, late, sessionVars, events, pc, clock, kills, passed>>

\* The token is missing after initialization: unsafe requests stay disabled.
StartDisabled ==
  /\ phase = "down" /\ file = Absent /\ marker
  /\ digest' = Absent /\ phase' = "up" /\ served' = TRUE
  /\ UNCHANGED <<fileVars, created, late, sessionVars, events, pc, clock, kills, passed>>

\* Everything but the files is process memory, and nothing that survives refers
\* to the monotonic clock.
Kill ==
  /\ phase # "down" /\ kills < MaxKills
  /\ kills' = kills + 1
  /\ phase' = "down" /\ digest' = Absent
  /\ sessions' = <<>> /\ events' = [k \in Kinds |-> <<>>]
  /\ pc' = [p \in Threads |-> "idle"]
  /\ clock' = 0 /\ issued' = 0 /\ burned' = {} /\ passed' = [k \in Kinds |-> <<>>]
  /\ UNCHANGED <<fileVars, created, served, late>>

\* The owner of the volume removes the token file or puts one in place.
ChangeFile(content) ==
  /\ content # file
  /\ file' = content
  /\ UNCHANGED <<marker, startVars, sessionVars, events, pc, clock, kills, passed>>

-----------------------------------------------------------------------------
(* The throttle and the session table, each under its own lock.  The clock is
   read before the lock is taken: moment may be up to Lag old. *)

Moments == {m \in 0 .. clock : m + Lag >= clock}

\* popleft while the head is outside the window.
Remaining(log, moment) ==
  LET old == {k \in 1 .. Len(log) : \A j \in 1 .. k : log[j] + Window <= moment}
  IN SubSeq(log, Cardinality(old) + 1, Len(log))

\* _FixedWindowThrottle.consume: it passes or raises.
Consume(kind, moment, yes) ==
  LET log == Remaining(events[kind], moment)
  IN /\ yes = (Len(log) < Limit)
     /\ events' = [events EXCEPT ![kind] = IF yes THEN Append(log, moment) ELSE log]
     /\ passed' = IF yes THEN [passed EXCEPT ![kind] = Append(@, clock)] ELSE passed

\* The entries of a table at the places K, in their order.
Only(table, K) ==
  LET n == Cardinality(K)
      place == CHOOSE f \in [1 .. n -> K] : \A i, j \in 1 .. n : i < j => f[i] < f[j]
  IN [i \in 1 .. n |-> table[place[i]]]

\* __purge_browser_sessions
Kept(moment) ==
  Only(sessions, {k \in 1 .. Len(sessions) : /\ sessions[k].created + MaxAge > moment
                                             /\ sessions[k].seen + Idle > moment})

\* __issue_browser_session: purge, evict the least recently used, insert.
Issued(moment) ==
  LET kept == Kept(moment)
      over == IF Len(kept) >= MaxSessions THEN Len(kept) - MaxSessions + 1 ELSE 0
  IN Append(SubSeq(kept, over + 1, Len(kept)),
            [id |-> issued + 1, created |-> moment, seen |-> moment])

\* __verify_browser_session with touch: the session moves to the end.
Touched(kept, id, moment) ==
  LET k == CHOOSE j \in 1 .. Len(kept) : kept[j].id = id
  IN Append(Only(kept, {j \in 1 .. Len(kept) : kept[j].id # id}),
            [kept[k] EXCEPT !.seen = moment])

-----------------------------------------------------------------------------
(* Requests *)

Goto(p, where) == pc' = [pc EXCEPT ![p] = where]

\* __file_matches
FileMatches == digest # Absent /\ file = digest

\* __require_available: the request goes on, or every session is forgotten.
RequireAvailable(p, then) ==
  /\ phase = "up" /\ pc[p] = "idle"
  /\ IF FileMatches
     THEN Goto(p, then) /\ UNCHANGED <<sessions, burned>>
     ELSE sessions' = <<>> /\ burned' = burned \cup Ids /\ UNCHANGED pc
  /\ UNCHANGED <<fileVars, startVars, issued, events, clock, kills, passed>>

\* authorize_unlock: the throttle comes before the comparison, so that wrong
\* tokens are counted too.
Guess(p) ==
  /\ pc[p] = "unlock" /\ MayPass
  /\ \E m \in Moments, yes \in BOOLEAN, right \in BOOLEAN :
       Consume("unlock", m, yes) /\ Goto(p, IF yes /\ right THEN "proven" ELSE "idle")
  /\ UNCHANGED <<fileVars, startVars, sessionVars, clock, kills>>

Issue(p) ==
  /\ pc[p] = "proven" /\ issued < MaxIssued
  /\ \E m \in Moments : sessions' = Issued(m)
  /\ issued' = issued + 1 /\ Goto(p, "idle")
  /\ UNCHANGED <<fileVars, startVars, burned, events, clock, kills, passed>>

\* authorize_mutation with a browser's credentials: a session that is gone by
\* now is refused.
Verify(p, id) ==
  /\ pc[p] = "change" /\ id \in 1 .. issued
  /\ \E m \in Moments :
       LET kept == Kept(m)
       IN IF \E k \in 1 .. Len(kept) : kept[k].id = id
          THEN sessions' = Touched(kept, id, m) /\ Goto(p, "verified")
          ELSE sessions' = kept /\ Goto(p, "idle")
  /\ UNCHANGED <<fileVars, startVars, issued, burned, events, clock, kills, passed>>

\* ... or with the token itself in a header.
VerifyToken(p) ==
  /\ pc[p] = "change" /\ Goto(p, "verified")
  /\ UNCHANGED <<fileVars, startVars, sessionVars, events, clock, kills, passed>>

Admit(p) ==
  /\ pc[p] = "verified" /\ MayPass
  /\ \E m \in Moments, yes \in BOOLEAN : Consume("change", m, yes)
  /\ Goto(p, "idle")
  /\ UNCHANGED <<fileVars, startVars, sessionVars, clock, kills>>

\* request_browser_session_id purges as well.
Status ==
  /\ phase = "up" /\ FileMatches
  /\ \E m \in Moments : sessions' = Kept(m)
  /\ UNCHANGED <<fileVars, startVars, issued, burned, events, pc, clock, kills, passed>>

Tick ==
  /\ phase = "up" /\ clock < MaxTime /\ clock' = clock + 1
  /\ UNCHANGED <<fileVars, startVars, sessionVars, events, pc, kills, passed>>

Next ==
  \/ CreateFile \/ WriteToken \/ LoadToken \/ EnsureMarker \/ StartDisabled \/ Kill
  \/ \E content \in Tokens \cup {Absent} : ChangeFile(content)
  \/ \E p \in Threads :
       \/ \E kind \in Kinds : RequireAvailable(p, kind)
       \/ Guess(p) \/ Issue(p) \/ VerifyToken(p) \/ Admit(p)
       \/ \E id \in 1 .. issued : Verify(p, id)
  \/ Status \/ Tick

Spec == Init /\ [][Next]_vars

-----------------------------------------------------------------------------
\* The files, the session table and the throttles.
TypeOK ==
  /\ file \in Tokens \cup {Absent, Torn} /\ marker \in BOOLEAN
  /\ phase \in {"down", "opened", "written", "up"} /\ digest \in Tokens \cup {Absent}
  /\ sessions \in Seq([id : Nat, created : Nat, seen : Nat])
  /\ events \in [Kinds -> Seq(Nat)] /\ passed \in [Kinds -> Seq(Nat)]
  /\ pc \in [Threads -> {"idle", "unlock", "proven", "change", "verified"}]
  /\ {clock, kills, issued} \subseteq Nat /\ burned \subseteq 1 .. issued
  /\ created \subseteq Tokens /\ {served, late} \subseteq BOOLEAN

\* "It will not silently create a replacement after initialization": once any
\* start has served, no token is generated, wherever starts were killed and
\* whatever was removed.
NeverRegenerated == ~late

\* The session table never exceeds its limit, and no session that existed when
\* a request met a missing or different token file is ever honoured again.
SessionsContained == Len(sessions) <= MaxSessions /\ Ids \cap burned = {}

\* "Fixed process-local throttles bound mutation and unlock attempts": within a
\* window, less the time a request may wait for the lock, no more than Limit
\* attempts pass, in whatever order the requests reach the lock.
AttemptsBounded ==
  \A kind \in Kinds : \A t \in 0 .. clock :
    Cardinality({k \in 1 .. Len(passed[kind]) :
                   passed[kind][k] >= t /\ passed[kind][k] < t + (Window - Lag)}) <= Limit

OperatorHolds == NeverRegenerated /\ SessionsContained /\ AttemptsBounded

-----------------------------------------------------------------------------
(* Why it holds. *)

\* Whoever served has left the marker, and a token is only ever being written
\* before that.
MarkedOnceServed == (served => marker) /\ (phase = "opened" => ~served)

\* The sessions in the table were issued by this process, each once.
SessionsKnown ==
  /\ Ids \subseteq 1 .. issued
  /\ \A j, k \in 1 .. Len(sessions) : sessions[j].id = sessions[k].id => j = k

\* A throttle's deque holds its latest attempts, each at most Lag early; what it
\* has forgotten passed a window ago, less the lag.
Remembers(log, past, now) ==
  LET gone == Len(past) - Len(log)
  IN /\ gone >= 0
     /\ \A k \in 1 .. Len(past) : past[k] <= now
     /\ \A i \in 1 .. Len(log) : log[i] + Lag >= past[gone + i]
     /\ \A k \in 1 .. gone : past[k] + (Window - Lag) <= now

\* Attempts that are Limit apart lie as much time apart.
Spaced(past) ==
  \A j, k \in 1 .. Len(past) : k - j >= Limit => past[j] + (Window - Lag) <= past[k]

Throttled ==
  \A kind \in Kinds : Remembers(events[kind], passed[kind], clock) /\ Spaced(passed[kind])

IInv ==
  /\ TypeOK /\ NeverRegenerated /\ MarkedOnceServed
  /\ SessionsContained /\ SessionsKnown /\ Throttled
=============================================================================
