\* Every identity component on its own small instance.
CONSTANTS
  Parts = {"sessions", "team", "limits", "keys", "logins", "operator"}
  Threads = {t1, t2}  Nobody = Nobody  Torn = Torn
  x1 = x1  x2 = x2  s1 = s1  s2 = s2  s3 = s3
\* Two families of one membership with room for one session and one renewal.
  Families = {x1, x2}  Holders = {s1}  MaxGeneration = 1  MaxActive = 1  SessionLifetime = 3
  SessionIdle = 2  TouchInterval = 1  RotationInterval = 2  SessionPurge = 1  SessionTime = 3
\* Three subjects for two places.
  Subjects = {s1, s2, s3}  MaxMembers = 2  Tried = {"admin", "viewer"}
\* Five clients, more than twice the global limit, over a window boundary; a
\* worker may be half a window late.
  Clients = {s1, s2, s3, x1, x2}  GlobalLimit = 2  SubjectLimit = 1  LimitWindow = 2
  LimitPurge = 1  LimitLag = 1  LimitTime = 2
\* Two keys, two validations; a cache lifetime and two backoffs fit the clock.
  SigningKeys = {s1, s2}  CacheLifetime = 2  Backoff = 1  KeyTime = 3
\* Two attempts of one user in two browsers, room for one, one fault.
  Attempts = {x1, x2}  Browsers = {x1, x2}  Users = {s1}  MaxPending = 1  LoginLifetime = 1
  LoginTime = 1  LoginFaults = 1
\* Two tokens, room for one session, one attempt per window of two.
  OperatorTokens = {x1, x2}  MaxSessions = 1  MaxAge = 2  OperatorIdle = 1  TryLimit = 1
  TryWindow = 2  TryLag = 1  OperatorTime = 2  MaxKills = 2  MaxIssued = 2  MaxChecks = 2
SPECIFICATION Spec
CONSTRAINT Focus
SYMMETRY Symmetry
INVARIANTS SessionLineage DisabledIsOut TeamHolds LimitsHold KeysForgotten LoginsBound BurnedIsAudited OperatorHolds
PROPERTIES LoginsCapped ClosedStaysClosed AnswersHold
CHECK_DEADLOCK FALSE
