------------------------- MODULE TeamAdministration -------------------------
(***************************************************************************)
(* Administration of the server team (team_administration.py) after the    *)
(* offline bootstrap (identity_admin.py), and what it does to sessions     *)
(* that are open or being opened.  A request carries the identity its      *)
(* browser session had when it was authenticated; authority is read again  *)
(* once the organization is locked.  A member is both the User and the     *)
(* Membership row of one OIDC subject; subjects are never deleted.         *)
(***************************************************************************)
EXTENDS Authorization, Naturals, FiniteSets

CONSTANTS
  Subjects,      \* OIDC subjects of the configured issuer
  Threads,       \* concurrent requests
  MaxMembers,    \* MAX_TEAM_MEMBERS
  Tried,         \* bound on the roles that requests name
  Nobody         \* the organization lock is free

TeamAssumption ==
  IsFiniteSet(Subjects) /\ Nobody \notin Threads /\ MaxMembers \in Nat \ {0}

VARIABLES
  role,       \* Membership.role, "none" without a row
  active,     \* Membership.status = "active"
  recorded,   \* what the latest audit event about a member says it became
  session,    \* the role under which a member's open session was issued, or "none"
  lock,       \* _TEAM_LOCK and the organization row
  pc, req,    \* each request's position and content
  changedBy   \* the authority of whoever made the latest change of the team

team == <<role, active, recorded>>
vars == <<role, active, recorded, session, lock, pc, req, changedBy>>

Members == {m \in Subjects : role[m] # "none"}
Owners == {m \in Members : role[m] = "owner"}
Ordinary == Roles \ {"owner"}         \* _role refuses "owner"

\* The state an audit event's reason_code stands for.
State(r, a) == <<r, a>>
None == State("none", FALSE)

Requests ==
  [op : {"provision", "change"}, actor : Subjects, target : Subjects, role : Ordinary \cap Tried, active : BOOLEAN]
    \cup [op : {"transfer", "list", "audit"}, actor : Subjects, target : Subjects,
          role : {"viewer"}, active : {TRUE}]

\* The permission that _administration is asked for.
Needed(o) ==
  IF o = "transfer" THEN "organization:transfer"
  ELSE IF o = "audit" THEN "audit:read" ELSE "membership:manage"

\* current_workflow_actor
CurrentActor(m, permission) == m \in Members /\ Allows(role[m], active[m], permission)

NoRequest == [op |-> "none", actor |-> CHOOSE s \in Subjects : TRUE,
              target |-> CHOOSE s \in Subjects : TRUE, role |-> "viewer", active |-> TRUE]

Init ==
  /\ role = [m \in Subjects |-> "none"] /\ active = [m \in Subjects |-> FALSE]
  /\ recorded = [m \in Subjects |-> None]
  /\ session = [m \in Subjects |-> "none"]
  /\ lock = Nobody
  /\ pc = [p \in Threads |-> "idle"] /\ req = [p \in Threads |-> NoRequest]
  /\ changedBy = "nobody"

-----------------------------------------------------------------------------
\* bootstrap_owner creates the first owner under an advisory lock; a repetition
\* is accepted only while that owner is the whole team, and changes nothing.
Bootstrap(m) ==
  /\ Members = {}
  /\ role' = [role EXCEPT ![m] = "owner"] /\ active' = [active EXCEPT ![m] = TRUE]
  /\ recorded' = [recorded EXCEPT ![m] = State("owner", TRUE)]
  /\ changedBy' = "bootstrap"
  /\ UNCHANGED <<session, lock, pc, req>>

\* An authenticated request arrives; its session was open at that moment.
Arrive(p, q) ==
  /\ pc[p] = "idle"
  /\ session[q.actor] # "none"
  /\ pc' = [pc EXCEPT ![p] = "waiting"] /\ req' = [req EXCEPT ![p] = q]
  /\ UNCHANGED <<team, session, lock, changedBy>>

Return(p) ==
  /\ pc' = [pc EXCEPT ![p] = "idle"] /\ req' = [req EXCEPT ![p] = NoRequest]

\* _administration: the lock, then the actor's current authority.
Enter(p) ==
  /\ pc[p] = "waiting" /\ req[p].op # "login" /\ lock = Nobody
  /\ IF CurrentActor(req[p].actor, Needed(req[p].op))
     THEN lock' = p /\ pc' = [pc EXCEPT ![p] = "locked"] /\ UNCHANGED req
     ELSE Return(p) /\ UNCHANGED lock
  /\ UNCHANGED <<team, session, changedBy>>

Leave(p) == Return(p) /\ lock' = Nobody

\* The authority with which p changes the team, as it is when the change commits.
Credit(p) == changedBy' = IF CurrentActor(req[p].actor, Needed(req[p].op))
                          THEN "authorized" ELSE "unauthorized"

\* A rejection (TeamAdministrationRejected) or a listing changes nothing.
Read(p) ==
  /\ pc[p] = "locked" /\ req[p].op \in {"list", "audit"}
  /\ Leave(p) /\ UNCHANGED <<team, session, changedBy>>

Provisionable(q) == Cardinality(Members) < MaxMembers /\ q.target \notin Members

Provision(p) ==
  LET q == req[p]
  IN /\ pc[p] = "locked" /\ q.op = "provision"
     /\ Leave(p) /\ UNCHANGED session
     /\ IF ~Provisionable(q)
        THEN UNCHANGED <<team, changedBy>>
        ELSE /\ role' = [role EXCEPT ![q.target] = q.role]
             /\ active' = [active EXCEPT ![q.target] = TRUE]
             /\ recorded' = [recorded EXCEPT ![q.target] = State(q.role, TRUE)]
             /\ Credit(p)

Changeable(q) ==
  /\ q.target \in Members /\ role[q.target] # "owner"
  /\ <<role[q.target], active[q.target]>> # <<q.role, q.active>>

Change(p) ==
  LET q == req[p]
  IN /\ pc[p] = "locked" /\ q.op = "change"
     /\ Leave(p)
     /\ IF ~Changeable(q)
        THEN UNCHANGED <<team, session, changedBy>>
        ELSE /\ role' = [role EXCEPT ![q.target] = q.role]
             /\ active' = [active EXCEPT ![q.target] = q.active]
             /\ session' = [session EXCEPT ![q.target] = "none"]
             /\ recorded' = [recorded EXCEPT ![q.target] = State(q.role, q.active)]
             /\ Credit(p)

\* Mutant: a disabled member may receive the organization.
TransferableToAnyone(q) ==
  Owners = {q.actor} /\ q.target # q.actor /\ q.target \in Members

Transferable(q) ==
  /\ Owners = {q.actor} /\ q.target # q.actor
  /\ q.target \in Members /\ active[q.target]

Transfer(p) ==
  LET q == req[p]
  IN /\ pc[p] = "locked" /\ q.op = "transfer"
     /\ Leave(p)
     /\ IF ~Transferable(q)
        THEN UNCHANGED <<team, session, changedBy>>
        ELSE /\ role' = [role EXCEPT ![q.actor] = "admin", ![q.target] = "owner"]
             /\ session' = [session EXCEPT ![q.actor] = "none", ![q.target] = "none"]
             /\ recorded' = [recorded EXCEPT ![q.actor] = State("admin", TRUE),
                                             ![q.target] = State("owner", TRUE)]
             /\ UNCHANGED active /\ Credit(p)

\* The transaction fails (a lock timeout, a lost connection) and is rolled back.
Abort(p) == pc[p] = "locked" /\ Leave(p) /\ UNCHANGED <<team, session, changedBy>>

-----------------------------------------------------------------------------
\* A login in progress: resolve_verified_identity, later issue_browser_session,
\* which locks the membership row and reads it again.
BeginLogin(p, m) ==
  /\ pc[p] = "idle" /\ m \in Members /\ active[m]
  /\ pc' = [pc EXCEPT ![p] = "waiting"]
  /\ req' = [req EXCEPT ![p] = [NoRequest EXCEPT !.op = "login", !.actor = m]]
  /\ UNCHANGED <<team, session, lock, changedBy>>

OpenSession(p) ==
  LET m == req[p].actor
  IN /\ pc[p] = "waiting" /\ req[p].op = "login"
     /\ session' = IF m \in Members /\ active[m] THEN [session EXCEPT ![m] = role[m]] ELSE session
     /\ Return(p) /\ UNCHANGED <<team, lock, changedBy>>

\* A session ends on its own: logout, expiry, idleness.
EndSession(m) ==
  /\ session[m] # "none"
  /\ session' = [session EXCEPT ![m] = "none"]
  /\ UNCHANGED <<team, lock, pc, req, changedBy>>

Next ==
  \/ \E m \in Subjects : Bootstrap(m) \/ EndSession(m)
  \/ \E p \in Threads :
       \/ \E q \in Requests : Arrive(p, q)
       \/ \E m \in Subjects : BeginLogin(p, m)
       \/ Enter(p) \/ Read(p) \/ Provision(p) \/ Change(p) \/ Transfer(p) \/ Abort(p)
       \/ OpenSession(p)

Spec == Init /\ [][Next]_vars

-----------------------------------------------------------------------------
TypeOK ==
  /\ role \in [Subjects -> Roles \cup {"none"}] /\ active \in [Subjects -> BOOLEAN]
  /\ recorded \in [Subjects -> (Roles \cup {"none"}) \X BOOLEAN]
  /\ session \in [Subjects -> Roles \cup {"none"}]
  /\ lock \in Threads \cup {Nobody}
  /\ pc \in [Threads -> {"idle", "waiting", "locked"}]
  /\ req \in [Threads -> Requests \cup {NoRequest} \cup
                [op : {"login"}, actor : Subjects, target : Subjects, role : {"viewer"},
                 active : {TRUE}]]
  /\ changedBy \in {"nobody", "bootstrap", "authorized", "unauthorized"}

(* Once bootstrapped, the organization has exactly one owner and that owner  *)
(* is active, however provisioning, changes and transfers interleave.        *)
OneActiveOwner == Members # {} => \E m \in Subjects : Owners = {m} /\ active[m]

(* An open session was issued under the role its member has now, and only an *)
(* active member has one: every change of access closes what was open, and a *)
(* login that was under way sees the change.                                 *)
SessionsFollowAccess ==
  \A m \in Subjects : session[m] # "none" => active[m] /\ session[m] = role[m]

(* The audit trail tells the truth: the latest event about a member names    *)
(* the role and status it has (each change commits with its events).         *)
AuditMatchesTeam == \A m \in Members : recorded[m] = State(role[m], active[m])

(* Nobody changes the team on authority that was taken away while the        *)
(* request waited for the organization lock.                                 *)
ChangesAuthorized == changedBy # "unauthorized"

(* The retained memberships stay within the team limit.                      *)
TeamBounded == Cardinality(Members) <= MaxMembers

(* Access, sessions, audit trail and team size agree after every request:    *)
(* two requests in flight never leave one of them behind.                    *)
AccessAgrees == SessionsFollowAccess /\ AuditMatchesTeam /\ ChangesAuthorized /\ TeamBounded

(* One owner, and access that agrees with the owner's decisions.             *)
TeamHolds == OneActiveOwner /\ AccessAgrees

-----------------------------------------------------------------------------
(* The inductive invariant *)

\* The lock's holder is the request inside, and its actor keeps the authority it
\* was admitted with: only the holder changes the team.
HolderAuthorized ==
  \A p \in Threads :
    /\ pc[p] = "waiting" => req[p].op = "login" \/ req[p] \in Requests
    /\ pc[p] = "locked" <=> lock = p
    /\ pc[p] = "locked" => /\ req[p] \in Requests
                           /\ CurrentActor(req[p].actor, Needed(req[p].op))

IInv == TypeOK /\ HolderAuthorized /\ TeamHolds
=============================================================================
