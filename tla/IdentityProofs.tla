--------------------------- MODULE IdentityProofs ---------------------------
(* Theorems about the team administration, the provider's keys, the logins,  *)
(* the local operator and the rate limits of Identity, for every value of    *)
(* the constants.                                                            *)
EXTENDS Identity, FiniteSetTheorems, SequenceTheorems, TLAPS

-----------------------------------------------------------------------------
(* Team administration *)

\* The component's own copy of FiniteSets is the library's.
LEMMA TeamSets ==
  ASSUME NEW S
  PROVE  (Team!IsFiniteSet(S) <=> IsFiniteSet(S)) /\ Team!Cardinality(S) = Cardinality(S)
BY DEF Team!IsFiniteSet, IsFiniteSet, Team!Cardinality, Cardinality

\* The fields of an administration request.
LEMMA RequestFields ==
  ASSUME NEW q \in Team!Requests
  PROVE  /\ q.actor \in Subjects /\ q.target \in Subjects
         /\ q.role \in Team!Roles \ {"owner"} /\ q.active \in BOOLEAN
BY DEF Team!Requests, Team!Ordinary, Team!Roles

\* The member a login is for.
LEMMA LoginRequest ==
  ASSUME NEW m \in Subjects
  PROVE  [Team!NoRequest EXCEPT !.op = "login", !.actor = m] \in
           [op : {"login"}, actor : Subjects, target : Subjects, role : {"viewer"},
            active : {TRUE}]
<1>1. (CHOOSE s \in Subjects : TRUE) \in Subjects OBVIOUS
<1> QED BY <1>1 DEF Team!NoRequest

\* Counting members: the team is finite, and one more subject is one more member.
LEMMA MembersCounted ==
  ASSUME IsFiniteSet(Subjects)
  PROVE  /\ IsFiniteSet(Team!Members) /\ Cardinality(Team!Members) \in Nat
         /\ \A m \in Subjects \ Team!Members : Cardinality(Team!Members \cup {m}) = Cardinality(Team!Members) + 1
<1>1. IsFiniteSet(Team!Members) BY FS_Subset DEF Team!Members
<1> QED BY <1>1, FS_CardinalityType, FS_AddElement

-----------------------------------------------------------------------------
(* Each step *)

\* No member yet.
LEMMA TeamInit == ASSUME Team!TeamAssumption, Team!Init PROVE Team!IInv
<1>1. Team!Members = {} BY DEF Team!Members, Team!Init
<1>2. Team!TypeOK BY DEF Team!Init, Team!TypeOK, Team!None, Team!State, Team!TeamAssumption
<1>3. Team!HolderAuthorized BY DEF Team!Init, Team!HolderAuthorized, Team!TeamAssumption
<1>4. Team!TeamHolds
  BY <1>1, FS_EmptySet, TeamSets DEF Team!TeamHolds, Team!OneActiveOwner, Team!AccessAgrees,
     Team!SessionsFollowAccess,
     Team!AuditMatchesTeam, Team!ChangesAuthorized, Team!TeamBounded, Team!Init, Team!TeamAssumption
<1> QED BY <1>2, <1>3, <1>4 DEF Team!IInv

\* A step that leaves roles, status, audit trail and credit alone keeps the
\* properties if every session it leaves open was open before or is its member's due.
LEMMA TeamUntouched ==
  ASSUME Team!IInv, UNCHANGED <<Team!team, changedBy>>,
         \A m \in Subjects : \/ session'[m] \in {session[m], "none"}
                             \/ m \in Team!Members /\ active[m] /\ session'[m] = role[m]
  PROVE  Team!TeamHolds'
<1> USE DEF Team!team
<1>1. Team!Members' = Team!Members /\ Team!Owners' = Team!Owners BY DEF Team!Members, Team!Owners
<1>2. Team!OneActiveOwner' BY <1>1 DEF Team!IInv, Team!TeamHolds, Team!OneActiveOwner
<1>3. Team!SessionsFollowAccess'
  BY DEF Team!IInv, Team!TeamHolds, Team!AccessAgrees, Team!SessionsFollowAccess
<1>4. Team!AuditMatchesTeam' /\ Team!ChangesAuthorized' /\ Team!TeamBounded'
  BY <1>1 DEF Team!IInv, Team!TeamHolds, Team!AccessAgrees, Team!AuditMatchesTeam,
     Team!ChangesAuthorized, Team!TeamBounded
<1> QED BY <1>2, <1>3, <1>4 DEF Team!TeamHolds, Team!AccessAgrees

\* Whoever leaves the lock leaves nobody inside.
LEMMA HolderLeaves ==
  ASSUME Team!TeamAssumption, Team!IInv, NEW p \in Threads, teamPc[p] = "locked", Team!Leave(p)
  PROVE  Team!HolderAuthorized'
<1>1. \A t \in Threads : t # p => teamPc'[t] = teamPc[t] /\ req'[t] = req[t]
   /\ teamPc[t] # "locked"
  BY DEF Team!IInv, Team!TypeOK, Team!HolderAuthorized, Team!Leave, Team!Return
<1>2. teamPc'[p] = "idle" /\ teamLock' = Nobody
  BY DEF Team!IInv, Team!TypeOK, Team!Leave, Team!Return
<1> QED BY <1>1, <1>2 DEF Team!HolderAuthorized, Team!IInv, Team!TeamAssumption

\* bootstrap_owner
LEMMA BootstrapKeeps ==
  ASSUME Team!TeamAssumption, Team!IInv, NEW m \in Subjects, Team!Bootstrap(m)
  PROVE  Team!IInv'
<1> USE DEF Team!IInv, Team!TypeOK, Team!Bootstrap
<1>1. Team!TypeOK' BY DEF Team!State, Team!Roles
<1>2. Team!Members' = {m} BY DEF Team!Members
<1>3. \A p \in Threads : teamPc[p] # "locked" BY DEF Team!HolderAuthorized, Team!CurrentActor
<1>4. Team!HolderAuthorized' BY <1>3 DEF Team!HolderAuthorized
<1>5. Team!OneActiveOwner'
  <2>1. Team!Owners' = {m} BY <1>2 DEF Team!Owners
  <2> QED BY <2>1 DEF Team!OneActiveOwner
<1>6. Team!SessionsFollowAccess'
  <2>1. \A x \in Subjects : role[x] = "none" BY DEF Team!Members
  <2>2. \A x \in Subjects : session[x] = "none"
    BY <2>1 DEF Team!TeamHolds, Team!AccessAgrees, Team!SessionsFollowAccess
  <2> QED BY <2>2 DEF Team!SessionsFollowAccess
<1>7. Team!AuditMatchesTeam' BY <1>2 DEF Team!AuditMatchesTeam, Team!State
<1>8. Team!TeamBounded'
  <2>1. Cardinality({m}) = 1 BY FS_Singleton
  <2> QED BY <1>2, <2>1, TeamSets DEF Team!TeamBounded, Team!TeamAssumption
<1> QED BY <1>1, <1>4, <1>5, <1>6, <1>7, <1>8 DEF Team!TeamHolds, Team!AccessAgrees,
   Team!ChangesAuthorized

\* Requests that arrive or are refused at the lock, listings, failed
\* transactions and logins leave the team as it is.
LEMMA QuietKeeps ==
  ASSUME Team!TeamAssumption, Team!IInv, NEW p \in Threads,
         \/ \E q \in Team!Requests : Team!Arrive(p, q)
         \/ \E m \in Subjects : Team!BeginLogin(p, m)
         \/ Team!Enter(p) \/ Team!Read(p) \/ Team!Abort(p) \/ Team!OpenSession(p)
  PROVE  Team!IInv'
<1> Team!TypeOK /\ Team!HolderAuthorized BY DEF Team!IInv
<1> USE DEF Team!TypeOK, Team!team, Team!HolderAuthorized
<1>1. ASSUME NEW q \in Team!Requests, Team!Arrive(p, q) PROVE Team!IInv'
  <2>1. Team!TypeOK' BY <1>1 DEF Team!Arrive
  <2>2. Team!HolderAuthorized' BY <1>1 DEF Team!Arrive, Team!CurrentActor, Team!Members
  <2>3. UNCHANGED <<Team!team, changedBy, session>> BY <1>1 DEF Team!Arrive
  <2>4. Team!TeamHolds' BY <2>3, TeamUntouched
  <2> QED BY <2>1, <2>2, <2>4 DEF Team!IInv
<1>2. ASSUME NEW m \in Subjects, Team!BeginLogin(p, m) PROVE Team!IInv'
  <2>1. Team!TypeOK' BY <1>2, LoginRequest DEF Team!BeginLogin
  <2>2. Team!HolderAuthorized'
    <3>1. req'[p].op = "login" BY <1>2, LoginRequest DEF Team!BeginLogin
    <3>2. \A t \in Threads : t # p => req'[t] = req[t] /\ teamPc'[t] = teamPc[t]
      BY <1>2 DEF Team!BeginLogin
    <3>3. teamPc'[p] = "waiting" /\ teamLock # p /\ UNCHANGED <<teamLock, role, active>>
      BY <1>2 DEF Team!BeginLogin
    <3>4. \A m_1, x : Team!CurrentActor(m_1, x)' <=> Team!CurrentActor(m_1, x)
      BY <3>3 DEF Team!CurrentActor, Team!Members
    <3> QED BY <3>1, <3>2, <3>3, <3>4 DEF Team!Needed
  <2>3. UNCHANGED <<Team!team, changedBy, session>> BY <1>2 DEF Team!BeginLogin
  <2>4. Team!TeamHolds' BY <2>3, TeamUntouched
  <2> QED BY <2>1, <2>2, <2>4 DEF Team!IInv
<1>3. CASE Team!Enter(p)
  <2>1. Team!TypeOK' BY <1>3 DEF Team!Enter, Team!Return
  <2>2. Team!HolderAuthorized'
    <3>1. UNCHANGED <<role, active>> /\ teamPc[p] = "waiting" BY <1>3 DEF Team!Enter
    <3>2. \A m, x : Team!CurrentActor(m, x)' <=> Team!CurrentActor(m, x)
      BY <3>1 DEF Team!CurrentActor, Team!Members
    <3>3. CASE Team!CurrentActor(req[p].actor, Team!Needed(req[p].op))
      <4>2. req[p] \in Team!Requests BY <1>3 DEF Team!Enter
      <4>3. teamLock' = p /\ teamPc' = [teamPc EXCEPT ![p] = "locked"] /\ req' = req
        BY <1>3, <3>3 DEF Team!Enter
      <4>4. \A t \in Threads : t # p => teamPc[t] # "locked"
        BY <1>3 DEF Team!Enter, Team!TeamAssumption
      <4> QED BY <3>2, <3>3, <4>2, <4>3, <4>4 DEF Team!Needed
    <3>4. CASE ~Team!CurrentActor(req[p].actor, Team!Needed(req[p].op))
      <4>1. teamPc' = [teamPc EXCEPT ![p] = "idle"] /\ teamLock' = teamLock
        BY <1>3, <3>4 DEF Team!Enter, Team!Return
      <4>2. \A t \in Threads : teamPc[t] # "locked" BY <1>3 DEF Team!Enter, Team!TeamAssumption
      <4>3. \A t \in Threads : t # p => req'[t] = req[t] /\ teamPc'[t] = teamPc[t]
        BY <1>3, <3>4 DEF Team!Enter, Team!Return
      <4> QED BY <1>3, <4>1, <4>2, <4>3 DEF Team!Enter, Team!TeamAssumption
    <3> QED BY <3>3, <3>4
  <2>3. UNCHANGED <<Team!team, changedBy, session>> BY <1>3 DEF Team!Enter
  <2>4. Team!TeamHolds' BY <2>3, TeamUntouched
  <2> QED BY <2>1, <2>2, <2>4 DEF Team!IInv
<1>4. CASE Team!Read(p) \/ Team!Abort(p)
  <2>1. Team!TypeOK' BY <1>4 DEF Team!Read, Team!Abort, Team!Leave, Team!Return
  <2>2. Team!HolderAuthorized'
    BY <1>4, HolderLeaves DEF Team!Read, Team!Abort
  <2>3. UNCHANGED <<Team!team, changedBy, session>> BY <1>4 DEF Team!Read, Team!Abort
  <2>4. Team!TeamHolds' BY <2>3, TeamUntouched
  <2> QED BY <2>1, <2>2, <2>4 DEF Team!IInv
<1>5. CASE Team!OpenSession(p)
  <2>1. Team!TypeOK' BY <1>5 DEF Team!OpenSession, Team!Return
  <2>2. Team!HolderAuthorized'
    BY <1>5 DEF Team!OpenSession, Team!Return, Team!CurrentActor, Team!Members
  <2>3. UNCHANGED <<Team!team, changedBy>> BY <1>5 DEF Team!OpenSession
  <2>4. \A m \in Subjects : \/ session'[m] = session[m]
                            \/ m \in Team!Members /\ active[m] /\ session'[m] = role[m]
    BY <1>5 DEF Team!OpenSession
  <2>5. Team!TeamHolds' BY <2>3, <2>4, TeamUntouched
  <2> QED BY <2>1, <2>2, <2>5 DEF Team!IInv
<1> QED BY <1>1, <1>2, <1>3, <1>4, <1>5

\* provision_member
LEMMA ProvisionKeeps ==
  ASSUME Team!TeamAssumption, Team!IInv, NEW p \in Threads, Team!Provision(p)
  PROVE  Team!IInv'
<1> DEFINE q == req[p]
<1> Team!TypeOK /\ Team!HolderAuthorized /\ Team!TeamHolds BY DEF Team!IInv
<1>1. /\ q \in Team!Requests /\ Team!CurrentActor(q.actor, Team!Needed(q.op))
      /\ teamPc[p] = "locked" /\ teamLock = p
  BY DEF Team!Provision, Team!HolderAuthorized
<1>2. q.target \in Subjects /\ q.role \in Team!Roles \ {"owner"} BY <1>1, RequestFields
<1>3. teamLock' = Nobody /\ teamPc' = [teamPc EXCEPT ![p] = "idle"]
   /\ req' = [req EXCEPT ![p] = Team!NoRequest]
  BY DEF Team!Provision, Team!Leave, Team!Return
<1>4. Team!HolderAuthorized' BY <1>1, HolderLeaves DEF Team!Provision
<1>5. CASE ~Team!Provisionable(q)
  <2>1. UNCHANGED <<Team!team, changedBy, session>> BY <1>5 DEF Team!Provision
  <2>2. Team!TeamHolds' BY <2>1, TeamUntouched DEF Team!team
  <2>3. Team!TypeOK' BY <2>1, <1>3 DEF Team!TypeOK, Team!team
  <2> QED BY <1>4, <2>2, <2>3 DEF Team!IInv
<1>6. CASE Team!Provisionable(q)
  <2>1. /\ role' = [role EXCEPT ![q.target] = q.role]
        /\ active' = [active EXCEPT ![q.target] = TRUE]
        /\ recorded' = [recorded EXCEPT ![q.target] = Team!State(q.role, TRUE)]
        /\ changedBy' = "authorized" /\ session' = session
    BY <1>1, <1>6 DEF Team!Provision, Team!Credit
  <2>2. Team!TypeOK' BY <1>2, <1>3, <2>1 DEF Team!TypeOK, Team!State, Team!Roles
  <2>3. q.target \notin Team!Members /\ Cardinality(Team!Members) < MaxMembers
    BY <1>6, TeamSets DEF Team!Provisionable
  <2>4. Team!Members' = Team!Members \cup {q.target}
    BY <1>2, <2>1 DEF Team!Members, Team!TypeOK, Team!Roles
  <2>5. Team!Owners' = Team!Owners
    BY <1>2, <2>1, <2>3, <2>4 DEF Team!Members, Team!Owners, Team!TypeOK
  <2>6. Team!OneActiveOwner'
    <3>1. Team!Members # {} BY <1>1 DEF Team!CurrentActor
    <3>2. PICK m \in Subjects : Team!Owners = {m} /\ active[m]
      BY <3>1 DEF Team!TeamHolds, Team!OneActiveOwner
    <3>3. active'[m] BY <2>1, <3>2 DEF Team!TypeOK
    <3> QED BY <2>5, <3>2, <3>3 DEF Team!OneActiveOwner
  <2>7. Team!SessionsFollowAccess'
    <3>1. session[q.target] = "none"
      BY <1>2, <2>3 DEF Team!Members, Team!TeamHolds, Team!AccessAgrees, Team!SessionsFollowAccess
    <3> QED
      BY <1>2, <2>1, <3>1 DEF Team!TeamHolds, Team!AccessAgrees, Team!SessionsFollowAccess,
         Team!TypeOK
  <2>8. Team!AuditMatchesTeam'
    BY <1>2, <2>1, <2>4 DEF Team!TeamHolds, Team!AccessAgrees, Team!AuditMatchesTeam,
       Team!TypeOK, Team!State, Team!Members
  <2>9. Team!TeamBounded'
    <3>1. Cardinality(Team!Members \cup {q.target}) = Cardinality(Team!Members) + 1
       /\ Cardinality(Team!Members) \in Nat
      BY <1>2, <2>3, MembersCounted, TeamSets DEF Team!TeamAssumption
    <3> QED BY <2>3, <2>4, <3>1, TeamSets DEF Team!TeamBounded, Team!TeamAssumption
  <2> QED
    BY <1>4, <2>1, <2>2, <2>6, <2>7, <2>8, <2>9 DEF Team!IInv, Team!TeamHolds, Team!AccessAgrees,
       Team!ChangesAuthorized
<1> QED BY <1>5, <1>6

\* change_member
LEMMA ChangeKeeps ==
  ASSUME Team!TeamAssumption, Team!IInv, NEW p \in Threads, Team!Change(p)
  PROVE  Team!IInv'
<1> DEFINE q == req[p]
<1> Team!TypeOK /\ Team!HolderAuthorized /\ Team!TeamHolds BY DEF Team!IInv
<1>1. /\ q \in Team!Requests /\ Team!CurrentActor(q.actor, Team!Needed(q.op))
      /\ teamPc[p] = "locked" /\ teamLock = p
  BY DEF Team!Change, Team!HolderAuthorized
<1>2. q.target \in Subjects /\ q.role \in Team!Roles \ {"owner"} /\ q.active \in BOOLEAN
  BY <1>1, RequestFields
<1>3. teamLock' = Nobody /\ teamPc' = [teamPc EXCEPT ![p] = "idle"]
   /\ req' = [req EXCEPT ![p] = Team!NoRequest]
  BY DEF Team!Change, Team!Leave, Team!Return
<1>4. Team!HolderAuthorized' BY <1>1, HolderLeaves DEF Team!Change
<1>5. CASE ~Team!Changeable(q)
  <2>1. UNCHANGED <<Team!team, changedBy, session>> BY <1>5 DEF Team!Change
  <2>2. Team!TeamHolds' BY <2>1, TeamUntouched DEF Team!team
  <2>3. Team!TypeOK' BY <2>1, <1>3 DEF Team!TypeOK, Team!team
  <2> QED BY <1>4, <2>2, <2>3 DEF Team!IInv
<1>6. CASE Team!Changeable(q)
  <2>1. /\ role' = [role EXCEPT ![q.target] = q.role]
        /\ active' = [active EXCEPT ![q.target] = q.active]
        /\ session' = [session EXCEPT ![q.target] = "none"]
        /\ recorded' = [recorded EXCEPT ![q.target] = Team!State(q.role, q.active)]
        /\ changedBy' = "authorized"
    BY <1>1, <1>6 DEF Team!Change, Team!Credit
  <2>2. Team!TypeOK' BY <1>2, <1>3, <2>1 DEF Team!TypeOK, Team!State, Team!Roles
  <2>3. q.target \in Team!Members /\ role[q.target] # "owner" BY <1>6 DEF Team!Changeable
  <2>4. Team!Members' = Team!Members BY <1>2, <2>1, <2>3 DEF Team!Members, Team!TypeOK, Team!Roles
  <2>5. Team!Owners' = Team!Owners
    BY <1>2, <2>1, <2>3, <2>4 DEF Team!Members, Team!Owners, Team!TypeOK
  <2>6. Team!OneActiveOwner'
    <3>1. PICK m \in Subjects : Team!Owners = {m} /\ active[m]
      BY <2>3 DEF Team!TeamHolds, Team!OneActiveOwner
    <3>2. m # q.target BY <2>3, <3>1 DEF Team!Owners
    <3>3. active'[m] BY <2>1, <3>1, <3>2 DEF Team!TypeOK
    <3> QED BY <2>5, <3>1, <3>3 DEF Team!OneActiveOwner
  <2>7. Team!SessionsFollowAccess'
    BY <1>2, <2>1 DEF Team!TeamHolds, Team!AccessAgrees, Team!SessionsFollowAccess, Team!TypeOK
  <2>8. Team!AuditMatchesTeam'
    BY <1>2, <2>1, <2>4 DEF Team!TeamHolds, Team!AccessAgrees, Team!AuditMatchesTeam,
       Team!TypeOK, Team!State, Team!Members
  <2>9. Team!TeamBounded' BY <2>4 DEF Team!TeamHolds, Team!AccessAgrees, Team!TeamBounded
  <2> QED
    BY <1>4, <2>1, <2>2, <2>6, <2>7, <2>8, <2>9 DEF Team!IInv, Team!TeamHolds, Team!AccessAgrees,
       Team!ChangesAuthorized
<1> QED BY <1>5, <1>6

\* transfer_ownership: the two roles change hands in one transaction.
LEMMA TransferKeeps ==
  ASSUME Team!TeamAssumption, Team!IInv, NEW p \in Threads, Team!Transfer(p)
  PROVE  Team!IInv'
<1> DEFINE q == req[p]
<1> Team!TypeOK /\ Team!HolderAuthorized /\ Team!TeamHolds BY DEF Team!IInv
<1>1. /\ q \in Team!Requests /\ Team!CurrentActor(q.actor, Team!Needed(q.op))
      /\ teamPc[p] = "locked" /\ teamLock = p
  BY DEF Team!Transfer, Team!HolderAuthorized
<1>2. q.target \in Subjects /\ q.actor \in Subjects BY <1>1, RequestFields
<1>3. teamLock' = Nobody /\ teamPc' = [teamPc EXCEPT ![p] = "idle"]
   /\ req' = [req EXCEPT ![p] = Team!NoRequest]
  BY DEF Team!Transfer, Team!Leave, Team!Return
<1>4. Team!HolderAuthorized' BY <1>1, HolderLeaves DEF Team!Transfer
<1>5. CASE ~Team!Transferable(q)
  <2>1. UNCHANGED <<Team!team, changedBy, session>> BY <1>5 DEF Team!Transfer
  <2>2. Team!TeamHolds' BY <2>1, TeamUntouched DEF Team!team
  <2>3. Team!TypeOK' BY <2>1, <1>3 DEF Team!TypeOK, Team!team
  <2> QED BY <1>4, <2>2, <2>3 DEF Team!IInv
<1>6. CASE Team!Transferable(q)
  <2>1. /\ role' = [role EXCEPT ![q.actor] = "admin", ![q.target] = "owner"]
        /\ session' = [session EXCEPT ![q.actor] = "none", ![q.target] = "none"]
        /\ recorded' = [recorded EXCEPT ![q.actor] = Team!State("admin", TRUE),
                                        ![q.target] = Team!State("owner", TRUE)]
        /\ active' = active /\ changedBy' = "authorized"
    BY <1>1, <1>6 DEF Team!Transfer, Team!Credit
  <2>2. Team!TypeOK' BY <1>2, <1>3, <2>1 DEF Team!TypeOK, Team!State, Team!Roles
  <2>3. Team!Owners = {q.actor} /\ q.target # q.actor /\ q.target \in Team!Members
     /\ active[q.target]
    BY <1>6 DEF Team!Transferable
  <2>4. active[q.actor]
    <3>1. PICK m \in Subjects : Team!Owners = {m} /\ active[m]
      BY <2>3 DEF Team!TeamHolds, Team!OneActiveOwner
    <3> QED BY <2>3, <3>1
  <2>5. \A m \in Subjects : role'[m] = IF m = q.target THEN "owner"
                                       ELSE IF m = q.actor THEN "admin" ELSE role[m]
    BY <1>2, <2>1 DEF Team!TypeOK
  <2>6. Team!Members' = Team!Members BY <1>2, <2>3, <2>5 DEF Team!Members, Team!Owners
  <2>7. Team!Owners' = {q.target} BY <1>2, <2>3, <2>5, <2>6 DEF Team!Members, Team!Owners
  <2>8. Team!OneActiveOwner' BY <1>2, <2>1, <2>3, <2>7 DEF Team!OneActiveOwner
  <2>9. Team!SessionsFollowAccess'
    BY <1>2, <2>1, <2>5 DEF Team!TeamHolds, Team!AccessAgrees, Team!SessionsFollowAccess,
       Team!TypeOK
  <2>10. Team!AuditMatchesTeam'
    <3> SUFFICES ASSUME NEW m \in Team!Members'
                 PROVE  recorded'[m] = Team!State(role'[m], active'[m])
      BY DEF Team!AuditMatchesTeam, Team!State
    <3>1. m \in Team!Members /\ m \in Subjects BY <2>6 DEF Team!Members
    <3>2. CASE m = q.target
      <4>1. recorded'[m] = Team!State("owner", TRUE) BY <1>2, <2>1, <3>2 DEF Team!TypeOK
      <4> QED BY <2>1, <2>2, <2>3, <2>5, <3>1, <3>2, <4>1 DEF Team!State, Team!TypeOK
    <3>3. CASE m = q.actor
      <4>1. recorded'[m] = Team!State("admin", TRUE) BY <1>2, <2>1, <2>3, <3>3 DEF Team!TypeOK
      <4> QED BY <2>1, <2>2, <2>3, <2>4, <2>5, <3>1, <3>3, <4>1 DEF Team!State, Team!TypeOK
    <3>4. CASE m # q.target /\ m # q.actor
      BY <2>1, <2>5, <3>1, <3>4 DEF Team!TeamHolds, Team!AccessAgrees, Team!AuditMatchesTeam,
         Team!TypeOK, Team!State
    <3> QED BY <3>2, <3>3, <3>4
  <2>11. Team!TeamBounded' BY <2>6 DEF Team!TeamHolds, Team!AccessAgrees, Team!TeamBounded
  <2> QED
    BY <1>4, <2>1, <2>2, <2>8, <2>9, <2>10, <2>11
       DEF Team!IInv, Team!TeamHolds, Team!AccessAgrees, Team!ChangesAuthorized
<1> QED BY <1>5, <1>6

-----------------------------------------------------------------------------
(* The theorems *)

\* One step of any request or login keeps the invariant.
LEMMA TeamNext == ASSUME Team!TeamAssumption, Team!IInv, [Team!Next]_Team!vars PROVE Team!IInv'
<1>1. ASSUME NEW m \in Subjects, Team!EndSession(m) PROVE Team!IInv'
  <2>1. UNCHANGED <<Team!team, teamLock, teamPc, req, changedBy>>
    BY <1>1 DEF Team!EndSession
  <2>2. session' = [session EXCEPT ![m] = "none"] BY <1>1 DEF Team!EndSession
  <2>3. Team!TypeOK' BY <2>1, <2>2 DEF Team!IInv, Team!TypeOK, Team!team
  <2>4. Team!TeamHolds'
    <3>1. \A x \in Subjects : session'[x] \in {session[x], "none"}
      BY <2>2 DEF Team!IInv, Team!TypeOK
    <3> QED BY <2>1, <3>1, TeamUntouched
  <2>5. Team!HolderAuthorized'
    BY <2>1 DEF Team!IInv, Team!HolderAuthorized, Team!CurrentActor, Team!Members, Team!team
  <2> QED BY <2>3, <2>4, <2>5 DEF Team!IInv
<1>2. CASE UNCHANGED Team!vars
  <2>1. Team!TypeOK' BY <1>2 DEF Team!IInv, Team!TypeOK, Team!vars
  <2>2. Team!HolderAuthorized'
    BY <1>2 DEF Team!IInv, Team!HolderAuthorized, Team!CurrentActor, Team!Members, Team!vars
  <2>3. Team!TeamHolds' BY <1>2, TeamUntouched DEF Team!vars, Team!team
  <2> QED BY <2>1, <2>2, <2>3 DEF Team!IInv
<1> QED
  BY <1>1, <1>2, BootstrapKeeps, QuietKeeps, ProvisionKeeps, ChangeKeeps, TransferKeeps
     DEF Team!Next

\* However provisioning, changes, transfers, logins and logouts interleave, the
\* organization keeps exactly one owner, who is active; sessions follow access;
\* the audit trail ends in the team's state; no change is made on authority that
\* was taken away; and the team stays within its limit.
THEOREM TeamSafe == Spec => []TeamHolds
<1> DEFINE Inv == part = "team" => Team!IInv
<1> USE IdentityAssumptions
<1>1. Init => Inv BY TeamInit DEF Init
<1>2. Inv /\ [Next]_vars => Inv'
  <2> SUFFICES ASSUME Inv, [Next]_vars, part' = "team" PROVE Team!IInv' OBVIOUS
  <2>1. part = "team" /\ [Team!Next]_Team!vars BY DEF Next, vars, teamVars, Team!vars
  <2> QED BY <2>1, TeamNext
<1>3. Inv => TeamHolds BY DEF TeamHolds, Team!IInv
<1> QED BY <1>1, <1>2, <1>3, PTL DEF Spec

-----------------------------------------------------------------------------
(* The provider's keys *)

\* The types the invariant gives, with times as integers.
LEMMA KeyTypes ==
  ASSUME Keys!KeyAssumption, Keys!IInv
  PROVE  /\ published \subseteq SigningKeys /\ jwks \subseteq SigningKeys
         /\ withdrawn \in [SigningKeys -> Int] /\ loadedAt \in Int /\ lastRefresh \in Int
         /\ keyClock \in Nat /\ keyClock \in Int /\ Keys!Null \in Int /\ accepted.at \in Int
         /\ accepted.at <= keyClock /\ loadedAt <= keyClock /\ lastRefresh <= keyClock
         /\ accepted.key \in SigningKeys
         /\ keyPc \in [Threads -> {"idle", "selecting", "fetching"}]
            /\ wanted \in [Threads -> SigningKeys]
         /\ checked \in [Threads -> Keys!Times] /\ retried \in [Threads -> BOOLEAN]
         /\ \A p \in Threads : wanted[p] \in SigningKeys /\ checked[p] \in Int
            /\ checked[p] <= keyClock
         /\ CacheLifetime \in Nat /\ Backoff \in Nat /\ CacheLifetime > 0
         /\ \A k \in SigningKeys : withdrawn[k] \in Int
<1>1. KeyTime \in Nat /\ CacheLifetime \in Nat /\ Backoff \in Nat /\ CacheLifetime > 0
  BY DEF Keys!KeyAssumption
<1>2. \A x \in Keys!Times \cup {Keys!Null} : x \in Int BY <1>1 DEF Keys!Times, Keys!Null
<1>3. Keys!TypeOK /\ Keys!TimesPassed BY DEF Keys!IInv
<1>4. accepted.at \in Keys!Times \cup {Keys!Null} /\ accepted.key \in SigningKeys
  BY <1>3 DEF Keys!TypeOK
<1>5. keyClock \in Nat BY <1>1, <1>3 DEF Keys!TypeOK, Keys!Times
<1>6. withdrawn \in [SigningKeys -> Int] BY <1>2, <1>3 DEF Keys!TypeOK
<1>7. accepted.at <= keyClock /\ loadedAt <= keyClock /\ lastRefresh <= keyClock
  BY <1>3, <1>5 DEF Keys!TimesPassed, Keys!Null
<1>8. loadedAt \in Int /\ lastRefresh \in Int BY <1>2, <1>3 DEF Keys!TypeOK
<1>9. \A p \in Threads : wanted[p] \in SigningKeys /\ checked[p] \in Int /\ checked[p] <= keyClock
  BY <1>2, <1>3 DEF Keys!TypeOK, Keys!TimesPassed
<1> QED BY <1>1, <1>2, <1>3, <1>4, <1>5, <1>6, <1>7, <1>8, <1>9 DEF Keys!TypeOK, Keys!Null

\* What a step must show when provider, clock, cache and fetches stay as they are.
LEMMA ThreadOnly ==
  ASSUME Keys!KeyAssumption, Keys!IInv,
         UNCHANGED <<published, withdrawn, Keys!cache, keyClock, fetches>>,
         keyLock' \in Threads \cup {Nobody},
         keyPc' \in [Threads -> {"idle", "selecting", "fetching"}],
         wanted' \in [Threads -> SigningKeys], checked' = checked,
         retried' \in [Threads -> BOOLEAN],
         UNCHANGED accepted, Keys!FetchingHoldsLock'
  PROVE  Keys!IInv'
<1>1. UNCHANGED <<published, withdrawn, discovered, jwks, loadedAt, lastRefresh, keyClock,
                  fetches>>
  BY DEF Keys!cache
<1>2. Keys!TypeOK' BY <1>1 DEF Keys!IInv, Keys!TypeOK
<1>3. Keys!CacheWasServed' /\ Keys!TimesPassed'
  BY <1>1 DEF Keys!IInv, Keys!CacheWasServed, Keys!TimesPassed
<1>4. Keys!KeysForgotten'
  BY <1>1 DEF Keys!IInv, Keys!KeysForgotten, Keys!WithdrawnKeyForgotten, Keys!FetchesThrottled
<1> QED BY <1>1, <1>2, <1>3, <1>4 DEF Keys!IInv

\* The lock is held by the thread that fetches, and freed with it.
LEMMA LockMoves ==
  ASSUME Keys!KeyAssumption, Keys!IInv, NEW p \in Threads,
         NEW to \in {"idle", "selecting", "fetching"},
         keyPc' = [keyPc EXCEPT ![p] = to],
         \/ keyLock' = keyLock /\ keyPc[p] # "fetching" /\ to # "fetching"
         \/ keyLock' = Nobody /\ keyPc[p] = "fetching" /\ to # "fetching"
         \/ keyLock' = p /\ keyLock = Nobody /\ to = "fetching"
  PROVE  Keys!FetchingHoldsLock' /\ keyLock' \in Threads \cup {Nobody}
         /\ keyPc' \in [Threads -> {"idle", "selecting", "fetching"}]
<1>1. keyPc \in [Threads -> {"idle", "selecting", "fetching"}] BY KeyTypes
<1>2. keyPc'[p] = to /\ \A q \in Threads \ {p} : keyPc'[q] = keyPc[q] BY <1>1
<1>3. \A q \in Threads : (keyPc[q] = "fetching") = (keyLock = q)
  BY DEF Keys!IInv, Keys!KeysForgotten, Keys!FetchingHoldsLock
<1>4. \A q \in Threads : q # Nobody BY DEF Keys!KeyAssumption
<1>5. \A q \in Threads : keyPc'[q] = "fetching" <=> keyLock' = q BY <1>2, <1>3, <1>4
<1>6. keyLock' \in Threads \cup {Nobody} BY DEF Keys!IInv, Keys!TypeOK
<1> QED BY <1>1, <1>5, <1>6 DEF Keys!FetchingHoldsLock

\* A token arrives, or a fetch fails.
LEMMA QuietKeyKeeps ==
  ASSUME Keys!KeyAssumption, Keys!IInv, NEW p \in Threads,
         (\E k \in SigningKeys : Keys!Validate(p, k)) \/ Keys!FetchFails(p)
  PROVE  Keys!IInv'
<1>1. ASSUME NEW k \in SigningKeys, Keys!Validate(p, k) PROVE Keys!IInv'
  <2>1. /\ keyPc[p] = "idle" /\ keyPc' = [keyPc EXCEPT ![p] = "selecting"]
     /\ wanted' = [wanted EXCEPT ![p] = k]
        /\ retried' = [retried EXCEPT ![p] = FALSE] /\ keyLock' = keyLock /\ checked' = checked
        /\ UNCHANGED <<published, withdrawn, Keys!cache, keyClock, fetches>> /\ UNCHANGED accepted
    BY <1>1 DEF Keys!Validate
  <2>2. /\ Keys!FetchingHoldsLock' /\ keyLock' \in Threads \cup {Nobody}
        /\ keyPc' \in [Threads -> {"idle", "selecting", "fetching"}]
    BY <2>1, LockMoves
  <2>3. wanted' \in [Threads -> SigningKeys] /\ retried' \in [Threads -> BOOLEAN]
    BY <2>1, KeyTypes
  <2> QED BY <2>1, <2>2, <2>3, ThreadOnly
<1>2. CASE Keys!FetchFails(p)
  <2>1. /\ keyPc[p] = "fetching" /\ keyPc' = [keyPc EXCEPT ![p] = "idle"] /\ keyLock' = Nobody
        /\ UNCHANGED <<wanted, checked, retried, accepted>>
        /\ UNCHANGED <<published, withdrawn, Keys!cache, keyClock, fetches>>
    BY <1>2 DEF Keys!FetchFails, Keys!Refuse
  <2>2. /\ Keys!FetchingHoldsLock' /\ keyLock' \in Threads \cup {Nobody}
        /\ keyPc' \in [Threads -> {"idle", "selecting", "fetching"}]
    BY <2>1, LockMoves
  <2> QED BY <2>1, <2>2, KeyTypes, ThreadOnly
<1> QED BY <1>1, <1>2

\* A cached key is younger than the cache's lifetime, whatever was withdrawn since.
LEMMA LoadKeeps ==
  ASSUME Keys!KeyAssumption, Keys!IInv, NEW p \in Threads, Keys!Load(p)
  PROVE  Keys!IInv'
<1>1. keyPc[p] = "selecting" /\ keyLock = Nobody /\ UNCHANGED <<published, withdrawn, keyClock>>
  BY DEF Keys!Load
<1>2. CASE Keys!Fresh /\ ~retried[p] /\ wanted[p] \in jwks
  <2>1. /\ keyPc' = [keyPc EXCEPT ![p] = "idle"]
     /\ accepted' = [key |-> wanted[p], at |-> keyClock]
        /\ UNCHANGED <<keyLock, checked, Keys!cache, fetches, retried, wanted>>
    BY <1>2 DEF Keys!Load, Keys!Accept
  <2>2. /\ Keys!FetchingHoldsLock' /\ keyLock' \in Threads \cup {Nobody}
        /\ keyPc' \in [Threads -> {"idle", "selecting", "fetching"}]
    BY <1>1, <2>1, LockMoves
  <2>3. UNCHANGED <<discovered, jwks, loadedAt, lastRefresh>> BY <2>1 DEF Keys!cache
  <2>4. accepted' \in [key : SigningKeys, at : Keys!Times \cup {Keys!Null}]
     /\ accepted'.key = wanted[p]
        /\ accepted'.at = keyClock
    BY <2>1, KeyTypes DEF Keys!IInv, Keys!TypeOK
  <2>5. Keys!TypeOK' BY <1>1, <2>1, <2>2, <2>3, <2>4 DEF Keys!IInv, Keys!TypeOK
  <2>6. Keys!CacheWasServed' BY <1>1, <2>3 DEF Keys!IInv, Keys!CacheWasServed
  <2>7. Keys!TimesPassed'
    BY <1>1, <2>1, <2>3, <2>4, KeyTypes DEF Keys!IInv, Keys!TimesPassed, Keys!Null
  <2>8. Keys!WithdrawnKeyForgotten'
    <3>1. withdrawn[wanted[p]] # Keys!Null => loadedAt <= withdrawn[wanted[p]]
      BY <1>2 DEF Keys!Fresh, Keys!IInv, Keys!CacheWasServed
    <3>2. keyClock < loadedAt + CacheLifetime BY <1>2, KeyTypes DEF Keys!Fresh
    <3>3. withdrawn[wanted[p]] # Keys!Null => keyClock < withdrawn[wanted[p]] + CacheLifetime
      BY <3>1, <3>2, KeyTypes
    <3> QED BY <1>1, <2>4, <3>3 DEF Keys!WithdrawnKeyForgotten
  <2>9. Keys!FetchesThrottled' BY <2>1 DEF Keys!IInv, Keys!KeysForgotten, Keys!FetchesThrottled
  <2> QED BY <1>1, <2>1, <2>2, <2>3, <2>5, <2>6, <2>7, <2>8, <2>9 DEF Keys!IInv,
     Keys!KeysForgotten
<1>3. CASE Keys!Fresh /\ ~retried[p] /\ wanted[p] \notin jwks
  <2>1. /\ retried' = [retried EXCEPT ![p] = TRUE]
        /\ UNCHANGED <<keyPc, wanted, accepted, keyLock, checked, Keys!cache, fetches>>
    BY <1>3 DEF Keys!Load
  <2>2. Keys!FetchingHoldsLock' /\ keyLock' \in Threads \cup {Nobody}
        /\ retried' \in [Threads -> BOOLEAN]
    BY <2>1, KeyTypes DEF Keys!IInv, Keys!KeysForgotten, Keys!FetchingHoldsLock, Keys!TypeOK
  <2> QED BY <1>1, <2>1, <2>2, KeyTypes, ThreadOnly
<1>4. CASE ~(Keys!Fresh /\ ~retried[p]) /\ Keys!Limited
  <2>1. /\ keyPc' = [keyPc EXCEPT ![p] = "idle"]
        /\ UNCHANGED <<retried, wanted, accepted, keyLock, checked, Keys!cache, fetches>>
    BY <1>4 DEF Keys!Load, Keys!Refuse
  <2>2. /\ Keys!FetchingHoldsLock' /\ keyLock' \in Threads \cup {Nobody}
        /\ keyPc' \in [Threads -> {"idle", "selecting", "fetching"}]
    BY <1>1, <2>1, LockMoves
  <2> QED BY <1>1, <2>1, <2>2, KeyTypes, ThreadOnly
<1>5. CASE ~(Keys!Fresh /\ ~retried[p]) /\ ~Keys!Limited
  <2>1. /\ keyLock' = p /\ keyPc' = [keyPc EXCEPT ![p] = "fetching"]
        /\ checked' = [checked EXCEPT ![p] = keyClock]
        /\ lastRefresh' = keyClock /\ fetches' = <<fetches[2], keyClock>>
        /\ UNCHANGED <<discovered, jwks, loadedAt, wanted, retried, accepted>>
    BY <1>5 DEF Keys!Load, Keys!StartFetch
  <2>2. /\ Keys!FetchingHoldsLock' /\ keyLock' \in Threads \cup {Nobody}
        /\ keyPc' \in [Threads -> {"idle", "selecting", "fetching"}]
    BY <1>1, <2>1, LockMoves
  <2>3. keyClock \in Keys!Times BY DEF Keys!IInv, Keys!TypeOK
  <2>4. checked' \in [Threads -> Keys!Times] /\ \A q \in Threads : checked'[q] <= keyClock
    BY <2>1, <2>3, KeyTypes
  <2>5. Keys!TypeOK' BY <1>1, <2>1, <2>2, <2>3, <2>4 DEF Keys!IInv, Keys!TypeOK
  <2>6. Keys!CacheWasServed' BY <1>1, <2>1 DEF Keys!IInv, Keys!CacheWasServed
  <2>7. Keys!TimesPassed' BY <1>1, <2>1, <2>4, KeyTypes DEF Keys!IInv, Keys!TimesPassed, Keys!Null
  <2>8. Keys!WithdrawnKeyForgotten'
    BY <1>1, <2>1 DEF Keys!IInv, Keys!KeysForgotten, Keys!WithdrawnKeyForgotten
  <2>9. fetches[2] = lastRefresh
     /\ fetches \in (Keys!Times \cup {Keys!Null}) \X (Keys!Times \cup {Keys!Null})
    BY DEF Keys!IInv
  <2>10. fetches'[1] = lastRefresh /\ fetches'[2] = keyClock BY <2>1, <2>9
  <2>11. Keys!FetchesThrottled' BY <1>5, <2>10, KeyTypes DEF Keys!FetchesThrottled, Keys!Limited
  <2>12. lastRefresh \in Keys!Times \cup {Keys!Null} BY DEF Keys!IInv, Keys!TypeOK
  <2>13. fetches' \in (Keys!Times \cup {Keys!Null}) \X (Keys!Times \cup {Keys!Null})
    BY <2>1, <2>3, <2>9, <2>12
  <2> QED BY <2>1, <2>2, <2>5, <2>6, <2>7, <2>8, <2>10, <2>11, <2>13 DEF Keys!IInv,
     Keys!KeysForgotten
<1> QED BY <1>2, <1>3, <1>4, <1>5

\* The response holds only keys that are served, however late it arrives.
LEMMA FetchKeeps ==
  ASSUME Keys!KeyAssumption, Keys!IInv, NEW p \in Threads, Keys!FetchSucceeds(p)
  PROVE  Keys!IInv'
<1>1. /\ keyPc[p] = "fetching" /\ keyLock' = Nobody /\ discovered' = TRUE /\ jwks' = published
      /\ loadedAt' = checked[p]
      /\ UNCHANGED <<published, withdrawn, lastRefresh, keyClock, wanted, checked, fetches>>
  BY DEF Keys!FetchSucceeds, Keys!LoadTime
<1>2. PICK to \in {"idle", "selecting"} : keyPc' = [keyPc EXCEPT ![p] = to]
  BY DEF Keys!FetchSucceeds, Keys!Accept, Keys!Refuse
<1>3. /\ Keys!FetchingHoldsLock' /\ keyLock' \in Threads \cup {Nobody}
      /\ keyPc' \in [Threads -> {"idle", "selecting", "fetching"}]
  BY <1>1, <1>2, LockMoves
<1>4. retried' \in [Threads -> BOOLEAN] BY KeyTypes DEF Keys!FetchSucceeds
<1>5. \/ UNCHANGED accepted
      \/ wanted[p] \in published /\ accepted' = [key |-> wanted[p], at |-> checked[p]]
  BY DEF Keys!FetchSucceeds, Keys!Accept
<1>6. checked[p] \in Keys!Times /\ checked[p] <= keyClock BY KeyTypes
<1>7. accepted' \in [key : SigningKeys, at : Keys!Times \cup {Keys!Null}]
   /\ accepted'.at <= keyClock /\ accepted'.at >= Keys!Null
  <2>1. CASE UNCHANGED accepted
    BY <2>1, KeyTypes DEF Keys!IInv, Keys!TypeOK, Keys!TimesPassed, Keys!Null
  <2>2. CASE accepted' = [key |-> wanted[p], at |-> checked[p]]
    <3>1. accepted'.at = checked[p] /\ checked[p] \in Int /\ checked[p] >= 0
      BY <1>6, <2>2, KeyTypes DEF Keys!Times
    <3> QED BY <1>6, <2>2, <3>1, KeyTypes DEF Keys!Null
  <2> QED BY <1>5, <2>1, <2>2
<1>8. Keys!TypeOK' BY <1>1, <1>3, <1>4, <1>6, <1>7 DEF Keys!IInv, Keys!TypeOK
<1>9. Keys!CacheWasServed' BY <1>1, KeyTypes DEF Keys!IInv, Keys!CacheWasServed
<1>10. Keys!TimesPassed'
  <2>1. accepted'.at \in Int BY <1>8, KeyTypes DEF Keys!TypeOK, Keys!Times
  <2>2. checked[p] \in Keys!Null..keyClock BY <1>6, KeyTypes DEF Keys!Times, Keys!Null
  <2>3. lastRefresh \in Keys!Null..keyClock BY DEF Keys!IInv, Keys!TimesPassed
  <2> QED BY <1>1, <1>7, <2>1, <2>2, <2>3, KeyTypes DEF Keys!IInv, Keys!TimesPassed
<1>11. Keys!WithdrawnKeyForgotten'
  <2>1. CASE UNCHANGED accepted
    BY <1>1, <2>1 DEF Keys!IInv, Keys!KeysForgotten, Keys!WithdrawnKeyForgotten
  <2>2. CASE wanted[p] \in published /\ accepted' = [key |-> wanted[p], at |-> checked[p]]
    <3>1. withdrawn[wanted[p]] = Keys!Null BY <2>2, KeyTypes DEF Keys!IInv, Keys!CacheWasServed
    <3> QED BY <1>1, <2>2, <3>1 DEF Keys!WithdrawnKeyForgotten
  <2> QED BY <1>5, <2>1, <2>2
<1>12. Keys!FetchesThrottled' BY <1>1 DEF Keys!IInv, Keys!KeysForgotten, Keys!FetchesThrottled
<1> QED BY <1>1, <1>3, <1>8, <1>9, <1>10, <1>11, <1>12 DEF Keys!IInv, Keys!KeysForgotten

\* What the provider withdraws now was served until now.
LEMMA RotationKeeps ==
  ASSUME Keys!KeyAssumption, Keys!IInv, NEW S \in SUBSET SigningKeys, Keys!RotateKeys(S)
  PROVE  Keys!IInv'
<1>1. /\ published' = S
      /\ withdrawn' = [k \in SigningKeys |-> IF k \in S THEN Keys!Null
                                      ELSE IF k \in published THEN keyClock ELSE withdrawn[k]]
      /\ UNCHANGED <<discovered, jwks, loadedAt, lastRefresh, keyLock, keyClock, keyPc, wanted,
                     checked, retried, fetches, accepted>>
  BY DEF Keys!RotateKeys, Keys!cache, Keys!thread
<1>2. keyClock \in Keys!Times /\ withdrawn \in [SigningKeys -> Keys!Times \cup {Keys!Null}]
  BY DEF Keys!IInv, Keys!TypeOK
<1>3. \A k \in SigningKeys : withdrawn'[k] = IF k \in S THEN Keys!Null
                                      ELSE IF k \in published THEN keyClock ELSE withdrawn[k]
  BY <1>1
<1>4. withdrawn' \in [SigningKeys -> Keys!Times \cup {Keys!Null}] BY <1>1, <1>2
<1>5. Keys!TypeOK' BY <1>1, <1>4 DEF Keys!IInv, Keys!TypeOK
<1>6. Keys!TimesPassed' BY <1>1 DEF Keys!IInv, Keys!TimesPassed
<1>7. keyClock # Keys!Null BY KeyTypes DEF Keys!Null
<1>8. Keys!CacheWasServed'
  <2>1. \A k \in SigningKeys : withdrawn'[k] = Keys!Null <=> k \in published'
    BY <1>1, <1>3, <1>7 DEF Keys!IInv, Keys!CacheWasServed
  <2>2. loadedAt # Keys!Null =>
          \A k \in jwks : withdrawn'[k] # Keys!Null => loadedAt <= withdrawn'[k]
    BY <1>3, KeyTypes DEF Keys!IInv, Keys!CacheWasServed
  <2> QED BY <1>1, <2>1, <2>2 DEF Keys!CacheWasServed
<1>9. Keys!WithdrawnKeyForgotten'
  <2> DEFINE k == accepted.key
  <2>1. k \in SigningKeys /\ accepted.at <= keyClock BY KeyTypes
  <2>2. accepted.at = Keys!Null \/ withdrawn[k] = Keys!Null
          \/ accepted.at < withdrawn[k] + CacheLifetime
    BY DEF Keys!IInv, Keys!KeysForgotten, Keys!WithdrawnKeyForgotten
  <2>3. withdrawn[k] = Keys!Null <=> k \in published BY <2>1 DEF Keys!IInv, Keys!CacheWasServed
  <2>4. accepted.at = Keys!Null \/ withdrawn'[k] = Keys!Null
          \/ accepted.at < withdrawn'[k] + CacheLifetime
    BY <1>3, <2>1, <2>2, <2>3, KeyTypes
  <2> QED BY <1>1, <2>4 DEF Keys!WithdrawnKeyForgotten
<1>10. Keys!FetchesThrottled' /\ Keys!FetchingHoldsLock'
  BY <1>1 DEF Keys!IInv, Keys!KeysForgotten, Keys!FetchesThrottled, Keys!FetchingHoldsLock
<1> QED BY <1>1, <1>5, <1>6, <1>8, <1>9, <1>10 DEF Keys!IInv, Keys!KeysForgotten

\* Initially nothing is cached or accepted.
LEMMA KeyInit == ASSUME Keys!KeyAssumption, Keys!Init PROVE Keys!IInv
<1>1. PICK k0 \in SigningKeys : TRUE BY DEF Keys!Init
<1>2. (CHOOSE k \in SigningKeys : TRUE) \in SigningKeys BY <1>1
<1>3. KeyTime \in Nat /\ 0 \in Keys!Times /\ 0 # Keys!Null
  BY DEF Keys!KeyAssumption, Keys!Times, Keys!Null
<1>4. keyLock = Nobody /\ \A p \in Threads : p # Nobody /\ keyPc[p] = "idle"
  BY DEF Keys!Init, Keys!KeyAssumption
<1>5. accepted.at = Keys!Null /\ fetches[1] = Keys!Null /\ fetches[2] = Keys!Null BY DEF Keys!Init
<1>6. Keys!TypeOK BY <1>2, <1>3 DEF Keys!Init, Keys!TypeOK
<1>7. Keys!CacheWasServed BY <1>3 DEF Keys!Init, Keys!CacheWasServed
<1>8. Keys!TimesPassed BY <1>5 DEF Keys!Init, Keys!TimesPassed, Keys!Null
<1>9. Keys!KeysForgotten
  BY <1>4, <1>5 DEF Keys!KeysForgotten, Keys!WithdrawnKeyForgotten, Keys!FetchesThrottled,
     Keys!FetchingHoldsLock
<1> QED BY <1>5, <1>6, <1>7, <1>8, <1>9 DEF Keys!Init, Keys!IInv

\* One step of any validation, the provider or the clock keeps the invariant.
LEMMA KeyNext == ASSUME Keys!KeyAssumption, Keys!IInv, [Keys!Next]_Keys!vars PROVE Keys!IInv'
<1>1. CASE Keys!Tick \/ UNCHANGED Keys!vars
  <2>1. UNCHANGED <<published, withdrawn, discovered, jwks, loadedAt, lastRefresh, keyLock,
                    keyPc, wanted, checked, retried, fetches, accepted>>
        /\ keyClock' \in Keys!Times /\ keyClock' \in Int /\ keyClock <= keyClock'
    BY <1>1, KeyTypes DEF Keys!Tick, Keys!vars, Keys!cache, Keys!thread, Keys!IInv, Keys!TypeOK,
       Keys!Times, Keys!KeyAssumption
  <2>2. Keys!TypeOK' BY <2>1 DEF Keys!IInv, Keys!TypeOK
  <2>3. Keys!CacheWasServed' /\ Keys!KeysForgotten'
    BY <2>1 DEF Keys!IInv, Keys!CacheWasServed, Keys!KeysForgotten, Keys!WithdrawnKeyForgotten,
       Keys!FetchesThrottled,
       Keys!FetchingHoldsLock
  <2>4. Keys!TimesPassed' BY <2>1, KeyTypes DEF Keys!IInv, Keys!TimesPassed, Keys!Null
  <2> QED BY <2>1, <2>2, <2>3, <2>4 DEF Keys!IInv
<1> QED BY <1>1, QuietKeyKeeps, LoadKeeps, FetchKeeps, RotationKeeps DEF Keys!Next

-----------------------------------------------------------------------------
(* Logins *)

\* The types the invariant gives, one fact each.
LEMMA LoginTypes ==
  ASSUME Logins!LoginAssumption, Logins!IInv
  PROVE  /\ attempts \subseteq drawn /\ drawn \subseteq Attempts /\ expires \in [Attempts -> Nat]
         /\ startedIn \in [Attempts -> Browsers \cup {Nobody}]
         /\ cookie \in [Browsers -> drawn \cup {Nobody}]
         /\ codes \subseteq [attempt : drawn, user : Users] /\ spent \subseteq codes
         /\ loginPc \in [Threads -> Logins!Locations] /\ call = [p \in Threads |-> call[p]]
            /\ loginClock \in Nat
         /\ Nobody \notin drawn
         /\ \A c \in codes : c.attempt \in drawn /\ c.user \in Users
BY DEF Logins!IInv, Logins!Typed, Logins!LoginAssumption

\* One request moves from where it was to where and with what the step says;
\* attempts are only burned.
LEMMA RequestKeeps ==
  ASSUME Logins!LoginAssumption, Logins!IInv, NEW p \in Threads, NEW to \in Logins!Locations,
         NEW c,
         loginPc' = [loginPc EXCEPT ![p] = to], call' = [call EXCEPT ![p] = c],
         attempts' \subseteq attempts, UNCHANGED <<expires, drawn, startedIn, codes, loginClock>>,
         cookie' \in [Browsers -> drawn \cup {Nobody}],
         \A b \in Browsers : cookie'[b] \in {cookie[b], Nobody},
         spent' \subseteq codes, \A x \in spent' : x \in spent \/ x.attempt \notin attempts',
         Logins!CallBound(p)',
         to \in Logins!Burned =>
           \A q \in Threads \ {p} : loginPc[q] \in Logins!Burned => call[q].state # c.state,
         to \in Logins!Burned => \A s \in sessions' : s.attempt # c.state,
         \A s \in sessions' : \/ s \in sessions
                              \/ /\ s.attempt \in drawn \ attempts'
                                 /\ startedIn[s.attempt] = s.browser
                                 /\ [attempt |-> s.attempt, user |-> s.user] \in codes
                                 /\ \A q \in Threads \ {p} : loginPc[q] \in Logins!Burned =>
                                      call[q].state # s.attempt
                                 /\ \A x \in sessions' : x.attempt = s.attempt => x = s,
         audited \subseteq audited', excused \subseteq excused',
         \A a \in attempts \ attempts' : expires[a] <= loginClock \/ (to \in Logins!Burned
            /\ c.state = a),
         loginPc[p] \in Logins!Burned => \/ call[p].state \in audited' \cup excused'
                                         \/ to \in Logins!Burned /\ c.state = call[p].state
  PROVE  Logins!IInv'
<1> USE LoginTypes
<1>1. /\ loginPc' \in [Threads -> Logins!Locations] /\ DOMAIN call' = Threads
   /\ loginPc'[p] = to /\ call'[p] = c
      /\ \A q \in Threads \ {p} : loginPc'[q] = loginPc[q] /\ call'[q] = call[q]
  OBVIOUS
<1>2. Logins!Typed'
  <2>1. call' = [q \in Threads |-> call'[q]] OBVIOUS
  <2> QED BY <1>1, <2>1 DEF Logins!Typed
<1>3. Logins!CookiesBound' BY DEF Logins!IInv, Logins!CookiesBound
<1>4. \A q \in Threads : Logins!CallBound(q)'
  <2>1. ASSUME NEW q \in Threads \ {p} PROVE Logins!CallBound(q)'
    <3>1. Logins!CallBound(q) BY DEF Logins!IInv
    <3>2. loginPc'[q] = loginPc[q] /\ call'[q] = call[q] BY <1>1
    <3> QED BY <3>1, <3>2 DEF Logins!CallBound
  <2> QED BY <2>1
<1>5. Logins!OneHolder' BY <1>1 DEF Logins!IInv, Logins!OneHolder
<1>6. Logins!SessionsFinal'
  <2>1. ASSUME NEW s \in sessions'
        PROVE  s.attempt \in drawn' \ attempts'
           /\ \A q \in Threads : loginPc'[q] \in Logins!Burned => call'[q].state # s.attempt
    <3>1. s.attempt \in drawn' \ attempts' BY DEF Logins!IInv, Logins!SessionsFinal
    <3>2. s \in sessions =>
            \A q \in Threads : loginPc[q] \in Logins!Burned => call[q].state # s.attempt
      BY DEF Logins!IInv, Logins!SessionsFinal
    <3>3. \A q \in Threads \ {p} : loginPc[q] \in Logins!Burned => call[q].state # s.attempt
      BY <3>2
    <3>4. \A q \in Threads \ {p} : loginPc'[q] \in Logins!Burned => call'[q].state # s.attempt
      BY <1>1, <3>3
    <3> QED BY <1>1, <3>1, <3>4
  <2> QED BY <2>1 DEF Logins!SessionsFinal
<1>7. Logins!LoginsBound'
  <2>1. Logins!SignedInAsStarted' BY DEF Logins!IInv, Logins!LoginsBound, Logins!SignedInAsStarted
  <2>2. \A s, t \in sessions' : s.attempt = t.attempt => s = t
    BY DEF Logins!IInv, Logins!LoginsBound, Logins!OneSessionPerAttempt
  <2>3. Logins!OneSessionPerAttempt'
    BY <1>5, <2>2 DEF Logins!OneSessionPerAttempt, Logins!OneHolder, Logins!Burned
  <2>4. \A x \in spent' : x.attempt \notin attempts'
    BY DEF Logins!IInv, Logins!LoginsBound, Logins!BurnedBeforeExchange
  <2>5. Logins!BurnedBeforeExchange'
    BY <1>6, <2>4 DEF Logins!BurnedBeforeExchange, Logins!SessionsFinal
  <2> QED BY <2>1, <2>3, <2>5 DEF Logins!LoginsBound
<1>8. Logins!BurnedIsAudited'
  <2> SUFFICES ASSUME NEW a \in drawn \ attempts', a \notin audited' \cup excused',
                      ~(expires[a] <= loginClock)
               PROVE  \E q \in Threads : call'[q].state = a /\ loginPc'[q] \in Logins!Burned
    BY <1>1 DEF Logins!BurnedIsAudited, Logins!Burned
  <2>1. CASE a \in attempts BY <1>1, <2>1
  <2>2. CASE a \notin attempts
    <3>1. PICK q \in Threads : call[q].state = a /\ loginPc[q] \in Logins!Burned
      BY <2>2 DEF Logins!IInv, Logins!BurnedIsAudited, Logins!Burned, Logins!Locations
    <3> QED BY <1>1, <3>1
  <2> QED BY <2>1, <2>2
<1> QED BY <1>2, <1>3, <1>4, <1>5, <1>6, <1>7, <1>8 DEF Logins!IInv

\* A request that is answered, or that ends without an answer.
LEMMA EndKeeps ==
  ASSUME Logins!LoginAssumption, Logins!IInv, NEW p \in Threads, Logins!Done(p),
         \/ UNCHANGED cookie
         \/ loginPc[p] \in Logins!Burned \cup {"admitted"}
            /\ cookie' = [cookie EXCEPT ![call[p].browser] = Nobody],
         UNCHANGED <<attempts, expires, drawn, startedIn, codes, loginClock, spent>>,
         \A s \in sessions' : \/ s \in sessions
                              \/ /\ s.attempt \in drawn \ attempts'
                                 /\ startedIn[s.attempt] = s.browser
                                 /\ [attempt |-> s.attempt, user |-> s.user] \in codes
                                 /\ \A q \in Threads \ {p} : loginPc[q] \in Logins!Burned =>
                                      call[q].state # s.attempt
                                 /\ \A x \in sessions' : x.attempt = s.attempt => x = s,
         audited \subseteq audited', excused \subseteq excused',
         loginPc[p] \in Logins!Burned => call[p].state \in audited' \cup excused'
  PROVE  Logins!IInv'
<1>1. loginPc' = [loginPc EXCEPT ![p] = "idle"] /\ call' = [call EXCEPT ![p] = Logins!NoCall]
  BY DEF Logins!Done, Logins!Goto
<1>2. loginPc'[p] = "idle" BY <1>1, LoginTypes
<1>3. Logins!CallBound(p)' BY <1>2 DEF Logins!CallBound, Logins!Burned
<1>4. "idle" \in Logins!Locations /\ "idle" \notin Logins!Burned
  BY DEF Logins!Locations, Logins!Burned
<1>5. /\ cookie' \in [Browsers -> drawn \cup {Nobody}]
      /\ \A b \in Browsers : cookie'[b] \in {cookie[b], Nobody}
  BY LoginTypes
<1>6. spent' \subseteq codes /\ (\A x \in spent' : x \in spent)
   /\ attempts' \subseteq attempts /\ attempts \ attempts' = {}
  BY LoginTypes
<1> QED BY <1>1, <1>3, <1>4, <1>5, <1>6, RequestKeeps

\* What a request past its callback knows.
LEMMA CallFacts ==
  ASSUME Logins!LoginAssumption, Logins!IInv, NEW p \in Threads,
         loginPc[p] \in Logins!Burned \cup {"admitted"}
  PROVE  /\ call[p].state \in drawn /\ call[p].code \in codes /\ call[p].browser \in Browsers
         /\ loginPc[p] \in Logins!Burned =>
              /\ call[p].token = call[p].state /\ call[p].state \notin attempts
              /\ startedIn[call[p].state] = call[p].browser
              /\ \A q \in Threads \ {p} :
                   loginPc[q] \in Logins!Burned => call[q].state # call[p].state
              /\ \A s \in sessions : s.attempt # call[p].state
         /\ loginPc[p] \in {"exchanged", "validated"} => call[p].code.attempt = call[p].state
         /\ call[p].token # Nobody => /\ call[p].token \in drawn
                                      /\ startedIn[call[p].token] = call[p].browser
<1>1. Logins!CallBound(p) BY DEF Logins!IInv
<1>2. loginPc[p] \in Logins!Burned =>
        \A q \in Threads \ {p} : loginPc[q] \in Logins!Burned => call[q].state # call[p].state
  BY DEF Logins!IInv, Logins!OneHolder
<1>3. loginPc[p] \in Logins!Burned => \A s \in sessions : s.attempt # call[p].state
  BY DEF Logins!IInv, Logins!SessionsFinal
<1> QED BY <1>1, <1>2, <1>3, LoginTypes DEF Logins!CallBound

\* The attempt a callback takes has nobody else working on it.
LEMMA ConsumeKeeps ==
  ASSUME Logins!LoginAssumption, Logins!IInv, NEW p \in Threads, Logins!Consume(p)
  PROVE  Logins!IInv'
<1>1. /\ loginPc[p] = "admitted"
      /\ UNCHANGED <<expires, drawn, startedIn, codes, spent, sessions, audited, excused,
                     loginClock>>
  BY DEF Logins!Consume, Logins!resultVars, Logins!envVars
<1>2. loginPc[p] \notin Logins!Burned /\ loginPc[p] \in Logins!Burned \cup {"admitted"}
  BY <1>1 DEF Logins!Burned
<1>3. CASE ~Logins!Consumable(call[p])
  <2>1. Logins!Done(p) /\ cookie' = [cookie EXCEPT ![call[p].browser] = Nobody]
     /\ UNCHANGED attempts
    BY <1>3 DEF Logins!Consume, Logins!Answer
  <2> QED BY <1>1, <1>2, <2>1, EndKeeps
<1>4. CASE Logins!Consumable(call[p])
  <2> DEFINE c == call[p]
  <2>1. loginPc' = [loginPc EXCEPT ![p] = "consumed"] /\ attempts' = attempts \ {c.state}
     /\ UNCHANGED <<call, cookie>>
    BY <1>4 DEF Logins!Consume, Logins!Goto
  <2>2. c.state \in attempts /\ c.token = c.state BY <1>4 DEF Logins!Consumable
  <2>3. call' = [call EXCEPT ![p] = c] BY <2>1, LoginTypes
  <2>4. loginPc'[p] = "consumed" /\ call'[p] = c BY <2>1, LoginTypes
  <2>5. Logins!CallBound(p)'
    BY <1>1, <1>2, <2>1, <2>2, <2>4, CallFacts DEF Logins!CallBound, Logins!Burned
  <2>6. \A q \in Threads \ {p} : loginPc[q] \in Logins!Burned => call[q].state # c.state
    BY <2>2, CallFacts
  <2>7. \A s \in sessions' : s.attempt # c.state
    BY <1>1, <2>2 DEF Logins!IInv, Logins!SessionsFinal
  <2>8. "consumed" \in Logins!Locations /\ "consumed" \in Logins!Burned
    BY DEF Logins!Locations, Logins!Burned
  <2>9. /\ cookie' \in [Browsers -> drawn \cup {Nobody}]
        /\ \A b \in Browsers : cookie'[b] \in {cookie[b], Nobody}
        /\ spent' \subseteq codes
    BY <1>1, <2>1, LoginTypes
  <2> HIDE DEF c
  <2> QED BY <1>1, <1>2, <2>1, <2>3, <2>5, <2>6, <2>7, <2>8, <2>9, RequestKeeps
<1> QED BY <1>3, <1>4

\* A code is spent for the attempt its callback burned.
LEMMA ExchangeKeeps ==
  ASSUME Logins!LoginAssumption, Logins!IInv, NEW p \in Threads,
         Logins!Exchange(p) \/ Logins!Validate(p)
  PROVE  Logins!IInv'
<1> DEFINE c == call[p]
<1>1. /\ loginPc[p] \in {"consumed", "exchanged"} /\ loginPc[p] \in Logins!Burned
      /\ UNCHANGED <<attempts, expires, drawn, startedIn, cookie, codes, call, sessions, audited,
                     excused, loginClock>>
  BY DEF Logins!Exchange, Logins!Validate, Logins!resultVars, Logins!envVars, Logins!attemptVars,
     Logins!Burned
<1>2. /\ spent' \subseteq spent \cup {c.code} /\ spent \subseteq spent'
      /\ spent' # spent => c.code.attempt = c.state
  BY DEF Logins!Exchange, Logins!Validate, Logins!Exchangeable
<1>3. PICK to \in {"exchanged", "validated", "denied"} :
        loginPc' = [loginPc EXCEPT ![p] = to] /\ (to # "denied" => c.code.attempt = c.state)
  BY DEF Logins!Exchange, Logins!Validate, Logins!Goto, Logins!Exchangeable
<1>4. call' = [call EXCEPT ![p] = c] BY <1>1, LoginTypes
<1>5. loginPc'[p] = to /\ call'[p] = c BY <1>1, <1>3, LoginTypes
<1>6. Logins!CallBound(p)' BY <1>1, <1>3, <1>5, CallFacts DEF Logins!CallBound, Logins!Burned
<1>7. to \in Logins!Locations /\ to \in Logins!Burned BY DEF Logins!Locations, Logins!Burned
<1>8. /\ cookie' \in [Browsers -> drawn \cup {Nobody}]
      /\ \A b \in Browsers : cookie'[b] \in {cookie[b], Nobody}
  BY <1>1, LoginTypes
<1>9. spent' \subseteq codes /\ \A x \in spent' : x \in spent \/ x.attempt \notin attempts'
  BY <1>1, <1>2, CallFacts, LoginTypes
<1>10. \A q \in Threads \ {p} : loginPc[q] \in Logins!Burned => call[q].state # c.state
  BY <1>1, CallFacts
<1>11. \A s \in sessions' : s.attempt # c.state BY <1>1, CallFacts
<1> HIDE DEF c
<1> QED
  BY <1>1, <1>3, <1>4, <1>6, <1>7, <1>8, <1>9, <1>10, <1>11, RequestKeeps DEF c

\* The last transaction of a callback: a session, a denial, or neither.
LEMMA AnswerKeeps ==
  ASSUME Logins!LoginAssumption, Logins!IInv, NEW p \in Threads,
         Logins!RecordDenial(p) \/ Logins!IssueSession(p) \/ Logins!Fault(p)
  PROVE  Logins!IInv'
<1>1. CASE Logins!RecordDenial(p)
  <2>1. /\ loginPc[p] \in Logins!Burned /\ Logins!Done(p)
     /\ cookie' = [cookie EXCEPT ![call[p].browser] = Nobody]
        /\ audited' = audited \cup {call[p].state}
        /\ UNCHANGED <<attempts, expires, drawn, startedIn, codes, loginClock, spent, sessions,
                       excused>>
    BY <1>1 DEF Logins!RecordDenial, Logins!Answer, Logins!attemptVars, Logins!envVars,
       Logins!Burned
  <2> QED BY <2>1, EndKeeps
<1>2. CASE Logins!IssueSession(p)
  <2> DEFINE c == call[p]
             new == [attempt |-> c.state, browser |-> c.browser, user |-> c.code.user,
                     thread |-> p]
  <2>1. /\ loginPc[p] = "validated" /\ Logins!Done(p)
     /\ cookie' = [cookie EXCEPT ![call[p].browser] = Nobody]
        /\ audited' = audited \cup {c.state}
        /\ UNCHANGED <<attempts, expires, drawn, startedIn, codes, loginClock, spent, excused>>
        /\ sessions' \subseteq sessions \cup {new}
    BY <1>2 DEF Logins!IssueSession, Logins!Answer, Logins!attemptVars, Logins!envVars
  <2>2. loginPc[p] \in Logins!Burned BY <2>1 DEF Logins!Burned
  <2>3. /\ c.state \in drawn \ attempts /\ startedIn[c.state] = c.browser /\ c.code \in codes
        /\ c.code.attempt = c.state
        /\ \A q \in Threads \ {p} : loginPc[q] \in Logins!Burned => call[q].state # c.state
        /\ \A s \in sessions : s.attempt # c.state
    BY <2>1, <2>2, CallFacts
  <2>4. [attempt |-> c.state, user |-> c.code.user] = c.code BY <2>3, LoginTypes
  <2>5. new.attempt = c.state /\ new.browser = c.browser /\ new.user = c.code.user OBVIOUS
  <2> HIDE DEF new, c
  <2>6. \A s \in sessions' : \/ s \in sessions
                             \/ /\ s.attempt \in drawn \ attempts'
                                /\ startedIn[s.attempt] = s.browser
                                /\ [attempt |-> s.attempt, user |-> s.user] \in codes
                                /\ \A q \in Threads \ {p} : loginPc[q] \in Logins!Burned =>
                                     call[q].state # s.attempt
                                /\ \A x \in sessions' : x.attempt = s.attempt => x = s
    BY <2>1, <2>3, <2>4, <2>5
  <2> QED BY <2>1, <2>2, <2>6, EndKeeps DEF c
<1>3. CASE Logins!Fault(p)
  <2>1. /\ Logins!Done(p) /\ loginPc[p] # "idle"
        /\ \/ UNCHANGED cookie
           \/ loginPc[p] # "counted" /\ cookie' = [cookie EXCEPT ![call[p].browser] = Nobody]
        /\ excused \subseteq excused'
           /\ (loginPc[p] \in Logins!Burned => call[p].state \in excused')
        /\ UNCHANGED <<attempts, expires, drawn, startedIn, codes, loginClock, spent, sessions,
                       audited>>
    BY <1>3 DEF Logins!Fault, Logins!Answer, Logins!attemptVars, Logins!envVars, Logins!Burned
  <2>2. loginPc[p] \in {"idle", "counted"} \cup Logins!Burned \cup {"admitted"}
    BY LoginTypes DEF Logins!Locations, Logins!Burned
  <2> QED BY <2>1, <2>2, EndKeeps
<1> QED BY <1>1, <1>2, <1>3

\* A request arrives with the browser's cookie, or starts a login in it.
LEMMA ArriveKeeps ==
  ASSUME Logins!LoginAssumption, Logins!IInv, NEW p \in Threads,
         NEW to \in {"counted", "admitted"}, NEW c,
         loginPc[p] = "idle", loginPc' = [loginPc EXCEPT ![p] = to],
         call' = [call EXCEPT ![p] = c],
         c.browser \in Browsers,
         to = "admitted" => c.state \in drawn /\ c.code \in codes /\ c.token = cookie[c.browser],
         UNCHANGED <<attempts, expires, drawn, startedIn, cookie, codes, spent, sessions,
                     audited, excused, loginClock>>
  PROVE  Logins!IInv'
<1>1. loginPc[p] \notin Logins!Burned BY DEF Logins!Burned
<1>2. loginPc'[p] = to /\ call'[p] = c BY LoginTypes
<1>3. Logins!CallBound(p)'
  <2>1. c.token # Nobody /\ to = "admitted" => c.token \in drawn /\ startedIn[c.token] = c.browser
    BY LoginTypes DEF Logins!IInv, Logins!CookiesBound
  <2> QED BY <1>2, <2>1 DEF Logins!CallBound, Logins!Burned
<1>4. to \in Logins!Locations /\ to \notin Logins!Burned BY DEF Logins!Locations, Logins!Burned
<1>5. /\ cookie' \in [Browsers -> drawn \cup {Nobody}]
      /\ \A b \in Browsers : cookie'[b] \in {cookie[b], Nobody}
      /\ spent' \subseteq codes
  BY LoginTypes
<1> QED BY <1>1, <1>3, <1>4, <1>5, RequestKeeps

\* begin_login up to the count, and a callback that was admitted.
LEMMA StartKeeps ==
  ASSUME Logins!LoginAssumption, Logins!IInv, NEW p \in Threads,
         \/ \E b \in Browsers : Logins!CountPending(p, b)
         \/ \E b \in Browsers, s \in Attempts, c \in codes : Logins!Callback(p, b, s, c)
  PROVE  Logins!IInv'
<1>1. /\ loginPc[p] = "idle"
      /\ UNCHANGED <<attempts, expires, drawn, startedIn, cookie, codes, spent, sessions,
                     audited, excused, loginClock>>
  BY DEF Logins!CountPending, Logins!Callback, Logins!attemptVars, Logins!resultVars,
     Logins!envVars
<1>2. ASSUME NEW b \in Browsers, Logins!CountPending(p, b) PROVE Logins!IInv'
  <2> DEFINE q == [Logins!NoCall EXCEPT !.browser = b]
  <2>1. loginPc' = [loginPc EXCEPT ![p] = "counted"] /\ call' = [call EXCEPT ![p] = q]
    BY <1>2 DEF Logins!CountPending, Logins!Goto
  <2>2. q.browser \in Browsers BY DEF Logins!NoCall
  <2> HIDE DEF q
  <2> QED BY <1>1, <2>1, <2>2, ArriveKeeps
<1>3. ASSUME NEW b \in Browsers, NEW s \in Attempts, NEW c \in codes, Logins!Callback(p, b, s, c)
      PROVE  Logins!IInv'
  <2> DEFINE q == [state |-> s, token |-> cookie[b], code |-> c, browser |-> b]
  <2>1. loginPc' = [loginPc EXCEPT ![p] = "admitted"] /\ call' = [call EXCEPT ![p] = q]
     /\ s \in drawn
    BY <1>3 DEF Logins!Callback, Logins!Goto
  <2>2. q.browser = b /\ q.state = s /\ q.code = c /\ q.token = cookie[b] OBVIOUS
  <2> HIDE DEF q
  <2> QED BY <1>1, <2>1, <2>2, ArriveKeeps
<1> QED BY <1>2, <1>3

\* A drawn attempt is new to every cookie, link, code and session; the purge
\* only takes attempts that expired.
LEMMA IssueKeeps ==
  ASSUME Logins!LoginAssumption, Logins!IInv, NEW p \in Threads, NEW a \in Attempts,
         Logins!IssueAttempt(p, a)
  PROVE  Logins!IInv'
<1> DEFINE b == call[p].browser
<1>1. /\ loginPc[p] = "counted" /\ a \notin drawn /\ drawn' = drawn \cup {a}
      /\ attempts' = {x \in attempts : expires[x] > loginClock} \cup {a}
      /\ expires' = [expires EXCEPT ![a] = loginClock + LoginLifetime]
      /\ startedIn' = [startedIn EXCEPT ![a] = b] /\ cookie' = [cookie EXCEPT ![b] = a]
      /\ loginPc' = [loginPc EXCEPT ![p] = "idle"] /\ call' = [call EXCEPT ![p] = Logins!NoCall]
      /\ UNCHANGED <<codes, spent, sessions, audited, excused, loginClock>>
  BY DEF Logins!IssueAttempt, Logins!Done, Logins!Goto, Logins!resultVars, Logins!envVars
<1>2. b \in Browsers
  <2>1. Logins!CallBound(p) BY DEF Logins!IInv
  <2> QED BY <1>1, <2>1 DEF Logins!CallBound
<1> HIDE DEF b
<1>3. /\ loginPc' \in [Threads -> Logins!Locations] /\ loginPc'[p] = "idle"
      /\ \A q \in Threads \ {p} : loginPc'[q] = loginPc[q] /\ call'[q] = call[q]
      /\ call' = [q \in Threads |-> call'[q]]
  BY <1>1, LoginTypes DEF Logins!Locations
<1>4. /\ startedIn' \in [Attempts -> Browsers \cup {Nobody}] /\ startedIn'[a] = b
      /\ expires' \in [Attempts -> Nat]
      /\ \A x \in drawn : startedIn'[x] = startedIn[x] /\ expires'[x] = expires[x]
      /\ \A x \in drawn : x \in attempts' => x \in attempts
      /\ \A x \in attempts \ attempts' : expires[x] <= loginClock
  <2>1. \A x \in drawn : x \in Attempts /\ x # a /\ expires[x] \in Nat BY <1>1, LoginTypes
  <2>2. attempts \subseteq drawn /\ loginClock \in Nat BY LoginTypes
  <2>3. LoginLifetime \in Nat BY DEF Logins!LoginAssumption
  <2> QED BY <1>1, <1>2, <2>1, <2>2, <2>3, LoginTypes
<1>5. Logins!Typed'
  <2>1. cookie' \in [Browsers -> drawn' \cup {Nobody}] BY <1>1, LoginTypes
  <2>2. attempts' \subseteq drawn' /\ drawn' \subseteq Attempts BY <1>1, LoginTypes
  <2>3. codes' \subseteq [attempt : drawn', user : Users]
    <3>1. codes \subseteq [attempt : drawn, user : Users] /\ drawn \subseteq drawn'
      BY <1>1, LoginTypes
    <3> QED BY <1>1, <3>1
  <2>4. spent' \subseteq codes' /\ loginClock' \in Nat BY <1>1, LoginTypes
  <2> QED BY <1>3, <1>4, <2>1, <2>2, <2>3, <2>4 DEF Logins!Typed
<1>6. Logins!CookiesBound'
  <2>1. ASSUME NEW x \in Browsers, cookie'[x] # Nobody PROVE startedIn'[cookie'[x]] = x
    <3>1. CASE x = b BY <1>1, <1>4, <3>1, LoginTypes
    <3>2. CASE x # b
      <4>1. cookie'[x] = cookie[x] /\ cookie[x] \in drawn BY <1>1, <2>1, <3>2, LoginTypes
      <4> QED BY <2>1, <4>1, <1>4 DEF Logins!IInv, Logins!CookiesBound
    <3> QED BY <3>1, <3>2
  <2> QED BY <2>1 DEF Logins!CookiesBound
<1>7. \A q \in Threads : Logins!CallBound(q)'
  <2>1. Logins!CallBound(p)' BY <1>3 DEF Logins!CallBound, Logins!Burned
  <2>2. ASSUME NEW q \in Threads \ {p} PROVE Logins!CallBound(q)'
    <3>1. Logins!CallBound(q) BY DEF Logins!IInv
    <3>2. loginPc'[q] = loginPc[q] /\ call'[q] = call[q] BY <1>3
    <3>3. drawn \subseteq drawn' /\ codes' = codes BY <1>1
    <3> QED BY <1>4, <3>1, <3>2, <3>3 DEF Logins!CallBound
  <2> QED BY <2>1, <2>2
<1>8. "idle" \notin Logins!Burned /\ loginPc[p] \notin Logins!Burned BY <1>1 DEF Logins!Burned
<1>9. Logins!OneHolder' BY <1>3, <1>8 DEF Logins!IInv, Logins!OneHolder
<1>10. Logins!SessionsFinal' BY <1>1, <1>3, <1>4, <1>8 DEF Logins!IInv, Logins!SessionsFinal
<1>11. Logins!LoginsBound'
  <2>1. \A s \in sessions : s.attempt \in drawn BY DEF Logins!IInv, Logins!SessionsFinal
  <2>2. Logins!SignedInAsStarted'
    BY <1>1, <1>4, <2>1 DEF Logins!IInv, Logins!LoginsBound, Logins!SignedInAsStarted
  <2>3. \A s, t \in sessions' : s.attempt = t.attempt => s = t
    BY <1>1 DEF Logins!IInv, Logins!LoginsBound, Logins!OneSessionPerAttempt
  <2>4. Logins!OneSessionPerAttempt'
    BY <1>9, <2>3 DEF Logins!OneSessionPerAttempt, Logins!OneHolder, Logins!Burned
  <2>5. \A x \in spent' : x.attempt \notin attempts'
    <3>1. ASSUME NEW x \in spent PROVE x.attempt \in drawn /\ x.attempt \notin attempts
      BY LoginTypes DEF Logins!IInv, Logins!LoginsBound, Logins!BurnedBeforeExchange
    <3> QED BY <1>1, <1>4, <3>1
  <2>6. Logins!BurnedBeforeExchange'
    BY <1>10, <2>5 DEF Logins!BurnedBeforeExchange, Logins!SessionsFinal
  <2> QED BY <2>2, <2>4, <2>6 DEF Logins!LoginsBound
<1>12. Logins!BurnedIsAudited'
  <2> SUFFICES ASSUME NEW x \in drawn' \ attempts', x \notin audited' \cup excused',
                      ~(expires'[x] <= loginClock')
               PROVE  \E q \in Threads : call'[q].state = x /\ loginPc'[q] \in Logins!Burned
    BY DEF Logins!BurnedIsAudited, Logins!Burned
  <2>1. x \in drawn BY <1>1
  <2>2. x \notin attempts BY <1>1, <1>4, <2>1
  <2>3. PICK q \in Threads : call[q].state = x /\ loginPc[q] \in Logins!Burned
    BY <1>1, <1>4, <2>1, <2>2, LoginTypes DEF Logins!IInv, Logins!BurnedIsAudited, Logins!Burned,
       Logins!Locations
  <2> QED BY <1>3, <1>8, <2>3
<1> QED BY <1>5, <1>6, <1>7, <1>9, <1>10, <1>11, <1>12 DEF Logins!IInv

\* More codes, changed access and time take nothing from the invariant.
LEMMA OutsideKeeps ==
  ASSUME Logins!LoginAssumption, Logins!IInv, codes \subseteq codes',
         codes' \subseteq [attempt : drawn, user : Users],
         loginClock' \in Nat, loginClock' >= loginClock,
         UNCHANGED <<attempts, expires, drawn, startedIn, cookie, spent, sessions, audited,
                     excused, loginPc, call>>
  PROVE  Logins!IInv'
<1>1. Logins!Typed' BY LoginTypes DEF Logins!Typed
<1>2. Logins!CookiesBound' BY DEF Logins!IInv, Logins!CookiesBound
<1>3. \A q \in Threads : Logins!CallBound(q)' BY DEF Logins!IInv, Logins!CallBound
<1>4. Logins!OneHolder' /\ Logins!SessionsFinal'
  BY DEF Logins!IInv, Logins!OneHolder, Logins!SessionsFinal
<1>5. Logins!LoginsBound'
  BY DEF Logins!IInv, Logins!LoginsBound, Logins!SignedInAsStarted, Logins!OneSessionPerAttempt,
     Logins!BurnedBeforeExchange
<1>6. Logins!BurnedIsAudited'
  <2>1. \A a \in drawn : expires[a] \in Nat BY LoginTypes
  <2> QED BY <2>1, LoginTypes DEF Logins!IInv, Logins!BurnedIsAudited
<1> QED BY <1>1, <1>2, <1>3, <1>4, <1>5, <1>6 DEF Logins!IInv

\* No row, code, session or request yet.
LEMMA LoginInit == ASSUME Logins!LoginAssumption, Logins!Init PROVE Logins!IInv
<1>1. Logins!Typed BY DEF Logins!Init, Logins!Typed, Logins!Locations
<1>2. Logins!CookiesBound BY DEF Logins!Init, Logins!CookiesBound
<1>3. \A p \in Threads : loginPc[p] = "idle" /\ loginPc[p] \notin Logins!Burned
  BY DEF Logins!Init, Logins!Burned
<1>4. \A p \in Threads : Logins!CallBound(p) BY <1>3 DEF Logins!CallBound, Logins!Burned
<1>5. Logins!OneHolder BY <1>3 DEF Logins!OneHolder
<1>6. Logins!SessionsFinal BY DEF Logins!Init, Logins!SessionsFinal
<1>7. Logins!OneSessionPerAttempt BY <1>3 DEF Logins!Init, Logins!OneSessionPerAttempt
<1>8. Logins!LoginsBound
  BY <1>7 DEF Logins!Init, Logins!LoginsBound, Logins!SignedInAsStarted,
     Logins!BurnedBeforeExchange
<1>9. Logins!BurnedIsAudited BY DEF Logins!Init, Logins!BurnedIsAudited
<1> QED BY <1>1, <1>2, <1>4, <1>5, <1>6, <1>8, <1>9 DEF Logins!IInv

\* Every step keeps the invariant.
LEMMA LoginNext ==
  ASSUME Logins!LoginAssumption, Logins!IInv, [Logins!Next]_Logins!vars
  PROVE  Logins!IInv'
<1>1. ASSUME NEW p \in Threads, \/ \E b \in Browsers : Logins!CountPending(p, b)
                                \/ \E b \in Browsers, s \in Attempts, c \in codes :
                                     Logins!Callback(p, b, s, c)
      PROVE  Logins!IInv'
  BY <1>1, StartKeeps
<1>2. ASSUME NEW p \in Threads, NEW a \in Attempts, Logins!IssueAttempt(p, a) PROVE Logins!IInv'
  BY <1>2, IssueKeeps
<1>3. ASSUME NEW p \in Threads, Logins!Consume(p) PROVE Logins!IInv' BY <1>3, ConsumeKeeps
<1>4. ASSUME NEW p \in Threads, Logins!Exchange(p) \/ Logins!Validate(p) PROVE Logins!IInv'
  BY <1>4, ExchangeKeeps
<1>5. ASSUME NEW p \in Threads,
             Logins!RecordDenial(p) \/ Logins!IssueSession(p) \/ Logins!Fault(p)
      PROVE  Logins!IInv'
  BY <1>5, AnswerKeeps
<1>6. ASSUME NEW a \in Attempts, NEW u \in Users, Logins!Authenticate(a, u) PROVE Logins!IInv'
  <2>1. /\ a \in drawn /\ codes' = codes \cup {[attempt |-> a, user |-> u]}
        /\ UNCHANGED <<attempts, expires, drawn, startedIn, cookie, spent, sessions, audited,
                       excused, loginPc, call, loginClock>>
    BY <1>6 DEF Logins!Authenticate, Logins!attemptVars, Logins!resultVars, Logins!envVars
  <2>2. codes' \subseteq [attempt : drawn, user : Users] BY <2>1, LoginTypes
  <2> QED BY <2>1, <2>2, OutsideKeeps, LoginTypes
<1>7. ASSUME (\E u \in Users : Logins!ChangeAccess(u)) \/ Logins!Tick \/ UNCHANGED Logins!vars
      PROVE  Logins!IInv'
  <2>1. /\ loginClock' \in {loginClock, loginClock + 1}
        /\ UNCHANGED <<attempts, expires, drawn, startedIn, cookie, codes, spent, sessions,
                       audited, excused, loginPc, call>>
    BY <1>7 DEF Logins!ChangeAccess, Logins!Tick, Logins!vars, Logins!attemptVars,
       Logins!resultVars, Logins!envVars
  <2>2. loginClock' \in Nat /\ loginClock' >= loginClock BY <2>1, LoginTypes
  <2> QED BY <2>1, <2>2, OutsideKeeps, LoginTypes
<1> QED BY <1>1, <1>2, <1>3, <1>4, <1>5, <1>6, <1>7 DEF Logins!Next

-----------------------------------------------------------------------------
\* However validations, fetches and rotations interleave, no token is accepted
\* on a key withdrawn longer than a cache lifetime ago, and the fetches of one
\* process keep their distance.
THEOREM KeysSafe == Spec => []KeysForgotten
<1> DEFINE Inv == part = "keys" => Keys!IInv
<1> USE IdentityAssumptions
<1>1. Init => Inv BY KeyInit DEF Init
<1>2. Inv /\ [Next]_vars => Inv'
  <2> SUFFICES ASSUME Inv, [Next]_vars, part' = "keys" PROVE Keys!IInv' OBVIOUS
  <2>1. part = "keys" /\ [Keys!Next]_Keys!vars
    BY DEF Next, vars, keyVars, Keys!vars, Keys!cache, Keys!thread
  <2> QED BY <2>1, KeyNext
<1>3. Inv => KeysForgotten BY DEF KeysForgotten, Keys!IInv
<1> QED BY <1>1, <1>2, <1>3, PTL DEF Spec

\* The invariant of the logins holds in every run of the composition.
LEMMA LoginInvariant == Spec => [](part = "logins" => Logins!IInv)
<1> DEFINE Inv == part = "logins" => Logins!IInv
<1> USE IdentityAssumptions
<1>1. Init => Inv BY LoginInit DEF Init
<1>2. Inv /\ [Next]_vars => Inv'
  <2> SUFFICES ASSUME Inv, [Next]_vars, part' = "logins" PROVE Logins!IInv' OBVIOUS
  <2>1. part = "logins" /\ [Logins!Next]_Logins!vars
    BY DEF Next, vars, loginVars, Logins!vars, Logins!attemptVars, Logins!resultVars,
           Logins!envVars
  <2> QED BY <2>1, LoginNext
<1> QED BY <1>1, <1>2, PTL DEF Spec

\* Whatever links, codes and cookies are mixed up or delivered twice, a browser
\* is signed in at most once per attempt, as who authenticated for an attempt
\* started in that browser, and an attempt is burned before its code is spent.
THEOREM LoginsSafe == Spec => []LoginsBound
<1>1. (part = "logins" => Logins!IInv) => LoginsBound BY DEF LoginsBound, Logins!IInv
<1> QED BY <1>1, LoginInvariant, PTL

\* A burned attempt nobody works on any more left a session event or a denial
\* event, unless the database refused even that.
THEOREM AuditSafe == Spec => []BurnedIsAudited
<1>1. (part = "logins" => Logins!IInv) => BurnedIsAudited BY DEF BurnedIsAudited, Logins!IInv
<1> QED BY <1>1, LoginInvariant, PTL

-----------------------------------------------------------------------------
(* Counting *)

\* Every set of numbers that is not empty has a least one.
LEMMA Least ==
  ASSUME NEW S, S \subseteq Nat, S # {}
  PROVE  \E m \in S : \A k \in S : m <= k
<1>1. PICK x \in S : \A y \in S : <<y, x>> \notin OpToRel(<, Nat)
  BY NatLessThanWellFounded, WFMin
<1>2. ASSUME NEW y \in Nat, y < x PROVE <<y, x>> \in OpToRel(<, Nat)
  BY <1>2 DEF OpToRel
<1>3. \A y \in S : ~(y < x) BY <1>1, <1>2
<1>4. \A y \in S : x <= y BY <1>3
<1> QED BY <1>4

\* Induction, for a set: one that holds 0 and the successor of each element is Nat.
LEMMA Successors ==
  ASSUME NEW S, S \subseteq Nat, 0 \in S, \A n \in S : n + 1 \in S
  PROVE  \A n \in Nat : n \in S
<1> SUFFICES ASSUME NEW n \in Nat, n \notin S PROVE FALSE OBVIOUS
<1> DEFINE missing == Nat \ S
<1>1. PICK m \in missing : \A k \in missing : m <= k
  <2>1. missing \subseteq Nat /\ missing # {} OBVIOUS
  <2> HIDE DEF missing
  <2> QED BY <2>1, Least
<1>2. m # 0 /\ m \in Nat /\ m \notin S OBVIOUS
<1>3. m - 1 \in Nat /\ m - 1 \in S BY <1>1, <1>2
<1>4. (m - 1) + 1 = m BY <1>2
<1> QED BY <1>2, <1>3, <1>4

\* Numbers less than L apart are at most L.
LEMMA CloseTogether ==
  ASSUME NEW X, X \subseteq Nat, NEW L \in Nat, \A i, j \in X : j - i < L
  PROVE  IsFiniteSet(X) /\ Cardinality(X) <= L
<1>1. CASE X = {} BY <1>1, FS_EmptySet
<1>2. CASE X # {}
  <2>1. PICK m \in X : \A k \in X : m <= k BY <1>2, Least
  <2>2. m - m < L /\ m \in Nat OBVIOUS
  <2> DEFINE top == m + L - 1
  <2>3. X \subseteq m .. top /\ top \in Int /\ m <= top BY <2>1, <2>2
  <2>4. IsFiniteSet(m .. top) /\ Cardinality(m .. top) = L BY <2>2, <2>3, FS_Interval
  <2> QED BY <2>3, <2>4, FS_Subset, FS_CardinalityType
<1> QED BY <1>1, <1>2

\* A numbering of places goes on with a place behind them.
LEMMA NumberedFurther ==
  ASSUME NEW m \in Nat, NEW H, H \subseteq 1 .. m, NEW k \in Nat, NEW f \in [1 .. k -> H],
         \A i, j \in 1 .. k : i < j => f[i] < f[j]
  PROVE  \E g \in [1 .. k + 1 -> H \cup {m + 1}] :
           \A i, j \in 1 .. k + 1 : i < j => g[i] < g[j]
<1> DEFINE g == [i \in 1 .. k + 1 |-> IF i = k + 1 THEN m + 1 ELSE f[i]]
<1>1. \A i \in 1 .. k + 1 : i \in 1 .. k \/ i = k + 1 OBVIOUS
<1>2. \A i \in 1 .. k : g[i] = f[i] /\ f[i] \in H /\ f[i] \in Nat /\ f[i] <= m
  <2>1. \A i \in 1 .. k : g[i] = f[i] OBVIOUS
  <2>2. \A i \in 1 .. k : f[i] \in H OBVIOUS
  <2>3. \A x \in H : x \in Nat /\ x <= m OBVIOUS
  <2> HIDE DEF g
  <2> QED BY <2>1, <2>2, <2>3
<1>3. g[k + 1] = m + 1 OBVIOUS
<1>4. g \in [1 .. k + 1 -> H \cup {m + 1}] BY <1>1, <1>2
<1>5. ASSUME NEW i \in 1 .. k + 1, NEW j \in 1 .. k + 1, i < j PROVE g[i] < g[j]
  <2> HIDE DEF g
  <2>1. i \in 1 .. k BY <1>5
  <2>2. CASE j \in 1 .. k BY <1>2, <1>5, <2>1, <2>2
  <2>3. CASE j = k + 1 BY <1>2, <1>3, <2>1, <2>3
  <2> QED BY <1>1, <2>2, <2>3
<1> QED BY <1>4, <1>5

\* The places K of a table can be numbered in their order.
LEMMA Numbering ==
  ASSUME NEW n \in Nat, NEW K, K \subseteq 1 .. n
  PROVE  /\ IsFiniteSet(K) /\ Cardinality(K) \in Nat /\ Cardinality(K) <= n
         /\ \E f \in [1 .. Cardinality(K) -> K] :
              \A i, j \in 1 .. Cardinality(K) : i < j => f[i] < f[j]
<1> DEFINE Ordered(J) == \E f \in [1 .. Cardinality(J) -> J] :
                            \A i, j \in 1 .. Cardinality(J) : i < j => f[i] < f[j]
           Counted(m, J) == IsFiniteSet(J) /\ Cardinality(J) \in Nat /\ Cardinality(J) <= m
           S == {m \in Nat : \A J \in SUBSET (1 .. m) : Counted(m, J) /\ Ordered(J)}
<1>1. 0 \in S
  <2>1. \A J \in SUBSET (1 .. 0) : J = {} OBVIOUS
  <2>2. Counted(0, {}) /\ Cardinality({}) = 0 BY FS_EmptySet
  <2>3. Ordered({})
    <3>1. [i \in 1 .. 0 |-> 0] \in [1 .. 0 -> {}] OBVIOUS
    <3> QED BY <2>2, <3>1
  <2> HIDE DEF Ordered, Counted
  <2> QED BY <2>1, <2>2, <2>3
<1>2. ASSUME NEW m \in Nat, m \in S PROVE m + 1 \in S
  <2> SUFFICES ASSUME NEW J \in SUBSET (1 .. m + 1) PROVE Counted(m + 1, J) /\ Ordered(J)
    OBVIOUS
  <2>1. \A H \in SUBSET (1 .. m) : Counted(m, H) /\ Ordered(H)
    <3> HIDE DEF Counted, Ordered
    <3> QED BY <1>2
  <2>2. CASE m + 1 \notin J
    <3>1. J \in SUBSET (1 .. m) BY <2>2
    <3> QED BY <2>1, <3>1
  <2>3. CASE m + 1 \in J
    <3>1. PICK H \in SUBSET (1 .. m) : J = H \cup {m + 1} /\ m + 1 \notin H
      <4>1. J \ {m + 1} \in SUBSET (1 .. m) OBVIOUS
      <4>2. J = (J \ {m + 1}) \cup {m + 1} BY <2>3
      <4> QED BY <4>1, <4>2
    <3>2. Counted(m, H) /\ Ordered(H) BY <2>1
    <3>3. IsFiniteSet(J) /\ Cardinality(J) = Cardinality(H) + 1 BY <3>1, <3>2, FS_AddElement
    <3>4. PICK f \in [1 .. Cardinality(H) -> H] :
            \A i, j \in 1 .. Cardinality(H) : i < j => f[i] < f[j]
      BY <3>2
    <3>5. \E g \in [1 .. Cardinality(H) + 1 -> H \cup {m + 1}] :
            \A i, j \in 1 .. Cardinality(H) + 1 : i < j => g[i] < g[j]
      <4> DEFINE k == Cardinality(H)
      <4>1. k \in Nat /\ f \in [1 .. k -> H] /\ \A i, j \in 1 .. k : i < j => f[i] < f[j]
        BY <3>2, <3>4
      <4>2. H \subseteq 1 .. m OBVIOUS
      <4> HIDE DEF k
      <4>3. \E g \in [1 .. k + 1 -> H \cup {m + 1}] :
              \A i, j \in 1 .. k + 1 : i < j => g[i] < g[j]
        BY <4>1, <4>2, NumberedFurther
      <4> QED BY <4>3 DEF k
    <3>6. Ordered(J) BY <3>1, <3>3, <3>5
    <3> QED BY <3>2, <3>3, <3>6
  <2> QED BY <2>2, <2>3
<1>3. n \in S
  <2>1. S \subseteq Nat OBVIOUS
  <2> HIDE DEF S
  <2> QED BY <1>1, <1>2, <2>1, Successors
<1> QED BY <1>3

-----------------------------------------------------------------------------
(* Local operator: the throttles *)

\* The component's own copy of FiniteSets is the library's.
LEMMA OperatorSets ==
  ASSUME NEW S
  PROVE  (Operator!IsFiniteSet(S) <=> IsFiniteSet(S)) /\ Operator!Cardinality(S) = Cardinality(S)
BY DEF Operator!IsFiniteSet, IsFiniteSet, Operator!Cardinality, Cardinality

\* What popleft leaves is the deque without entries that are all outside the window.
LEMMA RemainingFacts ==
  ASSUME NEW log \in Seq(Nat), NEW moment \in Nat
  PROVE  \E c \in 0 .. Len(log) :
           /\ Operator!Remaining(log, moment) = SubSeq(log, c + 1, Len(log))
           /\ \A k \in 1 .. c : log[k] + TryWindow <= moment
<1> DEFINE n == Len(log)
           old == {k \in 1 .. n : \A j \in 1 .. k : log[j] + TryWindow <= moment}
           others == (1 .. n + 1) \ old
<1>1. n \in Nat OBVIOUS
<1>2. PICK m \in others : \A k \in others : m <= k
  <2>1. others \subseteq Nat /\ n + 1 \in others BY <1>1
  <2> HIDE DEF others
  <2> QED BY <2>1, Least
<1> DEFINE c == m - 1
<1>3. c \in 0 .. n /\ m \in 1 .. n + 1 /\ m \notin old BY <1>1
<1>4. \A k \in 1 .. c : k \in old
  <2> HIDE DEF old
  <2> QED BY <1>1, <1>2, <1>3
<1>5. \A k \in old : k \in 1 .. c
  <2> SUFFICES ASSUME NEW k \in old, k > c PROVE FALSE BY <1>1, <1>3
  <2>1. k \in 1 .. n /\ m \in 1 .. k BY <1>1, <1>3
  <2>2. \A j \in 1 .. m : j \in 1 .. k BY <2>1
  <2>3. m \in old BY <1>1, <2>1, <2>2
  <2> QED BY <1>3, <2>3
<1>6. old = 1 .. c BY <1>4, <1>5
<1>7. Operator!Cardinality(old) = c
  <2> HIDE DEF old
  <2> QED BY <1>3, <1>6, FS_Interval, OperatorSets
<1>8. Operator!Remaining(log, moment) = SubSeq(log, c + 1, n) BY <1>7 DEF Operator!Remaining
<1>9. \A k \in 1 .. c : log[k] + TryWindow <= moment BY <1>3, <1>4
<1> QED BY <1>3, <1>8, <1>9

\* Forgetting old entries and adding the latest attempt keep what a throttle knows.
LEMMA RemainingRemembers ==
  ASSUME Operator!OperatorAssumption, NEW log \in Seq(Nat), NEW past \in Seq(Nat),
         NEW now \in Nat, NEW moment \in Nat, moment <= now,
         Operator!Remembers(log, past, now)
  PROVE  /\ Operator!Remaining(log, moment) \in Seq(Nat)
         /\ Operator!Remembers(Operator!Remaining(log, moment), past, now)
<1> DEFINE n == Len(log)
           rest == Operator!Remaining(log, moment)
           gone == Len(past) - n
<1>1. n \in Nat /\ Len(past) \in Nat /\ gone \in Nat /\ TryLag \in Nat /\ TryWindow \in Nat
      /\ TryLag < TryWindow
  BY DEF Operator!Remembers, Operator!OperatorAssumption
<1>2. PICK c \in 0 .. n : /\ rest = SubSeq(log, c + 1, n)
                          /\ \A k \in 1 .. c : log[k] + TryWindow <= moment
  BY RemainingFacts
<1>3. /\ rest \in Seq(Nat) /\ Len(rest) = n - c
      /\ \A i \in 1 .. n - c : rest[i] = log[c + i]
  <2>1. \A i \in c + 1 .. n : log[i] \in Nat BY <1>1
  <2>2. c + 1 \in Int /\ n \in Int BY <1>1
  <2>3. /\ SubSeq(log, c + 1, n) \in Seq(Nat)
        /\ Len(SubSeq(log, c + 1, n)) = IF c + 1 <= n THEN n - (c + 1) + 1 ELSE 0
        /\ \A i \in 1 .. n - (c + 1) + 1 : SubSeq(log, c + 1, n)[i] = log[(c + 1) + i - 1]
    <3> HIDE DEF n
    <3> QED BY <2>1, <2>2, SubSeqProperties
  <2> HIDE DEF n, rest
  <2> QED BY <1>1, <1>2, <2>3
<1>4. /\ \A k \in 1 .. Len(past) : past[k] <= now /\ past[k] \in Nat
      /\ \A i \in 1 .. n : log[i] + TryLag >= past[gone + i] /\ log[i] \in Nat
      /\ \A k \in 1 .. gone : past[k] + (TryWindow - TryLag) <= now
  BY DEF Operator!Remembers
<1> HIDE DEF n, gone, rest
<1>5. gone + c \in Nat /\ gone + c + (n - c) = Len(past) BY <1>1 DEF gone
<1>6. \A i \in 1 .. n - c : rest[i] + TryLag >= past[gone + c + i]
  <2> SUFFICES ASSUME NEW i \in 1 .. n - c PROVE rest[i] + TryLag >= past[gone + c + i] OBVIOUS
  <2>1. c + i \in 1 .. n /\ gone + (c + i) = gone + c + i BY <1>1
  <2> QED BY <1>3, <1>4, <2>1
<1>7. \A k \in 1 .. gone + c : past[k] + (TryWindow - TryLag) <= now
  <2> SUFFICES ASSUME NEW k \in 1 .. gone + c PROVE past[k] + (TryWindow - TryLag) <= now OBVIOUS
  <2>1. CASE k \in 1 .. gone BY <1>4, <2>1
  <2>2. CASE k \notin 1 .. gone
    <3>1. PICK i \in 1 .. c : k = gone + i BY <1>1, <2>2
    <3>2. i \in 1 .. n /\ k \in 1 .. Len(past) BY <1>1, <1>5
    <3>3. log[i] + TryWindow <= moment /\ log[i] + TryLag >= past[k] BY <1>2, <1>4, <3>1, <3>2
    <3>4. log[i] \in Nat /\ past[k] \in Nat BY <1>4, <3>2
    <3>5. \A a, b \in Nat : a + TryWindow <= moment /\ a + TryLag >= b
                           => b + (TryWindow - TryLag) <= now
      BY <1>1
    <3> QED BY <3>3, <3>4, <3>5
  <2> QED BY <2>1, <2>2
<1>8. Len(past) - Len(rest) = gone + c BY <1>1, <1>3 DEF gone
<1>9. Operator!Remembers(rest, past, now)
  <2> DEFINE left == Len(past) - Len(rest)
  <2>1. left >= 0 /\ left = gone + c BY <1>5, <1>8
  <2>2. \A i \in 1 .. Len(rest) : rest[i] + TryLag >= past[left + i] BY <1>3, <1>6, <2>1
  <2>3. \A k \in 1 .. left : past[k] + (TryWindow - TryLag) <= now BY <1>7, <2>1
  <2> QED BY <1>4, <2>1, <2>2, <2>3 DEF Operator!Remembers
<1> QED BY <1>3, <1>9 DEF rest

\* An attempt that passes comes when all but the latest Limit - 1 are forgotten.
LEMMA PassRemembers ==
  ASSUME Operator!OperatorAssumption, NEW log \in Seq(Nat), NEW past \in Seq(Nat),
         NEW now \in Nat, NEW moment \in Nat, moment + TryLag >= now, Len(log) < TryLimit,
         Operator!Remembers(log, past, now), Operator!Spaced(past)
  PROVE  /\ Operator!Remembers(Append(log, moment), Append(past, now), now)
         /\ Operator!Spaced(Append(past, now))
<1> DEFINE e == Len(log)
           n == Len(past)
           log2 == Append(log, moment)
           past2 == Append(past, now)
<1>1. e \in Nat /\ n \in Nat /\ n - e \in Nat /\ TryLag \in Nat /\ TryWindow \in Nat
      /\ TryLag < TryWindow /\ TryLimit \in Nat /\ e < TryLimit
  BY DEF Operator!Remembers, Operator!OperatorAssumption
<1>2. /\ \A k \in 1 .. n : past[k] <= now /\ past[k] \in Nat
      /\ \A i \in 1 .. e : log[i] + TryLag >= past[(n - e) + i]
      /\ \A k \in 1 .. n - e : past[k] + (TryWindow - TryLag) <= now
  BY DEF Operator!Remembers
<1>3. /\ Len(log2) = e + 1 /\ log2[e + 1] = moment /\ \A i \in 1 .. e : log2[i] = log[i]
      /\ Len(past2) = n + 1 /\ past2[n + 1] = now /\ \A i \in 1 .. n : past2[i] = past[i]
  BY AppendProperties
<1> HIDE DEF log2, past2
<1>4. /\ \A i \in 1 .. e + 1 : i \in 1 .. e \/ i = e + 1
      /\ \A i \in 1 .. n + 1 : i \in 1 .. n \/ i = n + 1
  BY <1>1
<1>5. Operator!Remembers(log2, past2, now)
  <2> DEFINE gone == Len(past2) - Len(log2)
  <2>1. gone = n - e BY <1>1, <1>3
  <2>2. \A k \in 1 .. n + 1 : past2[k] <= now
    <3> SUFFICES ASSUME NEW k \in 1 .. n + 1 PROVE past2[k] <= now OBVIOUS
    <3>1. CASE k \in 1 .. n BY <1>2, <1>3, <3>1
    <3>2. CASE k = n + 1 BY <1>3, <3>2
    <3> QED BY <1>4, <3>1, <3>2
  <2>3. \A i \in 1 .. e + 1 : log2[i] + TryLag >= past2[(n - e) + i]
    <3> SUFFICES ASSUME NEW i \in 1 .. e + 1 PROVE log2[i] + TryLag >= past2[(n - e) + i] OBVIOUS
    <3>1. CASE i \in 1 .. e
      <4>1. (n - e) + i \in 1 .. n BY <1>1, <3>1
      <4> QED BY <1>2, <1>3, <3>1, <4>1
    <3>2. CASE i = e + 1
      <4>1. (n - e) + i = n + 1 BY <1>1, <3>2
      <4> QED BY <1>3, <3>2, <4>1
    <3> QED BY <1>4, <3>1, <3>2
  <2>4. \A k \in 1 .. n - e : past2[k] + (TryWindow - TryLag) <= now
    <3>1. \A k \in 1 .. n - e : k \in 1 .. n BY <1>1
    <3> QED BY <1>2, <1>3, <3>1
  <2>5. /\ gone >= 0
        /\ \A k \in 1 .. Len(past2) : past2[k] <= now
        /\ \A i \in 1 .. Len(log2) : log2[i] + TryLag >= past2[gone + i]
        /\ \A k \in 1 .. gone : past2[k] + (TryWindow - TryLag) <= now
    <3> HIDE DEF gone, e, n
    <3> QED BY <1>1, <1>3, <2>1, <2>2, <2>3, <2>4
  <2> QED BY <2>5 DEF Operator!Remembers
<1>6. Operator!Spaced(past2)
  <2> SUFFICES ASSUME NEW j \in 1 .. n + 1, NEW k \in 1 .. n + 1, k - j >= TryLimit
               PROVE  past2[j] + (TryWindow - TryLag) <= past2[k]
    BY <1>3 DEF Operator!Spaced
  <2>1. j \in 1 .. n BY <1>1
  <2>2. CASE k \in 1 .. n BY <1>3, <2>1, <2>2 DEF Operator!Spaced
  <2>3. CASE k = n + 1
    <3>1. j \in 1 .. n - e BY <1>1, <2>3
    <3> QED BY <1>2, <1>3, <2>1, <2>3, <3>1
  <2> QED BY <1>4, <2>2, <2>3
<1> QED BY <1>5, <1>6 DEF log2, past2

\* A request that asks a throttle leaves both throttles knowing what they need.
LEMMA ConsumeThrottled ==
  ASSUME Operator!OperatorAssumption, Operator!IInv, NEW kind \in Operator!Kinds,
         NEW m \in Operator!Moments, NEW yes \in BOOLEAN, Operator!Consume(kind, m, yes),
         UNCHANGED operatorClock
  PROVE  /\ events' \in [Operator!Kinds -> Seq(Nat)] /\ passed' \in [Operator!Kinds -> Seq(Nat)]
         /\ Operator!Throttled'
<1> DEFINE log == Operator!Remaining(events[kind], m)
           past == passed[kind]
<1>1. /\ events \in [Operator!Kinds -> Seq(Nat)] /\ passed \in [Operator!Kinds -> Seq(Nat)]
      /\ operatorClock \in Nat /\ Operator!Throttled
  BY DEF Operator!IInv, Operator!TypeOK
<1>2. /\ m \in Nat /\ m <= operatorClock /\ m + TryLag >= operatorClock
  BY <1>1 DEF Operator!Moments
<1>3. events[kind] \in Seq(Nat) /\ past \in Seq(Nat) BY <1>1
<1>4. Operator!Remembers(events[kind], past, operatorClock) /\ Operator!Spaced(past)
  BY <1>1 DEF Operator!Throttled
<1>5. log \in Seq(Nat) /\ Operator!Remembers(log, past, operatorClock)
  BY <1>1, <1>2, <1>3, <1>4, RemainingRemembers
<1>6. /\ yes = (Len(log) < TryLimit)
      /\ events' = [events EXCEPT ![kind] = IF yes THEN Append(log, m) ELSE log]
      /\ passed' = IF yes THEN [passed EXCEPT ![kind] = Append(past, operatorClock)] ELSE passed
  BY DEF Operator!Consume
<1> HIDE DEF log, past
<1>7. /\ events'[kind] \in Seq(Nat) /\ passed'[kind] \in Seq(Nat)
      /\ Operator!Remembers(events'[kind], passed'[kind], operatorClock)
      /\ Operator!Spaced(passed'[kind])
  <2>1. CASE yes
    <3>1. events'[kind] = Append(log, m) /\ passed'[kind] = Append(past, operatorClock)
      BY <1>1, <1>6, <2>1
    <3>2. Append(log, m) \in Seq(Nat) /\ Append(past, operatorClock) \in Seq(Nat)
      BY <1>1, <1>2, <1>3, <1>5, AppendProperties
    <3>3. /\ Operator!Remembers(Append(log, m), Append(past, operatorClock), operatorClock)
          /\ Operator!Spaced(Append(past, operatorClock))
      BY <1>1, <1>2, <1>3, <1>4, <1>5, <1>6, <2>1, PassRemembers
    <3> QED BY <3>1, <3>2, <3>3
  <2>2. CASE ~yes
    <3>1. events'[kind] = log /\ passed'[kind] = past BY <1>1, <1>6, <2>2 DEF past
    <3> QED BY <3>1, <1>3, <1>4, <1>5
  <2> QED BY <2>1, <2>2
<1>8. \A other \in Operator!Kinds : other # kind =>
        events'[other] = events[other] /\ passed'[other] = passed[other]
  BY <1>1, <1>6
<1>9. events' \in [Operator!Kinds -> Seq(Nat)] /\ passed' \in [Operator!Kinds -> Seq(Nat)]
  <2>1. DOMAIN events' = Operator!Kinds /\ DOMAIN passed' = Operator!Kinds BY <1>1, <1>6
  <2>2. events' = [x \in DOMAIN events' |-> events'[x]] /\ passed' = [x \in DOMAIN passed' |-> passed'[x]]
    BY <1>1, <1>6
  <2>3. \A x \in Operator!Kinds : events'[x] \in Seq(Nat) /\ passed'[x] \in Seq(Nat)
    BY <1>1, <1>7, <1>8
  <2> QED BY <2>1, <2>2, <2>3
<1>10. \A x \in Operator!Kinds : /\ Operator!Remembers(events'[x], passed'[x], operatorClock)
                                 /\ Operator!Spaced(passed'[x])
  BY <1>1, <1>7, <1>8 DEF Operator!Throttled
<1>11. Operator!Throttled'
  BY <1>10 DEF Operator!Throttled, Operator!Remembers, Operator!Spaced
<1> QED BY <1>9, <1>11

-----------------------------------------------------------------------------
(* Local operator: the session table *)

\* A session of the table.
Entry == [id : Nat, created : Nat, seen : Nat]

\* A table of sessions of which n were issued and those in b burned.
Known(table, n, b) ==
  /\ table \in Seq(Entry)
  /\ \A k \in 1 .. Len(table) : table[k].id \in 1 .. n /\ table[k].id \notin b
  /\ \A j, k \in 1 .. Len(table) : table[j].id = table[k].id => j = k

\* What Only selects.
LEMMA OnlyFacts ==
  ASSUME NEW table \in Seq(Entry), NEW K, K \subseteq 1 .. Len(table)
  PROVE  /\ Operator!Only(table, K) \in Seq(Entry)
         /\ Len(Operator!Only(table, K)) = Cardinality(K)
         /\ Cardinality(K) \in Nat /\ Cardinality(K) <= Len(table) /\ IsFiniteSet(K)
         /\ \E f \in [1 .. Cardinality(K) -> K] :
              /\ \A i, j \in 1 .. Cardinality(K) : f[i] = f[j] => i = j
              /\ \A i \in 1 .. Cardinality(K) : Operator!Only(table, K)[i] = table[f[i]]
<1> DEFINE n == Cardinality(K)
           Increasing(f) == \A i, j \in 1 .. n : i < j => f[i] < f[j]
           f == CHOOSE g \in [1 .. n -> K] : Increasing(g)
           only == Operator!Only(table, K)
<1>1. /\ IsFiniteSet(K) /\ n \in Nat /\ n <= Len(table)
      /\ \E g \in [1 .. n -> K] : Increasing(g)
  <2>1. Len(table) \in Nat OBVIOUS
  <2> QED BY <2>1, Numbering
<1>2. f \in [1 .. n -> K] /\ Increasing(f)
  <2> HIDE DEF Increasing, n
  <2> QED BY <1>1
<1>3. only = [i \in 1 .. n |-> table[f[i]]]
  <2>1. Operator!Cardinality(K) = n BY OperatorSets
  <2> HIDE DEF n
  <2> QED BY <2>1 DEF Operator!Only
<1> HIDE DEF f, n, only
<1>4. \A i \in 1 .. n : f[i] \in K /\ f[i] \in 1 .. Len(table) /\ table[f[i]] \in Entry
  <2>1. \A i \in 1 .. n : f[i] \in K BY <1>2
  <2>2. \A k \in 1 .. Len(table) : table[k] \in Entry OBVIOUS
  <2> QED BY <2>1, <2>2
<1>5. \A i, j \in 1 .. n : f[i] = f[j] => i = j
  <2> SUFFICES ASSUME NEW i \in 1 .. n, NEW j \in 1 .. n, f[i] = f[j], i # j PROVE FALSE OBVIOUS
  <2>1. i < j \/ j < i BY <1>1
  <2>2. f[i] < f[j] \/ f[j] < f[i] BY <1>2, <2>1
  <2> QED BY <1>4, <2>2
<1>6. only \in Seq(Entry) /\ Len(only) = n /\ \A i \in 1 .. n : only[i] = table[f[i]]
  <2>1. only \in [1 .. n -> Entry] BY <1>3, <1>4
  <2>2. only \in Seq(Entry) BY <1>1, <2>1
  <2>3. Len(only) = n BY <1>1, <1>3
  <2> QED BY <1>3, <2>2, <2>3
<1>7. /\ only \in Seq(Entry) /\ Len(only) = n /\ n \in Nat /\ n <= Len(table) /\ IsFiniteSet(K)
      /\ \E g \in [1 .. n -> K] : /\ \A i, j \in 1 .. n : g[i] = g[j] => i = j
                                  /\ \A i \in 1 .. n : only[i] = table[g[i]]
  BY <1>1, <1>2, <1>5, <1>6
<1> QED BY <1>7 DEF n, only

\* Selecting entries, cutting off the oldest and adding one with an id of its own
\* keep a table known.
LEMMA OnlyKnown ==
  ASSUME NEW table, NEW n \in Nat, NEW b, Known(table, n, b), NEW K, K \subseteq 1 .. Len(table)
  PROVE  Known(Operator!Only(table, K), n, b)
<1> DEFINE only == Operator!Only(table, K)
           c == Cardinality(K)
<1>1. /\ only \in Seq(Entry) /\ Len(only) = c
      /\ \E f \in [1 .. c -> K] : /\ \A i, j \in 1 .. c : f[i] = f[j] => i = j
                                  /\ \A i \in 1 .. c : only[i] = table[f[i]]
  <2>1. table \in Seq(Entry) BY DEF Known
  <2> QED BY <2>1, OnlyFacts, Zenon
<1> HIDE DEF only, c
<1>2. PICK f \in [1 .. c -> K] : /\ \A i, j \in 1 .. c : f[i] = f[j] => i = j
                                /\ \A i \in 1 .. c : only[i] = table[f[i]]
  BY <1>1
<1>3. \A i \in 1 .. c : f[i] \in 1 .. Len(table) OBVIOUS
<1>4. \A k \in 1 .. Len(only) : only[k].id \in 1 .. n /\ only[k].id \notin b
  BY <1>1, <1>2, <1>3 DEF Known
<1>5. \A j, k \in 1 .. Len(only) : only[j].id = only[k].id => j = k
  BY <1>1, <1>2, <1>3 DEF Known
<1> QED BY <1>1, <1>4, <1>5 DEF Known, only

\* Dropping the oldest sessions leaves a table of known ones.
LEMMA SuffixKnown ==
  ASSUME NEW table, NEW n \in Nat, NEW b, Known(table, n, b), NEW c \in 0 .. Len(table)
  PROVE  /\ Known(SubSeq(table, c + 1, Len(table)), n, b)
         /\ Len(SubSeq(table, c + 1, Len(table))) = Len(table) - c
<1> DEFINE l == Len(table)
           rest == SubSeq(table, c + 1, l)
<1>1. table \in Seq(Entry) /\ l \in Nat BY DEF Known
<1>2. \A i \in c + 1 .. l : table[i] \in Entry BY <1>1
<1>3. /\ rest \in Seq(Entry)
      /\ Len(rest) = IF c + 1 <= l THEN l - (c + 1) + 1 ELSE 0
      /\ \A i \in 1 .. l - (c + 1) + 1 : rest[i] = table[(c + 1) + i - 1]
  <2> c + 1 \in Int /\ l \in Int BY <1>1
  <2> HIDE DEF l
  <2> QED BY <1>2, SubSeqProperties
<1> HIDE DEF rest
<1>4. Len(rest) = l - c /\ \A i \in 1 .. l - c : c + i \in 1 .. l /\ rest[i] = table[c + i]
  <2> HIDE DEF l
  <2> QED BY <1>1, <1>3 DEF l
<1>5. \A k \in 1 .. l - c : rest[k].id \in 1 .. n /\ rest[k].id \notin b
  BY <1>4 DEF Known
<1>6. \A j, k \in 1 .. l - c : rest[j].id = rest[k].id => j = k
  <2> SUFFICES ASSUME NEW j \in 1 .. l - c, NEW k \in 1 .. l - c, rest[j].id = rest[k].id
               PROVE  j = k
    OBVIOUS
  <2>1. c + j = c + k BY <1>4 DEF Known
  <2> QED BY <1>1, <2>1
<1> QED BY <1>3, <1>4, <1>5, <1>6 DEF Known, rest

\* So does adding one that was issued, is not burned and not there yet.
LEMMA AppendKnown ==
  ASSUME NEW table, NEW n \in Nat, NEW b, Known(table, n, b), NEW e \in Entry,
         e.id \in 1 .. n, e.id \notin b, \A k \in 1 .. Len(table) : table[k].id # e.id
  PROVE  Known(Append(table, e), n, b) /\ Len(Append(table, e)) = Len(table) + 1
<1> DEFINE l == Len(table)
           t == Append(table, e)
<1>1. table \in Seq(Entry) /\ l \in Nat BY DEF Known
<1>2. t \in Seq(Entry) /\ Len(t) = l + 1 /\ t[l + 1] = e /\ \A i \in 1 .. l : t[i] = table[i]
  BY <1>1, AppendProperties
<1>3. \A i \in 1 .. l + 1 : i \in 1 .. l \/ i = l + 1 BY <1>1
<1> HIDE DEF l, t
<1>4. \A k \in 1 .. l : table[k].id \in 1 .. n /\ table[k].id \notin b /\ table[k].id # e.id
  BY DEF Known, l
<1>5. \A j, k \in 1 .. l : table[j].id = table[k].id => j = k BY DEF Known, l
<1>6. \A k \in 1 .. l + 1 : t[k].id \in 1 .. n /\ t[k].id \notin b BY <1>2, <1>3, <1>4
<1>7. \A j, k \in 1 .. l + 1 : t[j].id = t[k].id => j = k BY <1>2, <1>3, <1>4, <1>5
<1> QED BY <1>2, <1>6, <1>7 DEF Known, t, l

-----------------------------------------------------------------------------
(* Local operator: each step *)

\* The parts of the invariant that a step may break.
LEMMA OperatorFacts ==
  ASSUME Operator!IInv
  PROVE  /\ Known(unlocked, issued, burned) /\ Len(unlocked) <= MaxSessions
         /\ Operator!TypeOK /\ issued \in Nat /\ burned \subseteq 1 .. issued /\ operatorClock \in Nat
         /\ ~late /\ (served => marker) /\ (phase = "opened" => ~served) /\ Operator!Throttled
BY DEF Operator!IInv, Operator!TypeOK, Operator!SessionsContained, Operator!SessionsKnown,
   Operator!Ids, Operator!NeverRegenerated, Operator!MarkedOnceServed, Known, Entry

\* The invariant after a step, from its parts.
LEMMA OperatorKept ==
  ASSUME Operator!TypeOK', Known(unlocked', issued', burned'), Len(unlocked') <= MaxSessions,
         ~late', served' => marker', phase' = "opened" => ~served', Operator!Throttled'
  PROVE  Operator!IInv'
<1>1. Operator!SessionsContained' /\ Operator!SessionsKnown'
  BY DEF Operator!SessionsContained, Operator!SessionsKnown, Operator!Ids, Known
<1> QED BY <1>1 DEF Operator!IInv, Operator!NeverRegenerated, Operator!MarkedOnceServed

\* The throttles know what they need when time goes on or stands still.
LEMMA TimeThrottled ==
  ASSUME Operator!OperatorAssumption, Operator!IInv, UNCHANGED <<events, passed>>,
         operatorClock' \in {operatorClock, operatorClock + 1}
  PROVE  Operator!Throttled'
<1>1. /\ TryLag \in Nat /\ TryWindow \in Nat /\ TryLag < TryWindow BY DEF Operator!OperatorAssumption
<1>2. /\ events \in [Operator!Kinds -> Seq(Nat)] /\ passed \in [Operator!Kinds -> Seq(Nat)]
      /\ operatorClock \in Nat /\ operatorClock' \in Nat /\ operatorClock <= operatorClock'
  BY OperatorFacts DEF Operator!TypeOK
<1>3. ASSUME NEW kind \in Operator!Kinds
      PROVE  /\ Operator!Remembers(events[kind], passed[kind], operatorClock')
             /\ Operator!Spaced(passed[kind])
  <2>1. Operator!Remembers(events[kind], passed[kind], operatorClock) /\ Operator!Spaced(passed[kind])
    BY OperatorFacts DEF Operator!Throttled
  <2>2. passed[kind] \in Seq(Nat) /\ events[kind] \in Seq(Nat) BY <1>2
  <2> DEFINE past == passed[kind]
             gone == Len(passed[kind]) - Len(events[kind])
  <2>3. \A k \in 1 .. Len(past) : past[k] <= operatorClock' BY <1>2, <2>1, <2>2 DEF Operator!Remembers
  <2>4. \A k \in 1 .. gone : past[k] + (TryWindow - TryLag) <= operatorClock'
    <3>1. gone \in Nat /\ \A k \in 1 .. gone : k \in 1 .. Len(past) /\ past[k] \in Nat
      BY <2>1, <2>2 DEF Operator!Remembers
    <3> QED BY <1>1, <1>2, <2>1, <3>1 DEF Operator!Remembers
  <2> QED BY <2>1, <2>3, <2>4 DEF Operator!Remembers
<1> QED BY <1>3 DEF Operator!Throttled, Operator!Remembers, Operator!Spaced

\* Purging leaves known sessions, and no more of them.
LEMMA KeptKnown ==
  ASSUME Operator!IInv, NEW m
  PROVE  Known(Operator!Kept(m), issued, burned) /\ Len(Operator!Kept(m)) <= Len(unlocked)
<1>1. Known(unlocked, issued, burned) /\ issued \in Nat BY OperatorFacts
<1> DEFINE K == {k \in 1 .. Len(unlocked) : /\ unlocked[k].created + MaxAge > m
                                            /\ unlocked[k].seen + OperatorIdle > m}
<1>2. K \subseteq 1 .. Len(unlocked) OBVIOUS
<1>3. Operator!Kept(m) = Operator!Only(unlocked, K) BY DEF Operator!Kept
<1> HIDE DEF K
<1>4. unlocked \in Seq(Entry) BY <1>1 DEF Known
<1>5. Known(Operator!Only(unlocked, K), issued, burned) BY <1>1, <1>2, OnlyKnown
<1>6. /\ Len(Operator!Only(unlocked, K)) = Cardinality(K)
      /\ Cardinality(K) <= Len(unlocked)
  BY <1>2, <1>4, OnlyFacts, Zenon
<1> QED BY <1>3, <1>5, <1>6

\* The table is full at most: a new session takes the place of the least recently
\* used one.
LEMMA IssuedKnown ==
  ASSUME Operator!OperatorAssumption, Operator!IInv, NEW m \in Nat
  PROVE  Known(Operator!Issued(m), issued + 1, burned) /\ Len(Operator!Issued(m)) <= MaxSessions
<1> DEFINE kept == Operator!Kept(m)
           over == IF Len(kept) >= MaxSessions THEN Len(kept) - MaxSessions + 1 ELSE 0
           rest == SubSeq(kept, over + 1, Len(kept))
           e == [id |-> issued + 1, created |-> m, seen |-> m]
<1>1. /\ Known(kept, issued, burned) /\ Len(kept) <= Len(unlocked) /\ Len(unlocked) <= MaxSessions
      /\ issued \in Nat /\ burned \subseteq 1 .. issued /\ MaxSessions \in Nat /\ MaxSessions > 0
  BY KeptKnown, OperatorFacts DEF Operator!OperatorAssumption
<1>2. Len(kept) \in Nat /\ Len(unlocked) \in Nat BY <1>1, OperatorFacts DEF Known
<1>3. over \in 0 .. Len(kept) /\ Len(kept) - over <= MaxSessions - 1
  <2> HIDE DEF kept
  <2> QED BY <1>1, <1>2
<1>4. Known(rest, issued, burned) /\ Len(rest) = Len(kept) - over
  <2> HIDE DEF kept, over
  <2> QED BY <1>1, <1>3, SuffixKnown
<1>5. Operator!Issued(m) = Append(rest, e) BY DEF Operator!Issued
<1> HIDE DEF kept, over, rest
<1>6. Known(rest, issued + 1, burned) /\ \A k \in 1 .. Len(rest) : rest[k].id # e.id
  BY <1>1, <1>4 DEF Known
<1>7. e \in Entry /\ e.id \in 1 .. issued + 1 /\ e.id \notin burned BY <1>1 DEF Entry
<1> HIDE DEF e
<1>8. Known(Append(rest, e), issued + 1, burned) /\ Len(Append(rest, e)) = Len(rest) + 1
  <2>1. issued + 1 \in Nat BY <1>1
  <2> QED BY <1>6, <1>7, <2>1, AppendKnown
<1> QED BY <1>1, <1>2, <1>3, <1>4, <1>5, <1>8

\* A session that is used moves to the end of the table.
LEMMA TouchedKnown ==
  ASSUME NEW kept, NEW n \in Nat, NEW b, Known(kept, n, b), NEW id, NEW m \in Nat,
         \E k \in 1 .. Len(kept) : kept[k].id = id
  PROVE  /\ Known(Operator!Touched(kept, id, m), n, b)
         /\ Len(Operator!Touched(kept, id, m)) <= Len(kept)
<1> DEFINE k == CHOOSE j \in 1 .. Len(kept) : kept[j].id = id
           K == {j \in 1 .. Len(kept) : kept[j].id # id}
           rest == Operator!Only(kept, K)
           e == [kept[k] EXCEPT !.seen = m]
<1>1. k \in 1 .. Len(kept) /\ kept[k].id = id OBVIOUS
<1>2. Operator!Touched(kept, id, m) = Append(rest, e) BY DEF Operator!Touched
<1>3. kept \in Seq(Entry) /\ Len(kept) \in Nat BY DEF Known
<1> HIDE DEF k
<1>4. kept[k] \in Entry BY <1>1, <1>3
<1>5. e \in Entry /\ e.id = id /\ id \in 1 .. n /\ id \notin b
  BY <1>1, <1>4 DEF Entry, Known
<1>6. K \subseteq 1 .. Len(kept) /\ k \notin K BY <1>1
<1>7. Known(rest, n, b)
  <2> HIDE DEF K
  <2> QED BY <1>6, OnlyKnown
<1>8. Len(rest) < Len(kept)
  <2> DEFINE all == 1 .. Len(kept)
  <2>1. IsFiniteSet(all) /\ Cardinality(all) = Len(kept)
    <3> DEFINE l == Len(kept)
    <3>1. l \in Nat BY <1>3
    <3> HIDE DEF l
    <3>2. 1 \in Int /\ l \in Int BY <3>1
    <3>3. IsFiniteSet(1 .. l) /\ Cardinality(1 .. l) = IF 1 > l THEN 0 ELSE l - 1 + 1
      BY <3>2, FS_Interval, Zenon
    <3> QED BY <3>1, <3>3 DEF l
  <2>2. K \subseteq all \ {k} BY <1>6
  <2>3. IsFiniteSet(all \ {k}) /\ Cardinality(all \ {k}) = Len(kept) - 1
    <3>1. k \in all BY <1>1
    <3> HIDE DEF all
    <3> QED BY <2>1, <3>1, FS_RemoveElement
  <2> HIDE DEF K, all
  <2>4. Cardinality(K) <= Len(kept) - 1 BY <2>2, <2>3, FS_Subset
  <2>5. Len(rest) = Cardinality(K) /\ Cardinality(K) \in Nat BY <1>3, <1>6, OnlyFacts
  <2> QED BY <1>3, <2>4, <2>5
<1>9. \A j \in 1 .. Len(rest) : rest[j].id # id
  <2> DEFINE c == Cardinality(K)
  <2>1. /\ Len(rest) = c
        /\ \E f \in [1 .. c -> K] : /\ \A i, j \in 1 .. c : f[i] = f[j] => i = j
                                    /\ \A i \in 1 .. c : rest[i] = kept[f[i]]
    <3> HIDE DEF K
    <3> QED BY <1>3, <1>6, OnlyFacts, Zenon
  <2> HIDE DEF c, rest
  <2>2. PICK f \in [1 .. c -> K] : \A i \in 1 .. c : rest[i] = kept[f[i]] BY <2>1
  <2>3. \A i \in 1 .. c : f[i] \in K OBVIOUS
  <2> QED BY <2>1, <2>2, <2>3
<1> HIDE DEF e, rest
<1>10. Known(Append(rest, e), n, b) /\ Len(Append(rest, e)) = Len(rest) + 1
  BY <1>5, <1>7, <1>9, AppendKnown
<1>11. Len(rest) \in Nat BY <1>7 DEF Known
<1> QED BY <1>2, <1>3, <1>8, <1>10, <1>11

\* Starting, the owner's changes of the file and the requests that touch neither
\* sessions nor throttles.
LEMMA FilesKeep ==
  ASSUME Operator!OperatorAssumption, Operator!IInv, UNCHANGED Operator!sessionVars,
         UNCHANGED <<events, passed, operatorClock, kills>>,
         \/ Operator!CreateFile \/ Operator!WriteToken \/ Operator!LoadToken
         \/ Operator!EnsureMarker \/ Operator!StartDisabled
         \/ \E content \in OperatorTokens \cup {Nobody} : Operator!ChangeFile(content)
         \/ \E p \in Threads : Operator!VerifyToken(p)
         \/ UNCHANGED Operator!vars
  PROVE  Operator!IInv'
<1> USE DEF Operator!sessionVars, Operator!fileVars, Operator!startVars, Operator!vars
<1>1. Operator!Throttled' BY TimeThrottled
<1>2. Known(unlocked', issued', burned') /\ Len(unlocked') <= MaxSessions BY OperatorFacts
<1>3. Operator!TypeOK BY OperatorFacts
<1>4. ~late /\ (served => marker) /\ (phase = "opened" => ~served) BY OperatorFacts
<1> HIDE DEF Operator!IInv
<1>5. ~late' /\ (served' => marker') /\ (phase' = "opened" => ~served')
  BY <1>3, <1>4 DEF Operator!TypeOK, Operator!CreateFile, Operator!WriteToken, Operator!LoadToken,
     Operator!EnsureMarker, Operator!StartDisabled, Operator!ChangeFile, Operator!VerifyToken
<1>6. Operator!TypeOK'
  <2>1. CASE Operator!CreateFile BY <1>3, <2>1 DEF Operator!TypeOK, Operator!CreateFile
  <2>2. CASE Operator!WriteToken BY <1>3, <2>2 DEF Operator!TypeOK, Operator!WriteToken
  <2>3. CASE Operator!LoadToken BY <1>3, <2>3 DEF Operator!TypeOK, Operator!LoadToken
  <2>4. CASE Operator!EnsureMarker BY <1>3, <2>4 DEF Operator!TypeOK, Operator!EnsureMarker
  <2>5. CASE Operator!StartDisabled BY <1>3, <2>5 DEF Operator!TypeOK, Operator!StartDisabled
  <2>6. CASE \E content \in OperatorTokens \cup {Nobody} : Operator!ChangeFile(content)
    BY <1>3, <2>6 DEF Operator!TypeOK, Operator!ChangeFile
  <2>7. CASE \E p \in Threads : Operator!VerifyToken(p)
    BY <1>3, <2>7 DEF Operator!TypeOK, Operator!VerifyToken, Operator!Goto
  <2>8. CASE UNCHANGED Operator!vars BY <1>3, <2>8 DEF Operator!TypeOK
  <2> QED BY <2>1, <2>2, <2>3, <2>4, <2>5, <2>6, <2>7, <2>8
<1> QED BY <1>1, <1>2, <1>5, <1>6, OperatorKept

\* What leaves files, start and throttles alone keeps the invariant with the table.
LEMMA TableKeeps ==
  ASSUME Operator!OperatorAssumption, Operator!IInv,
         UNCHANGED <<Operator!fileVars, Operator!startVars, events, passed, operatorClock, kills>>,
         operatorPc' \in [Threads -> {"idle", "unlock", "proven", "change", "verified"}],
         issued' \in Nat, burned' \subseteq 1 .. issued',
         Known(unlocked', issued', burned'), Len(unlocked') <= MaxSessions
  PROVE  Operator!IInv'
<1> USE DEF Operator!fileVars, Operator!startVars
<1>1. Operator!Throttled' BY TimeThrottled
<1>2. Operator!TypeOK BY OperatorFacts
<1>3. ~late' /\ (served' => marker') /\ (phase' = "opened" => ~served') BY OperatorFacts
<1>4. Operator!TypeOK' BY <1>2 DEF Operator!TypeOK, Known, Entry
<1> QED BY <1>1, <1>3, <1>4, OperatorKept

\* Time goes on; or the process is killed and all its memory is gone.
LEMMA TickKillKeeps ==
  ASSUME Operator!OperatorAssumption, Operator!IInv, Operator!Tick \/ Operator!Kill
  PROVE  Operator!IInv'
<1> USE DEF Operator!sessionVars, Operator!fileVars, Operator!startVars
<1>1. Operator!TypeOK /\ operatorClock \in Nat BY OperatorFacts
<1>2. ~late' /\ (served' => marker') /\ (phase' = "opened" => ~served')
  BY OperatorFacts DEF Operator!Tick, Operator!Kill
<1>3. CASE Operator!Tick
  <2>1. Operator!Throttled' BY <1>3, TimeThrottled DEF Operator!Tick
  <2>2. Known(unlocked', issued', burned') /\ Len(unlocked') <= MaxSessions
    BY <1>3, OperatorFacts DEF Operator!Tick
  <2>3. Operator!TypeOK' BY <1>1, <1>3 DEF Operator!TypeOK, Operator!Tick
  <2> QED BY <1>2, <2>1, <2>2, <2>3, OperatorKept
<1>4. CASE Operator!Kill
  <2>1. /\ unlocked' = <<>> /\ issued' = 0 /\ burned' = {} /\ operatorClock' = 0
        /\ events' = [k \in Operator!Kinds |-> <<>>] /\ passed' = [k \in Operator!Kinds |-> <<>>]
    BY <1>4 DEF Operator!Kill
  <2>2. Operator!Throttled' BY <2>1 DEF Operator!Throttled, Operator!Remembers, Operator!Spaced
  <2>3. Known(unlocked', issued', burned') /\ Len(unlocked') <= MaxSessions
    BY <2>1 DEF Known, Operator!OperatorAssumption
  <2>4. Operator!TypeOK' BY <1>1, <1>4, <2>1 DEF Operator!TypeOK, Operator!Kill
  <2> QED BY <1>2, <2>2, <2>3, <2>4, OperatorKept
<1> QED BY <1>3, <1>4

\* The requests that ask a throttle.
LEMMA ThrottleKeeps ==
  ASSUME Operator!OperatorAssumption, Operator!IInv, NEW p \in Threads,
         Operator!Guess(p) \/ Operator!Admit(p)
  PROVE  Operator!IInv'
<1> USE DEF Operator!sessionVars, Operator!fileVars, Operator!startVars
<1>1. PICK kind \in Operator!Kinds : \E m \in Operator!Moments, yes \in BOOLEAN :
        Operator!Consume(kind, m, yes)
  BY DEF Operator!Guess, Operator!Admit, Operator!Kinds
<1>2. /\ UNCHANGED <<file, marker, phase, digest, created, served, late>>
      /\ UNCHANGED <<unlocked, issued, burned, operatorClock, kills>>
  BY DEF Operator!Guess, Operator!Admit
<1>3. operatorPc' \in [Threads -> {"idle", "unlock", "proven", "change", "verified"}]
  <2>1. operatorPc \in [Threads -> {"idle", "unlock", "proven", "change", "verified"}]
    BY OperatorFacts DEF Operator!TypeOK
  <2> QED BY <2>1 DEF Operator!Guess, Operator!Admit, Operator!Goto
<1>4. PICK m \in Operator!Moments : \E yes \in BOOLEAN : Operator!Consume(kind, m, yes) BY <1>1
<1>5. PICK yes \in BOOLEAN : Operator!Consume(kind, m, yes) BY <1>4
<1>6. /\ events' \in [Operator!Kinds -> Seq(Nat)] /\ passed' \in [Operator!Kinds -> Seq(Nat)]
      /\ Operator!Throttled'
  BY <1>2, <1>5, ConsumeThrottled
<1>7. Operator!TypeOK BY OperatorFacts
<1>8. Operator!TypeOK' BY <1>2, <1>3, <1>6, <1>7 DEF Operator!TypeOK
<1>9. /\ Known(unlocked', issued', burned') /\ Len(unlocked') <= MaxSessions
      /\ ~late' /\ (served' => marker') /\ (phase' = "opened" => ~served')
  BY <1>2, OperatorFacts
<1> QED BY <1>6, <1>8, <1>9, OperatorKept

\* The requests that read or change the table.
LEMMA SessionKeeps ==
  ASSUME Operator!OperatorAssumption, Operator!IInv,
         \/ Operator!Status
         \/ \E p \in Threads : \/ \E kind \in Operator!Kinds : Operator!RequireAvailable(p, kind)
                               \/ Operator!Issue(p)
                               \/ \E id \in 1 .. issued : Operator!Verify(p, id)
  PROVE  Operator!IInv'
<1> DEFINE Places == {"idle", "unlock", "proven", "change", "verified"}
<1>1. /\ Known(unlocked, issued, burned) /\ Len(unlocked) <= MaxSessions /\ issued \in Nat
      /\ burned \subseteq 1 .. issued /\ operatorPc \in [Threads -> Places]
      /\ MaxSessions \in Nat /\ Len(unlocked) \in Nat
  BY OperatorFacts DEF Operator!TypeOK, Operator!OperatorAssumption, Known
<1>2. \A m \in Operator!Moments : m \in Nat BY OperatorFacts DEF Operator!Moments
<1>3. ASSUME NEW m
      PROVE  /\ Known(Operator!Kept(m), issued, burned) /\ Len(Operator!Kept(m)) <= MaxSessions
             /\ Len(Operator!Kept(m)) \in Nat
  <2>1. Known(Operator!Kept(m), issued, burned) /\ Len(Operator!Kept(m)) <= Len(unlocked)
    BY KeptKnown
  <2>2. Len(Operator!Kept(m)) \in Nat BY <2>1 DEF Known
  <2> QED BY <1>1, <2>1, <2>2
<1>4. CASE Operator!Status
  <2>1. PICK m \in Operator!Moments : unlocked' = Operator!Kept(m) BY <1>4 DEF Operator!Status
  <2>2. UNCHANGED <<Operator!fileVars, Operator!startVars, events, passed, operatorClock, kills>>
        /\ UNCHANGED <<issued, burned, operatorPc>>
    BY <1>4 DEF Operator!Status
  <2> QED BY <1>1, <1>3, <2>1, <2>2, TableKeeps
<1>5. ASSUME NEW p \in Threads, NEW kind \in Operator!Kinds, Operator!RequireAvailable(p, kind)
      PROVE  Operator!IInv'
  <2>1. UNCHANGED <<Operator!fileVars, Operator!startVars, events, passed, operatorClock, kills>>
        /\ UNCHANGED issued
    BY <1>5 DEF Operator!RequireAvailable
  <2>2. operatorPc' \in [Threads -> Places]
    BY <1>1, <1>5 DEF Operator!RequireAvailable, Operator!Goto, Operator!Kinds
  <2>3. CASE Operator!FileMatches
    <3>1. UNCHANGED <<unlocked, burned>> BY <1>5, <2>3 DEF Operator!RequireAvailable
    <3> QED BY <1>1, <2>1, <2>2, <3>1, TableKeeps
  <2>4. CASE ~Operator!FileMatches
    <3>1. unlocked' = <<>> /\ burned' = burned \cup Operator!Ids
      BY <1>5, <2>4 DEF Operator!RequireAvailable
    <3>2. Operator!Ids \subseteq 1 .. issued BY <1>1 DEF Operator!Ids, Known
    <3>3. Known(<<>>, issued, burned') /\ Len(<<>>) = 0 BY DEF Known
    <3> QED BY <1>1, <2>1, <2>2, <3>1, <3>2, <3>3, TableKeeps
  <2> QED BY <2>3, <2>4
<1>6. ASSUME NEW p \in Threads, Operator!Issue(p) PROVE Operator!IInv'
  <2>1. UNCHANGED <<Operator!fileVars, Operator!startVars, events, passed, operatorClock, kills>>
        /\ UNCHANGED burned /\ issued' = issued + 1
    BY <1>6 DEF Operator!Issue
  <2>2. operatorPc' \in [Threads -> Places] BY <1>1, <1>6 DEF Operator!Issue, Operator!Goto
  <2>3. PICK m \in Operator!Moments : unlocked' = Operator!Issued(m) BY <1>6 DEF Operator!Issue
  <2>4. Known(unlocked', issued + 1, burned) /\ Len(unlocked') <= MaxSessions
    BY <1>2, <2>3, IssuedKnown
  <2>5. burned \subseteq 1 .. issued + 1 /\ issued + 1 \in Nat BY <1>1
  <2> QED BY <2>1, <2>2, <2>4, <2>5, TableKeeps
<1>7. ASSUME NEW p \in Threads, NEW id \in 1 .. issued, Operator!Verify(p, id) PROVE Operator!IInv'
  <2>1. UNCHANGED <<Operator!fileVars, Operator!startVars, events, passed, operatorClock, kills>>
        /\ UNCHANGED <<issued, burned>>
    BY <1>7 DEF Operator!Verify
  <2>2. PICK m \in Operator!Moments :
          IF \E k \in 1 .. Len(Operator!Kept(m)) : Operator!Kept(m)[k].id = id
          THEN unlocked' = Operator!Touched(Operator!Kept(m), id, m) /\ Operator!Goto(p, "verified")
          ELSE unlocked' = Operator!Kept(m) /\ Operator!Goto(p, "idle")
    BY <1>7 DEF Operator!Verify
  <2> DEFINE kept == Operator!Kept(m)
  <2>3. Known(kept, issued, burned) /\ Len(kept) <= MaxSessions /\ Len(kept) \in Nat BY <1>3
  <2> HIDE DEF kept
  <2>4. operatorPc' \in [Threads -> Places] BY <1>1, <2>2 DEF Operator!Goto
  <2>5. CASE \E k \in 1 .. Len(kept) : kept[k].id = id
    <3>1. unlocked' = Operator!Touched(kept, id, m) BY <2>2, <2>5 DEF kept
    <3>2. Known(unlocked', issued, burned) /\ Len(unlocked') <= Len(kept)
      BY <1>1, <1>2, <2>3, <2>5, <3>1, TouchedKnown
    <3>3. Len(unlocked') <= MaxSessions
      <4>1. Len(unlocked') \in Nat BY <3>2 DEF Known
      <4> QED BY <1>1, <2>3, <3>2, <4>1
    <3> QED BY <1>1, <2>1, <2>4, <3>2, <3>3, TableKeeps
  <2>6. CASE ~\E k \in 1 .. Len(kept) : kept[k].id = id
    <3>1. unlocked' = kept BY <2>2, <2>6 DEF kept
    <3> QED BY <1>1, <2>1, <2>3, <2>4, <3>1, TableKeeps
  <2> QED BY <2>5, <2>6
<1> QED BY <1>4, <1>5, <1>6, <1>7

\* Before the first start there is neither file nor session nor attempt.
LEMMA OperatorInit ==
  ASSUME Operator!OperatorAssumption, Operator!Init
  PROVE  Operator!IInv
<1>1. /\ unlocked = <<>> /\ issued = 0 /\ burned = {} /\ operatorClock = 0 /\ kills = 0
      /\ events = [k \in Operator!Kinds |-> <<>>] /\ passed = [k \in Operator!Kinds |-> <<>>]
      /\ ~late /\ ~served
  BY DEF Operator!Init
<1>2. Operator!TypeOK
  <2>1. /\ unlocked \in Seq([id : Nat, created : Nat, seen : Nat])
        /\ events \in [Operator!Kinds -> Seq(Nat)] /\ passed \in [Operator!Kinds -> Seq(Nat)]
    BY <1>1
  <2>2. {operatorClock, kills, issued} \subseteq Nat /\ burned \subseteq 1 .. issued BY <1>1
  <2> HIDE DEF Operator!Kinds
  <2> QED BY <2>1, <2>2 DEF Operator!Init, Operator!TypeOK
<1>3. Operator!Throttled BY <1>1 DEF Operator!Throttled, Operator!Remembers, Operator!Spaced
<1>4. Operator!SessionsContained /\ Operator!SessionsKnown
  BY <1>1 DEF Operator!SessionsContained, Operator!SessionsKnown, Operator!Ids,
     Operator!OperatorAssumption
<1> QED BY <1>1, <1>2, <1>3, <1>4
  DEF Operator!IInv, Operator!NeverRegenerated, Operator!MarkedOnceServed

\* Every step of the local operator keeps the invariant.
LEMMA OperatorNext ==
  ASSUME Operator!OperatorAssumption, Operator!IInv, [Operator!Next]_Operator!vars
  PROVE  Operator!IInv'
<1>1. ASSUME \/ Operator!CreateFile \/ Operator!WriteToken \/ Operator!LoadToken
             \/ Operator!EnsureMarker \/ Operator!StartDisabled
             \/ \E content \in OperatorTokens \cup {Nobody} : Operator!ChangeFile(content)
             \/ \E p \in Threads : Operator!VerifyToken(p)
             \/ UNCHANGED Operator!vars
      PROVE  Operator!IInv'
  <2>1. UNCHANGED Operator!sessionVars /\ UNCHANGED <<events, passed, operatorClock, kills>>
    BY <1>1 DEF Operator!CreateFile, Operator!WriteToken, Operator!LoadToken,
       Operator!EnsureMarker, Operator!StartDisabled, Operator!ChangeFile, Operator!VerifyToken,
       Operator!vars
  <2> QED BY <1>1, <2>1, FilesKeep
<1>2. ASSUME NEW p \in Threads, Operator!Guess(p) \/ Operator!Admit(p) PROVE Operator!IInv'
  BY <1>2, ThrottleKeeps
<1>3. ASSUME \/ Operator!Status
             \/ \E p \in Threads :
                  \/ \E kind \in Operator!Kinds : Operator!RequireAvailable(p, kind)
                  \/ Operator!Issue(p)
                  \/ \E id \in 1 .. issued : Operator!Verify(p, id)
      PROVE  Operator!IInv'
  BY <1>3, SessionKeeps
<1>4. ASSUME Operator!Tick \/ Operator!Kill PROVE Operator!IInv' BY <1>4, TickKillKeeps
<1> HIDE DEF Operator!IInv
<1> QED BY <1>1, <1>2, <1>3, <1>4 DEF Operator!Next

\* Attempts that pass Limit apart are too far apart for one window.
LEMMA OperatorImplies ==
  ASSUME Operator!OperatorAssumption, Operator!IInv
  PROVE  Operator!OperatorHolds
<1>1. ASSUME NEW kind \in Operator!Kinds, NEW t \in 0 .. operatorClock
      PROVE  Operator!Cardinality({k \in 1 .. Len(passed[kind]) :
               /\ passed[kind][k] >= t
               /\ passed[kind][k] < t + (TryWindow - TryLag)}) <= TryLimit
  <2> DEFINE past == passed[kind]
             X == {k \in 1 .. Len(past) : past[k] >= t /\ past[k] < t + (TryWindow - TryLag)}
  <2>1. past \in Seq(Nat) /\ operatorClock \in Nat BY OperatorFacts DEF Operator!TypeOK
  <2>2. Operator!Spaced(past) BY OperatorFacts DEF Operator!Throttled
  <2>3. TryLimit \in Nat /\ TryWindow \in Nat /\ TryLag \in Nat /\ t \in Nat
    BY <2>1 DEF Operator!OperatorAssumption
  <2>4. X \subseteq Nat BY <2>1
  <2> HIDE DEF past
  <2>5. ASSUME NEW i \in X, NEW j \in X PROVE j - i < TryLimit
    <3> SUFFICES ASSUME j - i >= TryLimit PROVE FALSE BY <2>3, <2>4
    <3>1. i \in 1 .. Len(past) /\ j \in 1 .. Len(past) /\ past[i] \in Nat /\ past[j] \in Nat
      BY <2>1
    <3>2. past[i] + (TryWindow - TryLag) <= past[j] BY <2>2, <3>1 DEF Operator!Spaced
    <3>3. past[i] >= t /\ past[j] < t + (TryWindow - TryLag) OBVIOUS
    <3> QED BY <2>3, <3>1, <3>2, <3>3
  <2>6. Cardinality(X) <= TryLimit
    <3> HIDE DEF X
    <3> QED BY <2>3, <2>4, <2>5, CloseTogether
  <2> QED BY <2>6, OperatorSets DEF past
<1>2. Operator!AttemptsBounded BY <1>1 DEF Operator!AttemptsBounded
<1> QED BY <1>2 DEF Operator!OperatorHolds, Operator!IInv

\* Wherever starts are killed and whatever becomes of the token file, no token is
\* generated once a start has served; no session survives a changed file and the
\* table keeps its limit; and within a window, less the time a request waits for
\* a lock, no more than Limit attempts pass a throttle.
THEOREM OperatorSafe == Spec => []OperatorHolds
<1> DEFINE Inv == part = "operator" => Operator!IInv
<1> USE IdentityAssumptions
<1>1. Init => Inv BY OperatorInit DEF Init
<1>2. Inv /\ [Next]_vars => Inv'
  <2> SUFFICES ASSUME Inv, [Next]_vars, part' = "operator" PROVE Operator!IInv' OBVIOUS
  <2>1. part = "operator" /\ [Operator!Next]_Operator!vars
    BY DEF Next, vars, operatorVars, Operator!vars, Operator!fileVars, Operator!startVars,
           Operator!sessionVars
  <2> QED BY <2>1, OperatorNext
<1>3. Inv => OperatorHolds BY OperatorImplies DEF OperatorHolds
<1> QED BY <1>1, <1>2, <1>3, PTL DEF Spec

-----------------------------------------------------------------------------
(* Rate limits: one row *)

\* What the limiter's assumption says of its constants.
LEMMA LimitConstants ==
  ASSUME Limits!LimiterAssumption
  PROVE  /\ LimitWindow \in Nat /\ LimitWindow >= 1 /\ LimitLag \in Nat
         /\ 2 * LimitLag <= LimitWindow /\ LimitTime \in Nat
         /\ GlobalLimit \in Nat /\ GlobalLimit >= 1 /\ SubjectLimit \in Nat /\ SubjectLimit >= 1
         /\ "global" \notin Clients
BY DEF Limits!LimiterAssumption

\* Two windows' worth of attempts, or three.
LEMMA WindowsOf ==
  ASSUME NEW R \in Nat
  PROVE  /\ LimitLag = 0 => Limits!Windows * R = 2 * R
         /\ LimitLag # 0 => Limits!Windows * R = 3 * R
         /\ Limits!Windows * R \in Nat /\ (R >= 1 => Limits!Windows * R >= 1)
BY DEF Limits!Windows

\* The times of a history.
LEMMA PastTimes ==
  ASSUME NEW past \in Seq(Nat)
  PROVE  Len(past) \in Nat /\ \A i \in 1 .. Len(past) : past[i] \in Nat /\ i \in Nat
OBVIOUS

\* The clock may go on.
LEMMA TimeSound ==
  ASSUME Limits!LimiterAssumption, NEW r \in [count : Nat, expires : Nat],
         NEW past \in Seq(Nat), NEW R \in Nat, NEW now \in Nat,
         Limits!Sound(r, past, R, now)
  PROVE  Limits!Sound(r, past, R, now + 1)
<1>0. LimitWindow \in Nat /\ LimitLag \in Nat /\ 2 * LimitLag <= LimitWindow BY LimitConstants
<1>1. Limits!Counts(r, past, R) /\ Limits!Spaced(past, R) BY DEF Limits!Sound
<1>2. \A a, b \in Nat : a <= b => a <= b + 1 OBVIOUS
<1>3. Limits!Ordered(past, now + 1)
  BY <1>2, PastTimes DEF Limits!Sound, Limits!Ordered
<1>4. Limits!Older(r, past, R, now + 1)
  <2> DEFINE before == Len(past) - r.count
  <2> SUFFICES ASSUME NEW i \in 1 .. Len(past)
               PROVE  /\ i <= before - R =>
                           past[i] + (LimitWindow - LimitLag)
                             <= IF r.count > 0 THEN past[before + 1] ELSE now + 1
                      /\ i <= before - 2 * R => past[i] + LimitWindow <= now + 1
    BY DEF Limits!Older
  <2>1. /\ i <= before - R =>
             past[i] + (LimitWindow - LimitLag) <= IF r.count > 0 THEN past[before + 1] ELSE now
        /\ i <= before - 2 * R => past[i] + LimitWindow <= now
    BY DEF Limits!Sound, Limits!Older
  <2>2. past[i] \in Nat BY PastTimes
  <2>3. \A a, b \in Nat : /\ a + (LimitWindow - LimitLag) <= b
                             => a + (LimitWindow - LimitLag) <= b + 1
                          /\ a + LimitWindow <= b => a + LimitWindow <= b + 1
    BY <1>0
  <2> HIDE DEF before
  <2>4. CASE r.count > 0 BY <2>1, <2>2, <2>3, <2>4
  <2>5. CASE ~(r.count > 0) BY <2>1, <2>2, <2>3, <2>5
  <2> QED BY <2>4, <2>5
<1> QED BY <1>1, <1>3, <1>4 DEF Limits!Sound

\* A row may be lost once it has expired.
LEMMA DropSound ==
  ASSUME Limits!LimiterAssumption, NEW r \in [count : Nat, expires : Nat],
         NEW past \in Seq(Nat), NEW R \in Nat, NEW now \in Nat,
         Limits!Sound(r, past, R, now), r.count > 0, r.expires <= now
  PROVE  Limits!Sound(Limits!NoBucket, past, R, now)
<1> DEFINE n == Len(past)
           first == n - r.count + 1
<1>0. LimitWindow \in Nat /\ LimitLag \in Nat /\ 2 * LimitLag <= LimitWindow BY LimitConstants
<1>1. n \in Nat /\ r.count \in Nat /\ r.expires \in Nat /\ r.count <= R /\ r.count <= n
  BY DEF Limits!Sound, Limits!Counts
<1>2. r.expires + LimitLag >= past[first] + LimitWindow
  BY DEF Limits!Sound, Limits!Counts
<1>3. first \in 1 .. n /\ past[first] \in Nat BY <1>1, PastTimes
<1>4. Limits!Ordered(past, now) /\ Limits!Spaced(past, R) BY DEF Limits!Sound
<1>5. Limits!Counts(Limits!NoBucket, past, R) BY <1>1 DEF Limits!Counts, Limits!NoBucket
<1>6. ASSUME NEW i \in 1 .. n
      PROVE  /\ i <= n - 0 - R => past[i] + (LimitWindow - LimitLag) <= now
             /\ i <= n - 0 - 2 * R => past[i] + LimitWindow <= now
  <2>1. past[i] \in Nat BY PastTimes
  <2>2. i <= first => past[i] <= past[first] BY <1>3, <1>4 DEF Limits!Ordered
  <2>3. i <= (n - r.count) - R => past[i] + (LimitWindow - LimitLag) <= past[first]
    BY <1>1 DEF Limits!Sound, Limits!Older
  <2> HIDE DEF n
  <2>4. i \in Nat /\ first = n - r.count + 1 BY DEF first
  <2> HIDE DEF first
  <2>5. \A a, f, e \in Nat : e + LimitLag >= f + LimitWindow /\ e <= now =>
          /\ a <= f => a + (LimitWindow - LimitLag) <= now
          /\ a + (LimitWindow - LimitLag) <= f => a + LimitWindow <= now
    BY <1>0
  <2>6. i <= n - 0 - R => i <= first BY <1>1, <2>4
  <2>7. i <= n - 0 - 2 * R => i <= (n - r.count) - R BY <1>1, <2>4
  <2> QED BY <1>1, <1>2, <1>3, <2>1, <2>2, <2>3, <2>5, <2>6, <2>7
<1>7. Limits!Older(Limits!NoBucket, past, R, now)
  BY <1>6 DEF Limits!Older, Limits!NoBucket
<1> QED BY <1>4, <1>5, <1>7 DEF Limits!Sound

\* One more attempt, at the clock.
LEMMA FurtherPast ==
  ASSUME Limits!LimiterAssumption, NEW past \in Seq(Nat), NEW R \in Nat, NEW now \in Nat,
         Limits!Ordered(past, now), Limits!Spaced(past, R),
         \A i \in 1 .. Len(past) :
           i <= Len(past) + 1 - Limits!Windows * R => past[i] + LimitWindow <= now,
         R >= 1
  PROVE  LET past2 == Append(past, now)
         IN /\ past2 \in Seq(Nat) /\ Len(past2) = Len(past) + 1 /\ past2[Len(past) + 1] = now
            /\ \A i \in 1 .. Len(past) : past2[i] = past[i]
            /\ Limits!Ordered(past2, now) /\ Limits!Spaced(past2, R)
<1> DEFINE past2 == Append(past, now)
           n == Len(past)
<1>1. past2 \in Seq(Nat) /\ Len(past2) = n + 1 /\ past2[n + 1] = now
  BY AppendProperties
<1>2. \A i \in 1 .. n : past2[i] = past[i] BY AppendProperties
<1>3. n \in Nat /\ \A i \in 1 .. n : past[i] \in Nat BY PastTimes
<1>4. \A j \in 1 .. n : past[j] <= now /\ \A i \in 1 .. j : past[i] <= past[j]
  BY DEF Limits!Ordered
<1>5. \A i, j \in 1 .. n : j - i >= Limits!Windows * R => past[i] + LimitWindow <= past[j]
  BY DEF Limits!Spaced
<1>6. \A i \in 1 .. n : i <= n + 1 - Limits!Windows * R => past[i] + LimitWindow <= now
  OBVIOUS
<1> HIDE DEF past2, n
<1>7. \A i \in 1 .. n + 1 : i \in 1 .. n \/ i = n + 1 BY <1>3
<1>8. ASSUME NEW j \in 1 .. n + 1
      PROVE  past2[j] <= now /\ \A i \in 1 .. j : past2[i] <= past2[j]
  <2>1. CASE j \in 1 .. n
    <3>1. \A i \in 1 .. j : i \in 1 .. n BY <1>3, <2>1
    <3> QED BY <1>2, <1>4, <2>1, <3>1
  <2>2. CASE j = n + 1
    <3>1. \A i \in 1 .. j : past2[i] <= now BY <1>1, <1>2, <1>4, <1>7, <2>2
    <3> QED BY <1>1, <2>2, <3>1
  <2> QED BY <1>7, <2>1, <2>2
<1>9. ASSUME NEW i \in 1 .. n + 1, NEW j \in 1 .. n + 1, j - i >= Limits!Windows * R
      PROVE  past2[i] + LimitWindow <= past2[j]
  <2>1. Limits!Windows * R \in Nat /\ Limits!Windows * R >= 1 BY WindowsOf
  <2>2. i \in 1 .. n /\ i < j BY <1>3, <1>9, <2>1
  <2>3. CASE j \in 1 .. n BY <1>2, <1>5, <1>9, <2>2, <2>3
  <2>4. CASE j = n + 1
    <3>1. i <= n + 1 - Limits!Windows * R BY <1>3, <1>9, <2>1, <2>2, <2>4
    <3> QED BY <1>1, <1>2, <1>6, <2>2, <2>4, <3>1
  <2> QED BY <1>7, <2>3, <2>4
<1>10. Limits!Ordered(past2, now) BY <1>1, <1>8 DEF Limits!Ordered
<1>11. Limits!Spaced(past2, R) BY <1>1, <1>9 DEF Limits!Spaced
<1> QED BY <1>1, <1>2, <1>10, <1>11 DEF past2, n

\* A new row, or a new window, counts its first attempt.
LEMMA RenewSound ==
  ASSUME Limits!LimiterAssumption, NEW r \in [count : Nat, expires : Nat],
         NEW past \in Seq(Nat), NEW R \in Nat, NEW now \in Nat, NEW m \in Nat, R >= 1,
         m <= now, now <= m + LimitLag,
         Limits!Sound(r, past, R, now), r.count = 0
  PROVE  Limits!Sound([count |-> 1, expires |-> m + LimitWindow], Append(past, now), R, now)
<1> DEFINE n == Len(past)
           past2 == Append(past, now)
           r2 == [count |-> 1, expires |-> m + LimitWindow]
<1>0. LimitWindow \in Nat /\ LimitLag \in Nat /\ 2 * LimitLag <= LimitWindow BY LimitConstants
<1>1. n \in Nat /\ \A i \in 1 .. n : past[i] \in Nat /\ i \in Nat BY PastTimes
<1>2. \A i \in 1 .. n :
        /\ i <= n - R => past[i] + (LimitWindow - LimitLag) <= now
        /\ i <= n - 2 * R => past[i] + LimitWindow <= now
  <2>1. n - r.count = n BY <1>1
  <2> QED BY <2>1 DEF Limits!Sound, Limits!Older
<1>3. Limits!Ordered(past, now) /\ Limits!Spaced(past, R) BY DEF Limits!Sound
<1>4. \A i \in 1 .. n : i <= n + 1 - Limits!Windows * R => past[i] + LimitWindow <= now
  <2> HIDE DEF n
  <2> SUFFICES ASSUME NEW i \in 1 .. n, i <= n + 1 - Limits!Windows * R
               PROVE  past[i] + LimitWindow <= now
    OBVIOUS
  <2>0. /\ LimitLag = 0 => Limits!Windows * R = 2 * R
        /\ LimitLag # 0 => Limits!Windows * R = 3 * R
    BY WindowsOf
  <2>1. CASE LimitLag = 0
    <3>1. i <= n - R BY <1>1, <2>0, <2>1
    <3>2. LimitWindow - LimitLag = LimitWindow BY <1>0, <2>1
    <3> QED BY <1>2, <3>1, <3>2
  <2>2. CASE LimitLag # 0
    <3>1. i <= n - 2 * R BY <1>1, <2>0, <2>2
    <3> QED BY <1>2, <3>1
  <2> QED BY <2>1, <2>2
<1>5. /\ past2 \in Seq(Nat) /\ Len(past2) = n + 1 /\ past2[n + 1] = now
      /\ \A i \in 1 .. n : past2[i] = past[i]
      /\ Limits!Ordered(past2, now) /\ Limits!Spaced(past2, R)
  BY <1>3, <1>4, FurtherPast
<1> HIDE DEF n, past2
<1>6. r2.count = 1 /\ r2.expires = m + LimitWindow OBVIOUS
<1> HIDE DEF r2
<1>7. Len(past2) - r2.count = n BY <1>1, <1>5, <1>6
<1>8. Limits!Counts(r2, past2, R)
  BY <1>1, <1>5, <1>6, <1>0, <1>7 DEF Limits!Counts
<1>9. Limits!Older(r2, past2, R, now)
  <2>1. ASSUME NEW i \in 1 .. n + 1
        PROVE  /\ i <= n - R => past2[i] + (LimitWindow - LimitLag) <= past2[n + 1]
               /\ i <= n - 2 * R => past2[i] + LimitWindow <= now
    <3>1. i <= n - R => i \in 1 .. n BY <1>1
    <3>2. i <= n - 2 * R => i \in 1 .. n BY <1>1
    <3> QED BY <1>2, <1>5, <3>1, <3>2
  <2> QED BY <1>5, <1>6, <1>7, <2>1 DEF Limits!Older
<1> QED BY <1>5, <1>8, <1>9 DEF Limits!Sound, past2, r2

\* A row below its limit counts one more attempt.
LEMMA CountSound ==
  ASSUME Limits!LimiterAssumption, NEW r \in [count : Nat, expires : Nat],
         NEW past \in Seq(Nat), NEW R \in Nat, NEW now \in Nat,
         Limits!Sound(r, past, R, now), r.count > 0, r.count < R
  PROVE  Limits!Sound([count |-> r.count + 1, expires |-> r.expires], Append(past, now), R, now)
<1> DEFINE n == Len(past)
           c == r.count
           before == n - c
           past2 == Append(past, now)
           r2 == [count |-> r.count + 1, expires |-> r.expires]
<1>0. LimitWindow \in Nat /\ LimitLag \in Nat /\ 2 * LimitLag <= LimitWindow BY LimitConstants
<1>1. n \in Nat /\ \A i \in 1 .. n : past[i] \in Nat /\ i \in Nat BY PastTimes
<1>2. c \in Nat /\ c <= R /\ c <= n /\ r.expires \in Nat /\ R >= 1
  BY DEF Limits!Sound, Limits!Counts
<1>3. r.expires <= past[before + 1] + LimitWindow
      /\ r.expires + LimitLag >= past[before + 1] + LimitWindow
  BY DEF Limits!Sound, Limits!Counts
<1>4. \A i \in 1 .. n :
        /\ i <= before - R => past[i] + (LimitWindow - LimitLag) <= past[before + 1]
        /\ i <= before - 2 * R => past[i] + LimitWindow <= now
  BY DEF Limits!Sound, Limits!Older
<1>5. Limits!Ordered(past, now) /\ Limits!Spaced(past, R) BY DEF Limits!Sound
<1>6. before + 1 \in 1 .. n BY <1>1, <1>2
<1>7. past[before + 1] <= now BY <1>5, <1>6 DEF Limits!Ordered
<1>8. r2.count = c + 1 /\ r2.expires = r.expires OBVIOUS
<1>9. c > 0 /\ c < R OBVIOUS
<1> HIDE DEF n, c, r2
<1>10. before \in Nat /\ before = n - c BY <1>1, <1>2
<1>11. \A i \in 1 .. n : i <= n + 1 - Limits!Windows * R => past[i] + LimitWindow <= now
  <2> HIDE DEF before
  <2> SUFFICES ASSUME NEW i \in 1 .. n, i <= n + 1 - Limits!Windows * R
               PROVE  past[i] + LimitWindow <= now
    OBVIOUS
  <2>0. /\ LimitLag = 0 => Limits!Windows * R = 2 * R
        /\ LimitLag # 0 => Limits!Windows * R = 3 * R
    BY WindowsOf
  <2>1. CASE LimitLag = 0
    <3>1. i <= before - R BY <1>1, <1>2, <1>9, <1>10, <2>0, <2>1
    <3>2. LimitWindow - LimitLag = LimitWindow BY <1>0, <2>1
    <3>3. past[i] + LimitWindow <= past[before + 1] BY <1>4, <3>1, <3>2
    <3>4. past[i] \in Nat /\ past[before + 1] \in Nat BY <1>1, <1>6
    <3> QED BY <1>7, <3>3, <1>0, <3>4
  <2>2. CASE LimitLag # 0
    <3>1. i <= before - 2 * R BY <1>1, <1>2, <1>9, <1>10, <2>0, <2>2
    <3> QED BY <1>4, <3>1
  <2> QED BY <2>1, <2>2
<1>12. /\ past2 \in Seq(Nat) /\ Len(past2) = n + 1 /\ past2[n + 1] = now
       /\ \A i \in 1 .. n : past2[i] = past[i]
       /\ Limits!Ordered(past2, now) /\ Limits!Spaced(past2, R)
  BY <1>2, <1>5, <1>11, FurtherPast DEF n
<1> HIDE DEF past2
<1>13. Len(past2) - r2.count = before BY <1>1, <1>2, <1>8, <1>12
<1> HIDE DEF before
<1>14. past2[before + 1] = past[before + 1] BY <1>6, <1>12
<1>15. Limits!Counts(r2, past2, R)
  BY <1>1, <1>2, <1>3, <1>8, <1>9, <1>12, <1>13, <1>14 DEF Limits!Counts
<1>16. Limits!Older(r2, past2, R, now)
  <2>1. ASSUME NEW i \in 1 .. n + 1
        PROVE  /\ i <= before - R => past2[i] + (LimitWindow - LimitLag) <= past2[before + 1]
               /\ i <= before - 2 * R => past2[i] + LimitWindow <= now
    <3>1. i <= before - R => i \in 1 .. n BY <1>1, <1>2, <1>10
    <3>2. i <= before - 2 * R => i \in 1 .. n BY <1>1, <1>2, <1>10
    <3> QED BY <1>4, <1>12, <1>14, <3>1, <3>2
  <2>2. r2.count > 0 BY <1>2, <1>8
  <2> QED BY <1>12, <1>13, <2>1, <2>2 DEF Limits!Older
<1> QED BY <1>12, <1>15, <1>16 DEF Limits!Sound, past2, r2

-----------------------------------------------------------------------------
(* Rate limits: the live rows *)

\* The component's own copy of FiniteSets is the library's.
LEMMA LimitSets ==
  ASSUME NEW S
  PROVE  (Limits!IsFiniteSet(S) <=> IsFiniteSet(S)) /\ Limits!Cardinality(S) = Cardinality(S)
BY DEF Limits!IsFiniteSet, IsFiniteSet, Limits!Cardinality, Cardinality

\* Four sets of subjects that hold the live rows, with the global window's count.
Begun(b, now, edge, g, first, current, previous, older) ==
  /\ Cardinality(first) <= (IF g > 0 THEN 1 ELSE 0)
  /\ Cardinality(current) <= (IF g > 0 THEN g - 1 ELSE 0)
  /\ Cardinality(previous) <= GlobalLimit - 1
  /\ Cardinality(older) <= (IF LimitLag = 0 THEN 0 ELSE GlobalLimit - 1)
  /\ \A s \in Clients : b[s].count > 0 =>
       \/ b[s].expires <= now
       \/ s \in first /\ b[s].expires <= edge
       \/ s \in current /\ b[s].expires < edge + LimitWindow
       \/ s \in previous /\ b[s].expires < edge + LimitLag
       \/ s \in older /\ b[s].expires + LimitWindow < edge + 2 * LimitLag

\* The limiter's table.
Buckets == [Clients \cup {"global"} -> [count : Nat, expires : Nat]]

\* RowsBegun in these words.
LEMMA BegunRows ==
  ASSUME NEW b, NEW now
  PROVE  Limits!RowsBegun(b, now) <=>
           \E first, current, previous, older \in SUBSET Clients :
             Begun(b, now, Limits!Edge(b, now), b["global"].count,
                   first, current, previous, older)
BY LimitSets DEF Limits!RowsBegun, Begun

\* The clock may go on.
LEMMA RowsLater ==
  ASSUME Limits!LimiterAssumption, NEW b \in Buckets, NEW now \in Nat, Limits!RowsBegun(b, now)
  PROVE  Limits!RowsBegun(b, now + 1)
<1> DEFINE edge == Limits!Edge(b, now)
           edge2 == Limits!Edge(b, now + 1)
           g == b["global"].count
<1>1. PICK first, current, previous, older \in SUBSET Clients :
        Begun(b, now, edge, g, first, current, previous, older)
  BY BegunRows
<1>2. LimitWindow \in Nat /\ LimitLag \in Nat BY LimitConstants
<1>3. b["global"] \in [count : Nat, expires : Nat] BY DEF Buckets
<1>4. edge \in Int /\ edge2 \in Int /\ edge <= edge2
  BY <1>2, <1>3 DEF Limits!Edge
<1> HIDE DEF edge, edge2, g
<1>5. Begun(b, now + 1, edge2, g, first, current, previous, older)
  <2> SUFFICES ASSUME NEW s \in Clients, b[s].count > 0
               PROVE  \/ b[s].expires <= now + 1
                      \/ s \in first /\ b[s].expires <= edge2
                      \/ s \in current /\ b[s].expires < edge2 + LimitWindow
                      \/ s \in previous /\ b[s].expires < edge2 + LimitLag
                      \/ s \in older /\ b[s].expires + LimitWindow < edge2 + 2 * LimitLag
    BY <1>1 DEF Begun
  <2>1. \/ b[s].expires <= now
        \/ s \in first /\ b[s].expires <= edge
        \/ s \in current /\ b[s].expires < edge + LimitWindow
        \/ s \in previous /\ b[s].expires < edge + LimitLag
        \/ s \in older /\ b[s].expires + LimitWindow < edge + 2 * LimitLag
    BY <1>1 DEF Begun
  <2>2. PICK e \in Nat : e = b[s].expires BY DEF Buckets
  <2> QED BY <1>2, <1>4, <2>1, <2>2
<1> QED BY <1>5, BegunRows DEF edge2, g

\* Rows of subjects may vanish.
LEMMA RowsFewer ==
  ASSUME NEW b \in Buckets, NEW c, NEW now, Limits!RowsBegun(b, now),
         c["global"] = b["global"],
         \A s \in Clients : c[s].count > 0 => b[s].count > 0 /\ c[s].expires = b[s].expires
  PROVE  Limits!RowsBegun(c, now)
<1>1. PICK first, current, previous, older \in SUBSET Clients :
        Begun(b, now, Limits!Edge(b, now), b["global"].count, first, current, previous, older)
  BY BegunRows
<1>2. Limits!Edge(c, now) = Limits!Edge(b, now) BY DEF Limits!Edge
<1>3. Begun(c, now, Limits!Edge(c, now), c["global"].count, first, current, previous, older)
  BY <1>1, <1>2, Zenon DEF Begun
<1> QED BY <1>3, BegunRows

\* When the global window is over, its rows are the previous window's.
LEMMA RowsEnd ==
  ASSUME Limits!LimiterAssumption, NEW b \in Buckets, NEW c, NEW now \in Nat,
         Limits!RowsBegun(b, now),
         b["global"].count > 0, b["global"].count <= GlobalLimit, b["global"].expires <= now,
         c["global"] = Limits!NoBucket,
         \A s \in Clients : c[s].count > 0 => b[s].count > 0 /\ c[s].expires = b[s].expires
  PROVE  Limits!RowsBegun(c, now)
<1> DEFINE edge == b["global"].expires
           edge2 == now + (LimitWindow - LimitLag)
           g == b["global"].count
<1>1. PICK first, current, previous, older \in SUBSET Clients :
        Begun(b, now, edge, g, first, current, previous, older)
  BY BegunRows DEF Limits!Edge
<1>2. /\ LimitWindow \in Nat /\ LimitLag \in Nat /\ 2 * LimitLag <= LimitWindow
      /\ GlobalLimit \in Nat /\ GlobalLimit >= 1
  BY LimitConstants
<1>3. b["global"] \in [count : Nat, expires : Nat] BY DEF Buckets
<1>4. edge \in Nat /\ g \in Nat /\ edge <= now /\ g > 0 /\ g <= GlobalLimit BY <1>3
<1> HIDE DEF edge, g
<1> DEFINE older2 == IF LimitLag = 0 THEN {} ELSE previous
<1>5. IsFiniteSet(Clients) BY LimitSets DEF Limits!LimiterAssumption
<1>6. /\ Cardinality({}) = 0 /\ Cardinality(current) \in Nat /\ Cardinality(previous) \in Nat
  BY <1>5, FS_EmptySet, FS_Subset, FS_CardinalityType
<1>7. Cardinality(current) <= GlobalLimit - 1 BY <1>1, <1>2, <1>4, <1>6 DEF Begun
<1>8. Cardinality(older2) <= (IF LimitLag = 0 THEN 0 ELSE GlobalLimit - 1)
  BY <1>1, <1>6 DEF Begun
<1>9. ASSUME NEW s \in Clients, c[s].count > 0
      PROVE  \/ c[s].expires <= now
             \/ s \in current /\ c[s].expires < edge2 + LimitLag
             \/ s \in older2 /\ c[s].expires + LimitWindow < edge2 + 2 * LimitLag
  <2>1. \/ b[s].expires <= now
        \/ s \in first /\ b[s].expires <= edge
        \/ s \in current /\ b[s].expires < edge + LimitWindow
        \/ s \in previous /\ b[s].expires < edge + LimitLag
        \/ s \in older /\ b[s].expires + LimitWindow < edge + 2 * LimitLag
    BY <1>1, <1>9 DEF Begun
  <2>2. PICK e \in Nat : e = b[s].expires BY DEF Buckets
  <2>3. c[s].expires = e BY <1>9, <2>2
  <2>4. CASE e <= now BY <2>3, <2>4
  <2>5. CASE e <= edge BY <1>4, <2>3, <2>5
  <2>6. CASE s \in current /\ e < edge + LimitWindow
    <3>1. e < edge2 + LimitLag BY <1>2, <1>4, <2>6
    <3> QED BY <2>3, <2>6, <3>1
  <2>7. CASE s \in previous /\ e < edge + LimitLag
    <3>1. CASE LimitLag = 0 BY <1>2, <1>4, <2>3, <2>7, <3>1
    <3>2. CASE LimitLag # 0
      <4>1. e + LimitWindow < edge2 + 2 * LimitLag BY <1>2, <1>4, <2>7
      <4> QED BY <2>3, <2>7, <3>2, <4>1
    <3> QED BY <3>1, <3>2
  <2>8. CASE e + LimitWindow < edge + 2 * LimitLag
    <3>1. e <= now BY <1>2, <1>4, <2>8
    <3> QED BY <2>3, <3>1
  <2> QED BY <2>1, <2>2, <2>4, <2>5, <2>6, <2>7, <2>8
<1>10. c["global"].count = 0 BY DEF Limits!NoBucket
<1>11. Limits!Edge(c, now) = edge2 BY <1>10 DEF Limits!Edge
<1> HIDE DEF edge2
<1>12. older2 \in SUBSET Clients OBVIOUS
<1> HIDE DEF older2
<1>13. Begun(c, now, edge2, 0, {}, {}, current, older2)
  BY <1>6, <1>7, <1>8, <1>9 DEF Begun
<1>14. Begun(c, now, Limits!Edge(c, now), c["global"].count, {}, {}, current, older2)
  BY <1>10, <1>11, <1>13
<1> QED BY <1>12, <1>14, BegunRows

\* A new global window: its first row ends with it.
LEMMA RowsFirst ==
  ASSUME Limits!LimiterAssumption, NEW b \in Buckets, NEW c, NEW now \in Nat,
         Limits!RowsBegun(b, now), b["global"].count = 0,
         NEW m \in Nat, now <= m + LimitLag, NEW s \in Clients,
         c["global"] = [count |-> 1, expires |-> m + LimitWindow],
         \A x \in Clients : c[x].count > 0 =>
           \/ b[x].count > 0 /\ c[x].expires = b[x].expires
           \/ x = s /\ c[x].expires = m + LimitWindow
  PROVE  Limits!RowsBegun(c, now)
<1> DEFINE edge == now + (LimitWindow - LimitLag)
           edge2 == m + LimitWindow
<1>1. PICK first, current, previous, older \in SUBSET Clients :
        Begun(b, now, edge, 0, first, current, previous, older)
  BY BegunRows DEF Limits!Edge
<1>2. LimitWindow \in Nat /\ LimitLag \in Nat BY LimitConstants
<1>3. edge \in Int /\ edge2 \in Nat /\ edge <= edge2 BY <1>2
<1>4. IsFiniteSet(Clients) BY LimitSets DEF Limits!LimiterAssumption
<1>5. /\ Cardinality({}) = 0 /\ Cardinality({s}) = 1
      /\ IsFiniteSet(first) /\ IsFiniteSet(current)
      /\ Cardinality(first) \in Nat /\ Cardinality(current) \in Nat
  BY <1>4, FS_EmptySet, FS_Singleton, FS_Subset, FS_CardinalityType
<1>6. first = {} /\ current = {}
  <2>1. Cardinality(first) <= 0 /\ Cardinality(current) <= 0 BY <1>1 DEF Begun
  <2>2. Cardinality(first) = 0 /\ Cardinality(current) = 0 BY <1>5, <2>1
  <2> QED BY <1>5, <2>2, FS_EmptySet
<1>7. ASSUME NEW x \in Clients, c[x].count > 0
      PROVE  \/ c[x].expires <= now
             \/ x \in {s} /\ c[x].expires <= edge2
             \/ x \in previous /\ c[x].expires < edge2 + LimitLag
             \/ x \in older /\ c[x].expires + LimitWindow < edge2 + 2 * LimitLag
  <2>1. CASE x = s /\ c[x].expires = edge2 BY <1>3, <2>1
  <2>2. CASE b[x].count > 0 /\ c[x].expires = b[x].expires
    <3>1. PICK e \in Nat : e = b[x].expires BY DEF Buckets
    <3>2. \/ b[x].expires <= now
          \/ x \in previous /\ b[x].expires < edge + LimitLag
          \/ x \in older /\ b[x].expires + LimitWindow < edge + 2 * LimitLag
      BY <1>1, <1>6, <2>2 DEF Begun
    <3> HIDE DEF edge, edge2
    <3>3. \/ e <= now
          \/ x \in previous /\ e < edge2 + LimitLag
          \/ x \in older /\ e + LimitWindow < edge2 + 2 * LimitLag
      BY <1>2, <1>3, <3>1, <3>2
    <3> QED BY <2>2, <3>1, <3>3
  <2> QED BY <1>7, <2>1, <2>2
<1>8. c["global"].count = 1 /\ Limits!Edge(c, now) = edge2 BY DEF Limits!Edge
<1> HIDE DEF edge, edge2
<1>9. Begun(c, now, edge2, 1, {s}, {}, previous, older) BY <1>1, <1>5, <1>7 DEF Begun
<1>10. Begun(c, now, Limits!Edge(c, now), c["global"].count, {s}, {}, previous, older)
  BY <1>8, <1>9
<1> QED BY <1>10, BegunRows

\* One more attempt in the current global window begins one more row at most.
LEMMA RowsCurrent ==
  ASSUME Limits!LimiterAssumption, NEW b \in Buckets, NEW c, NEW now \in Nat,
         Limits!RowsBegun(b, now), b["global"].count > 0,
         NEW m \in Nat, m < b["global"].expires, NEW s \in Clients,
         c["global"] = [count |-> b["global"].count + 1, expires |-> b["global"].expires],
         \A x \in Clients : c[x].count > 0 =>
           \/ b[x].count > 0 /\ c[x].expires = b[x].expires
           \/ x = s /\ c[x].expires = m + LimitWindow
  PROVE  Limits!RowsBegun(c, now)
<1> DEFINE edge == b["global"].expires
           g == b["global"].count
<1>1. PICK first, current, previous, older \in SUBSET Clients :
        Begun(b, now, edge, g, first, current, previous, older)
  BY BegunRows DEF Limits!Edge
<1>2. LimitWindow \in Nat /\ LimitLag \in Nat BY LimitConstants
<1>3. b["global"] \in [count : Nat, expires : Nat] BY DEF Buckets
<1>4. c["global"].count = g + 1 /\ c["global"].expires = edge BY <1>3
<1>5. edge \in Nat /\ g \in Nat /\ g > 0 /\ m < edge BY <1>3
<1>6. Limits!Edge(c, now) = edge BY <1>4, <1>5 DEF Limits!Edge
<1> HIDE DEF edge, g
<1> DEFINE current2 == current \cup {s}
<1>7. IsFiniteSet(Clients) BY LimitSets DEF Limits!LimiterAssumption
<1>8. Cardinality(current2) <= g /\ Cardinality(first) <= 1
  <2>1. IsFiniteSet(current) /\ Cardinality(current) \in Nat
    BY <1>7, FS_Subset, FS_CardinalityType
  <2>2. Cardinality(current) <= g - 1 /\ Cardinality(first) <= 1 BY <1>1, <1>5 DEF Begun
  <2>3. Cardinality(current2) \in {Cardinality(current), Cardinality(current) + 1}
    BY <2>1, FS_AddElement
  <2> QED BY <1>5, <2>1, <2>2, <2>3
<1>9. ASSUME NEW x \in Clients, c[x].count > 0
      PROVE  \/ c[x].expires <= now
             \/ x \in first /\ c[x].expires <= edge
             \/ x \in current2 /\ c[x].expires < edge + LimitWindow
             \/ x \in previous /\ c[x].expires < edge + LimitLag
             \/ x \in older /\ c[x].expires + LimitWindow < edge + 2 * LimitLag
  <2>1. CASE x = s /\ c[x].expires = m + LimitWindow BY <1>2, <1>5, <2>1
  <2>2. CASE b[x].count > 0 /\ c[x].expires = b[x].expires BY <1>1, <2>2 DEF Begun
  <2> QED BY <1>9, <2>1, <2>2
<1>10. current2 \in SUBSET Clients OBVIOUS
<1> HIDE DEF current2
<1>11. g + 1 > 0 /\ (g + 1) - 1 = g BY <1>5
<1>12. Begun(c, now, edge, g + 1, first, current2, previous, older)
  BY <1>1, <1>8, <1>9, <1>11 DEF Begun
<1>13. Begun(c, now, Limits!Edge(c, now), c["global"].count, first, current2, previous, older)
  BY <1>4, <1>6, <1>12
<1> QED BY <1>10, <1>13, BegunRows

-----------------------------------------------------------------------------
(* Rate limits: each step *)

\* What the invariant says of the limiter's state.
LEMMA LimitFacts ==
  ASSUME Limits!LimiterAssumption, Limits!IInv
  PROVE  /\ bucket \in Buckets /\ Limits!Keys = Clients \cup {"global"}
         /\ limitClock \in Nat /\ limitClock <= LimitTime
         /\ \A k \in Limits!Keys :
              /\ consumed[k] \in Seq(Nat) /\ bucket[k] \in [count : Nat, expires : Nat]
              /\ Limits!Sound(bucket[k], consumed[k], Limits!Rule(k), limitClock)
              /\ Limits!Rule(k) \in Nat /\ Limits!Rule(k) >= 1
         /\ Limits!RowsBegun(bucket, limitClock)
<1>1. Limits!TypeOK BY DEF Limits!IInv
<1>2. \A k \in Limits!Keys : consumed[k] \in Seq(Nat)
  <2>1. LimitTime \in Nat BY LimitConstants
  <2> SUFFICES ASSUME NEW k \in Limits!Keys PROVE consumed[k] \in Seq(Nat) OBVIOUS
  <2>2. consumed[k] \in Seq(0 .. LimitTime) BY <1>1 DEF Limits!TypeOK, Limits!Times
  <2> QED BY <2>1, <2>2
<1>3. \A k \in Limits!Keys : Limits!Rule(k) \in Nat /\ Limits!Rule(k) >= 1
  BY LimitConstants DEF Limits!Rule
<1>4. bucket \in Buckets BY <1>1 DEF Limits!TypeOK, Buckets, Limits!Keys
<1>5. \A k \in Limits!Keys : bucket[k] \in [count : Nat, expires : Nat]
  BY <1>1 DEF Limits!TypeOK
<1>6. limitClock \in Nat /\ limitClock <= LimitTime
  BY <1>1, LimitConstants DEF Limits!TypeOK, Limits!Times
<1> QED BY <1>2, <1>3, <1>4, <1>5, <1>6 DEF Limits!IInv, Limits!Keys

\* An attempt on a bucket that can take it.
LEMMA ConsumeSound ==
  ASSUME Limits!LimiterAssumption, NEW r \in [count : Nat, expires : Nat],
         NEW past \in Seq(Nat), NEW R \in Nat, NEW now \in Nat, NEW m \in Nat, R >= 1,
         m <= now, now <= m + LimitLag, Limits!Sound(r, past, R, now),
         r.count = 0 \/ r.expires <= m \/ r.count < R
  PROVE  Limits!Sound(IF r.count = 0 \/ r.expires <= m
                      THEN [count |-> 1, expires |-> m + LimitWindow]
                      ELSE [count |-> r.count + 1, expires |-> r.expires], Append(past, now), R, now)
<1>1. r.count \in Nat /\ r.expires \in Nat OBVIOUS
<1>2. CASE r.count = 0 BY <1>2, RenewSound
<1>3. CASE r.count # 0 /\ r.expires <= m
  <2>1. Limits!Sound(Limits!NoBucket, past, R, now) BY <1>1, <1>3, DropSound
  <2>2. Limits!NoBucket \in [count : Nat, expires : Nat] /\ Limits!NoBucket.count = 0
    BY DEF Limits!NoBucket
  <2> HIDE DEF Limits!NoBucket
  <2> QED BY <1>3, <2>1, <2>2, RenewSound
<1>4. CASE r.count # 0 /\ ~(r.expires <= m)
  <2>1. r.count > 0 /\ r.count < R BY <1>1, <1>4
  <2>2. Limits!Sound([count |-> r.count + 1, expires |-> r.expires], Append(past, now), R, now)
    BY <2>1, CountSound
  <2> QED BY <1>4, <2>2
<1> QED BY <1>2, <1>3, <1>4

\* A denied key's row is full and current, and Retry-After outlasts it.
LEMMA DenyJustified ==
  ASSUME Limits!LimiterAssumption, NEW b \in Buckets, NEW k \in Clients \cup {"global"},
         NEW past \in Seq(Nat), NEW now \in Nat, NEW m \in Nat,
         m <= now, now <= m + LimitLag,
         Limits!Sound(b[k], past, Limits!Rule(k), now), ~Limits!Consumable(b, k, m)
  PROVE  /\ b[k].count = Limits!Rule(k)
         /\ Limits!RetryAfter(b, k, m) \in 0 .. LimitWindow
         /\ LimitLag = 0 /\ b[k].expires > now =>
              b[k].expires <= m + Limits!RetryAfter(b, k, m)
<1> DEFINE first == Len(past) - b[k].count + 1
<1>1. LimitWindow \in Nat /\ LimitWindow >= 1 /\ LimitLag \in Nat BY LimitConstants
<1>2. b[k] \in [count : Nat, expires : Nat] BY DEF Buckets
<1>3. PICK c \in Nat : c = b[k].count BY <1>2
<1>4. PICK e \in Nat : e = b[k].expires BY <1>2
<1>5. PICK R \in Nat : R = Limits!Rule(k) BY LimitConstants DEF Limits!Rule
<1>6. c # 0 /\ ~(e <= m) /\ ~(c < R)
  BY <1>3, <1>4, <1>5 DEF Limits!Consumable, Limits!Expired
<1>7. c <= R /\ c <= Len(past) /\ e <= past[first] + LimitWindow
  BY <1>3, <1>4, <1>5, <1>6 DEF Limits!Sound, Limits!Counts
<1>8. first \in 1 .. Len(past)
  <2>1. Len(past) \in Nat /\ first = Len(past) - c + 1 BY <1>3
  <2> HIDE DEF first
  <2> QED BY <1>6, <1>7, <2>1
<1>9. past[first] <= now /\ past[first] \in Nat
  BY <1>8, PastTimes DEF Limits!Sound, Limits!Ordered
<1>10. e <= now + LimitWindow BY <1>1, <1>7, <1>9
<1>11. Limits!RetryAfter(b, k, m) = IF e - m < 1 THEN 1
                                    ELSE IF e - m > LimitWindow THEN LimitWindow ELSE e - m
  BY <1>4 DEF Limits!RetryAfter
<1> HIDE DEF first
<1>12. Limits!RetryAfter(b, k, m) \in 0 .. LimitWindow BY <1>1, <1>11
<1>13. LimitLag = 0 /\ e > now => e <= m + Limits!RetryAfter(b, k, m)
  BY <1>1, <1>10, <1>11
<1>14. c = R BY <1>6, <1>7
<1> QED BY <1>3, <1>4, <1>5, <1>12, <1>13, <1>14

\* What a decision does to the table: the global row counts it, the subject's
\* row may, and others at most vanish.
LEMMA EnforceRows ==
  ASSUME Limits!LimiterAssumption, Limits!IInv, NEW m \in Nat, NEW s \in Clients, NEW c,
         m <= limitClock, limitClock <= m + LimitLag,
         c["global"] = Limits!Consumed(bucket, "global", m)["global"],
         \A x \in Clients : c[x].count > 0 =>
           \/ bucket[x].count > 0 /\ c[x].expires = bucket[x].expires
           \/ x = s /\ c[x].expires = m + LimitWindow
  PROVE  Limits!RowsBegun(c, limitClock)
<1>1. /\ bucket \in Buckets /\ limitClock \in Nat
      /\ Limits!RowsBegun(bucket, limitClock)
      /\ bucket["global"] \in [count : Nat, expires : Nat]
      /\ Limits!Sound(bucket["global"], consumed["global"], Limits!Rule("global"), limitClock)
  BY LimitFacts
<1>2. bucket["global"].count <= GlobalLimit
  BY <1>1 DEF Limits!Sound, Limits!Counts, Limits!Rule
<1>3. c["global"] = IF bucket["global"].count = 0 \/ bucket["global"].expires <= m
                    THEN [count |-> 1, expires |-> m + LimitWindow]
                    ELSE [count |-> bucket["global"].count + 1,
                          expires |-> bucket["global"].expires]
  BY <1>1 DEF Limits!Consumed, Buckets
<1>4. bucket["global"].count \in Nat /\ bucket["global"].expires \in Nat BY <1>1
<1>5. CASE bucket["global"].count = 0 BY <1>1, <1>3, <1>5, RowsFirst
<1>6. CASE bucket["global"].count # 0 /\ bucket["global"].expires <= m
  <2> DEFINE b == [bucket EXCEPT !["global"] = Limits!NoBucket]
  <2>1. Limits!NoBucket \in [count : Nat, expires : Nat] /\ Limits!NoBucket.count = 0
    BY DEF Limits!NoBucket
  <2>2. b \in Buckets BY <1>1, <2>1 DEF Buckets
  <2>3. b["global"] = Limits!NoBucket /\ \A x \in Clients : b[x] = bucket[x]
    BY <1>1, LimitConstants DEF Buckets
  <2> HIDE DEF b, Limits!NoBucket
  <2>4. Limits!RowsBegun(b, limitClock) BY <1>1, <1>2, <1>4, <1>6, <2>3, RowsEnd
  <2> QED BY <1>1, <1>3, <1>6, <2>1, <2>2, <2>3, <2>4, RowsFirst
<1>7. CASE bucket["global"].count # 0 /\ ~(bucket["global"].expires <= m)
  BY <1>1, <1>3, <1>4, <1>7, RowsCurrent
<1> QED BY <1>5, <1>6, <1>7

\* Of the history only the keys that consumed grow, at the clock.
LEMMA FurtherTyped ==
  ASSUME Limits!LimiterAssumption, Limits!IInv, NEW K \in SUBSET Limits!Keys,
         NEW spent2,
         spent2 = [k \in Limits!Keys |->
                     IF k \in K THEN Append(consumed[k], limitClock) ELSE consumed[k]]
  PROVE  spent2 \in [Limits!Keys -> Seq(Limits!Times)]
<1>1. limitClock \in Limits!Times /\ \A k \in Limits!Keys : consumed[k] \in Seq(Limits!Times)
  BY DEF Limits!IInv, Limits!TypeOK
<1>2. \A k \in Limits!Keys : Append(consumed[k], limitClock) \in Seq(Limits!Times)
  BY <1>1, AppendProperties
<1> QED BY <1>1, <1>2

\* The parts of the invariant after a step that leaves the clock alone.
LEMMA LimitsKept ==
  ASSUME Limits!LimiterAssumption, Limits!IInv, limitClock' = limitClock,
         bucket' \in Buckets, consumed' \in [Limits!Keys -> Seq(Limits!Times)],
         decision' \in [allowed : BOOLEAN, key : Limits!Keys, at : Limits!Times,
                        retry : 0 .. LimitWindow],
         \A k \in Limits!Keys :
           Limits!Sound(bucket'[k], consumed'[k], Limits!Rule(k), limitClock),
         Limits!RowsBegun(bucket', limitClock), Limits!DenialJustified'
  PROVE  Limits!IInv'
<1>1. Limits!TypeOK' BY DEF Limits!IInv, Limits!TypeOK, Buckets, Limits!Keys
<1>2. (\A k \in Limits!Keys : Limits!Sound(bucket[k], consumed[k], Limits!Rule(k), limitClock))'
  BY DEF Limits!Keys
<1>3. (Limits!RowsBegun(bucket, limitClock))' OBVIOUS
<1> QED BY <1>1, <1>2, <1>3 DEF Limits!IInv

\* A decision keeps the invariant.
LEMMA EnforceKeeps ==
  ASSUME Limits!LimiterAssumption, Limits!IInv, NEW s \in Clients, NEW m \in Limits!Times,
         Limits!Enforce(s, m)
  PROVE  Limits!IInv'
<1> DEFINE new(r) == IF r.count = 0 \/ r.expires <= m
                     THEN [count |-> 1, expires |-> m + LimitWindow]
                     ELSE [count |-> r.count + 1, expires |-> r.expires]
<1>1. /\ bucket \in Buckets /\ Limits!Keys = Clients \cup {"global"}
      /\ limitClock \in Nat /\ limitClock <= LimitTime
      /\ \A k \in Limits!Keys :
           /\ consumed[k] \in Seq(Nat) /\ bucket[k] \in [count : Nat, expires : Nat]
           /\ Limits!Sound(bucket[k], consumed[k], Limits!Rule(k), limitClock)
           /\ Limits!Rule(k) \in Nat /\ Limits!Rule(k) >= 1
      /\ Limits!RowsBegun(bucket, limitClock)
  BY LimitFacts
<1>2. /\ LimitWindow \in Nat /\ LimitWindow >= 1 /\ LimitLag \in Nat /\ LimitTime \in Nat
      /\ "global" \notin Clients /\ s # "global"
  BY LimitConstants
<1>3. m \in Nat /\ m <= limitClock /\ limitClock <= m + LimitLag /\ limitClock' = limitClock
  BY <1>1, <1>2 DEF Limits!Enforce, Limits!Times
<1>4. \A r \in [count : Nat, expires : Nat] :
        new(r) \in [count : Nat, expires : Nat] /\ new(r).count > 0 /\ new(r).expires > m
  BY <1>2, <1>3
<1>5. \A b \in Buckets : \A k \in Limits!Keys :
        Limits!Consumed(b, k, m) = [b EXCEPT ![k] = new(b[k])]
  BY DEF Limits!Consumed
<1> HIDE DEF new
<1>6. consumed = [k \in Limits!Keys |-> consumed[k]]
      /\ consumed \in [Limits!Keys -> Seq(Limits!Times)]
  BY DEF Limits!IInv, Limits!TypeOK
<1>7. CASE ~Limits!Consumable(bucket, "global", m)
  <2>1. /\ decision' = [allowed |-> FALSE, key |-> "global", at |-> m,
                        retry |-> Limits!RetryAfter(bucket, "global", m)]
        /\ bucket' = bucket /\ consumed' = consumed
    BY <1>7 DEF Limits!Enforce, Limits!Deny
  <2>2. /\ bucket["global"].count = Limits!Rule("global")
        /\ Limits!RetryAfter(bucket, "global", m) \in 0 .. LimitWindow
        /\ LimitLag = 0 /\ bucket["global"].expires > limitClock =>
             bucket["global"].expires <= m + Limits!RetryAfter(bucket, "global", m)
    BY <1>1, <1>3, <1>7, DenyJustified
  <2>3. Limits!DenialJustified'
    BY <1>3, <2>1, <2>2 DEF Limits!DenialJustified, Limits!Rule
  <2> QED BY <1>1, <1>3, <1>6, <2>1, <2>2, <2>3, LimitsKept
<1>8. CASE Limits!Consumable(bucket, "global", m)
  <2> DEFINE counted == Limits!Consumed(bucket, "global", m)
  <2>1. PICK S \in SUBSET {k \in Limits!Keys : Limits!Expired(counted, k, m)} :
          LET b == Limits!Purged(counted, S)
          IN IF Limits!Consumable(b, s, m)
             THEN bucket' = Limits!Consumed(b, s, m) /\ Limits!Allow(s, m)
             ELSE bucket' = b /\ Limits!Deny(b, s, m)
                  /\ consumed' = [consumed EXCEPT !["global"] = Append(@, limitClock)]
    BY <1>8 DEF Limits!Enforce
  <2> DEFINE b == Limits!Purged(counted, S)
  <2>2. counted = [bucket EXCEPT !["global"] = new(bucket["global"])] BY <1>1, <1>5
  <2>3. counted["global"] = new(bucket["global"]) /\ \A k \in Clients : counted[k] = bucket[k]
    BY <1>1, <1>2, <2>2 DEF Buckets
  <2>4. "global" \notin S
    <3>1. counted["global"].expires > m /\ counted["global"].expires \in Nat
      BY <1>1, <1>4, <2>3
    <3> QED BY <1>3, <3>1 DEF Limits!Expired
  <2>5. \A k \in S : k \in Clients /\ bucket[k].count > 0 /\ bucket[k].expires <= m
    BY <1>1, <2>3, <2>4 DEF Limits!Expired
  <2>6. /\ b["global"] = new(bucket["global"])
        /\ \A k \in Clients : b[k] = IF k \in S THEN Limits!NoBucket ELSE bucket[k]
        /\ b \in Buckets
    <3>1. b = [k \in Limits!Keys |-> IF k \in S THEN Limits!NoBucket ELSE counted[k]]
      BY DEF Limits!Purged
    <3>2. Limits!NoBucket \in [count : Nat, expires : Nat] BY DEF Limits!NoBucket
    <3> HIDE DEF b, counted
    <3> QED BY <1>1, <1>4, <2>3, <2>4, <3>1, <3>2 DEF Buckets
  <2>7. /\ Limits!Consumable(b, s, m) =>
             bucket' = [b EXCEPT ![s] = new(b[s])] /\ Limits!Allow(s, m)
        /\ ~Limits!Consumable(b, s, m) =>
             /\ bucket' = b /\ Limits!Deny(b, s, m)
             /\ consumed' = [consumed EXCEPT !["global"] = Append(@, limitClock)]
    BY <1>1, <1>5, <2>1, <2>6
  <2> HIDE DEF b, counted
  <2>8. \A k \in Clients : /\ Limits!Sound(b[k], consumed[k], Limits!Rule(k), limitClock)
                           /\ b[k].count > 0 => b[k] = bucket[k]
    <3> SUFFICES ASSUME NEW k \in Clients
                 PROVE  /\ Limits!Sound(b[k], consumed[k], Limits!Rule(k), limitClock)
                        /\ b[k].count > 0 => b[k] = bucket[k]
      OBVIOUS
    <3>1. CASE k \notin S BY <1>1, <2>6, <3>1
    <3>2. CASE k \in S
      <4>1. bucket[k].count > 0 /\ bucket[k].expires <= limitClock
        <5>1. bucket[k].expires \in Nat BY <1>1
        <5> QED BY <1>1, <1>3, <2>5, <3>2, <5>1
      <4>2. b[k] = Limits!NoBucket BY <2>6, <3>2
      <4>3. Limits!Sound(Limits!NoBucket, consumed[k], Limits!Rule(k), limitClock)
        BY <1>1, <4>1, DropSound
      <4>4. ~(Limits!NoBucket.count > 0) BY DEF Limits!NoBucket
      <4> QED BY <4>2, <4>3, <4>4
    <3> QED BY <3>1, <3>2
  <2>9. Limits!Sound(new(bucket["global"]), Append(consumed["global"], limitClock),
                     Limits!Rule("global"), limitClock)
    <3>1. \/ bucket["global"].count = 0 \/ bucket["global"].expires <= m
          \/ bucket["global"].count < Limits!Rule("global")
      BY <1>8 DEF Limits!Consumable, Limits!Expired
    <3> QED BY <1>1, <1>3, <3>1, ConsumeSound DEF new
  <2>10. CASE Limits!Consumable(b, s, m)
    <3>1. bucket' = [b EXCEPT ![s] = new(b[s])] /\ Limits!Allow(s, m) BY <2>7, <2>10
    <3>2. b[s] \in [count : Nat, expires : Nat] BY <2>6 DEF Buckets
    <3>3. /\ bucket' \in Buckets /\ bucket'[s] = new(b[s])
          /\ bucket'["global"] = new(bucket["global"])
          /\ \A k \in Clients \ {s} : bucket'[k] = b[k]
      BY <1>2, <1>4, <2>6, <3>1, <3>2 DEF Buckets
    <3>4. consumed' = [k \in Limits!Keys |->
                         IF k \in {s, "global"} THEN Append(consumed[k], limitClock)
                         ELSE consumed[k]]
      BY <1>1, <1>2, <1>6, <3>1 DEF Limits!Allow
    <3>5. consumed' \in [Limits!Keys -> Seq(Limits!Times)]
      <4>1. {s, "global"} \in SUBSET Limits!Keys BY <1>1
      <4> QED BY <3>4, <4>1, FurtherTyped, Zenon
    <3>6. /\ consumed'[s] = Append(consumed[s], limitClock)
          /\ consumed'["global"] = Append(consumed["global"], limitClock)
          /\ \A k \in Clients \ {s} : consumed'[k] = consumed[k]
      BY <1>1, <1>2, <3>4
    <3>7. Limits!Sound(new(b[s]), Append(consumed[s], limitClock), Limits!Rule(s), limitClock)
      <4>1. b[s].count = 0 \/ b[s].expires <= m \/ b[s].count < Limits!Rule(s)
        BY <2>10 DEF Limits!Consumable, Limits!Expired
      <4> QED BY <1>1, <1>3, <2>8, <3>2, <4>1, ConsumeSound DEF new
    <3>8. \A k \in Limits!Keys :
            Limits!Sound(bucket'[k], consumed'[k], Limits!Rule(k), limitClock)
      BY <1>1, <2>8, <2>9, <3>3, <3>6, <3>7
    <3>9. ASSUME NEW x \in Clients, bucket'[x].count > 0
          PROVE  \/ bucket[x].count > 0 /\ bucket'[x].expires = bucket[x].expires
                 \/ x = s /\ bucket'[x].expires = m + LimitWindow
      <4>1. CASE x # s BY <2>8, <3>3, <3>9, <4>1
      <4>2. CASE x = s /\ (b[s].count = 0 \/ b[s].expires <= m)
        BY <3>3, <4>2 DEF new
      <4>3. CASE x = s /\ ~(b[s].count = 0 \/ b[s].expires <= m)
        <5>1. b[s].count > 0 /\ b[s].count \in Nat BY <3>2, <4>3
        <5>2. bucket'[s].expires = b[s].expires BY <3>3, <4>3 DEF new
        <5> QED BY <2>8, <4>3, <5>1, <5>2
      <4> QED BY <4>1, <4>2, <4>3
    <3>10. Limits!RowsBegun(bucket', limitClock)
      <4>1. bucket'["global"] = Limits!Consumed(bucket, "global", m)["global"]
        BY <2>3, <3>3 DEF counted
      <4> QED BY <1>3, <3>9, <4>1, EnforceRows
    <3>11. decision' = [allowed |-> TRUE, key |-> s, at |-> m, retry |-> 0]
      BY <3>1 DEF Limits!Allow
    <3>12. Limits!DenialJustified' BY <3>11 DEF Limits!DenialJustified
    <3>13. decision' \in [allowed : BOOLEAN, key : Limits!Keys, at : Limits!Times,
                          retry : 0 .. LimitWindow]
      BY <1>1, <1>2, <3>11
    <3> QED BY <1>3, <3>3, <3>5, <3>8, <3>10, <3>12, <3>13, LimitsKept
  <2>11. CASE ~Limits!Consumable(b, s, m)
    <3>1. /\ bucket' = b /\ Limits!Deny(b, s, m)
          /\ consumed' = [consumed EXCEPT !["global"] = Append(@, limitClock)]
      BY <2>7, <2>11
    <3>2. consumed' = [k \in Limits!Keys |->
                         IF k \in {"global"} THEN Append(consumed[k], limitClock)
                         ELSE consumed[k]]
      BY <1>1, <1>2, <1>6, <3>1
    <3>3. consumed' \in [Limits!Keys -> Seq(Limits!Times)]
      BY <1>1, <3>2, FurtherTyped
    <3>4. /\ consumed'["global"] = Append(consumed["global"], limitClock)
          /\ \A k \in Clients : consumed'[k] = consumed[k]
      BY <1>1, <1>2, <3>2
    <3>5. \A k \in Limits!Keys :
            Limits!Sound(bucket'[k], consumed'[k], Limits!Rule(k), limitClock)
      BY <1>1, <2>6, <2>8, <2>9, <3>1, <3>4
    <3>6. Limits!RowsBegun(bucket', limitClock)
      <4>1. bucket'["global"] = Limits!Consumed(bucket, "global", m)["global"]
        BY <2>3, <2>6, <3>1 DEF counted
      <4> QED BY <1>3, <2>8, <3>1, <4>1, EnforceRows
    <3>7. decision' = [allowed |-> FALSE, key |-> s, at |-> m,
                       retry |-> Limits!RetryAfter(b, s, m)]
      BY <3>1 DEF Limits!Deny
    <3>8. /\ b[s].count = Limits!Rule(s)
          /\ Limits!RetryAfter(b, s, m) \in 0 .. LimitWindow
          /\ LimitLag = 0 /\ b[s].expires > limitClock =>
               b[s].expires <= m + Limits!RetryAfter(b, s, m)
      BY <1>1, <1>3, <2>6, <2>8, <2>11, DenyJustified
    <3>9. Limits!DenialJustified'
      BY <1>3, <3>1, <3>7, <3>8 DEF Limits!DenialJustified, Limits!Rule
    <3>10. decision' \in [allowed : BOOLEAN, key : Limits!Keys, at : Limits!Times,
                          retry : 0 .. LimitWindow]
      BY <1>1, <3>7, <3>8
    <3> QED BY <1>3, <2>6, <3>1, <3>3, <3>5, <3>6, <3>9, <3>10, LimitsKept
  <2> QED BY <2>10, <2>11
<1> QED BY <1>7, <1>8

\* A cleanup run by a decision on another action keeps the invariant.
LEMMA PurgeKeeps ==
  ASSUME Limits!LimiterAssumption, Limits!IInv, NEW m \in Limits!Times,
         Limits!PurgeElsewhere(m)
  PROVE  Limits!IInv'
<1>1. /\ bucket \in Buckets /\ Limits!Keys = Clients \cup {"global"}
      /\ limitClock \in Nat /\ limitClock <= LimitTime
      /\ \A k \in Limits!Keys :
           /\ consumed[k] \in Seq(Nat) /\ bucket[k] \in [count : Nat, expires : Nat]
           /\ Limits!Sound(bucket[k], consumed[k], Limits!Rule(k), limitClock)
           /\ Limits!Rule(k) \in Nat /\ Limits!Rule(k) >= 1
      /\ Limits!RowsBegun(bucket, limitClock)
  BY LimitFacts
<1>2. LimitLag \in Nat /\ LimitTime \in Nat BY LimitConstants
<1>3. /\ m \in Nat /\ m <= limitClock
      /\ limitClock' = limitClock /\ consumed' = consumed /\ decision' = decision
  BY <1>1, <1>2 DEF Limits!PurgeElsewhere, Limits!Times
<1>4. PICK S \in SUBSET {k \in Limits!Keys : Limits!Expired(bucket, k, m)} :
        bucket' = Limits!Purged(bucket, S)
  BY DEF Limits!PurgeElsewhere
<1>5. \A k \in S : bucket[k].count > 0 /\ bucket[k].expires <= limitClock
  <2> SUFFICES ASSUME NEW k \in S
               PROVE  bucket[k].count > 0 /\ bucket[k].expires <= limitClock
    OBVIOUS
  <2>1. bucket[k].count > 0 /\ bucket[k].expires <= m BY DEF Limits!Expired
  <2>2. bucket[k].expires \in Nat BY <1>1
  <2> QED BY <1>1, <1>3, <2>1, <2>2
<1>6. bucket' = [k \in Limits!Keys |-> IF k \in S THEN Limits!NoBucket ELSE bucket[k]]
  BY <1>4 DEF Limits!Purged
<1>7. Limits!NoBucket \in [count : Nat, expires : Nat] /\ ~(Limits!NoBucket.count > 0)
      /\ Limits!NoBucket.expires = 0
  BY DEF Limits!NoBucket
<1>8. \A k \in Limits!Keys : bucket'[k] = IF k \in S THEN Limits!NoBucket ELSE bucket[k]
  BY <1>6
<1>9. bucket' \in Buckets BY <1>1, <1>6, <1>7 DEF Buckets
<1>10. \A k \in Limits!Keys :
         Limits!Sound(bucket'[k], consumed'[k], Limits!Rule(k), limitClock)
  <2> SUFFICES ASSUME NEW k \in Limits!Keys
               PROVE  Limits!Sound(bucket'[k], consumed[k], Limits!Rule(k), limitClock)
    BY <1>3
  <2>1. CASE k \notin S BY <1>1, <1>8, <2>1
  <2>2. CASE k \in S
    <3>1. Limits!Sound(Limits!NoBucket, consumed[k], Limits!Rule(k), limitClock)
      BY <1>1, <1>5, <2>2, DropSound
    <3> QED BY <1>8, <2>2, <3>1
  <2> QED BY <2>1, <2>2
<1>11. Limits!RowsBegun(bucket', limitClock)
  <2>1. \A x \in Clients : bucket'[x].count > 0 =>
          bucket[x].count > 0 /\ bucket'[x].expires = bucket[x].expires
    BY <1>1, <1>7, <1>8
  <2>2. CASE "global" \notin S
    <3>1. bucket'["global"] = bucket["global"] BY <1>1, <1>8, <2>2
    <3> QED BY <1>1, <2>1, <3>1, RowsFewer
  <2>3. CASE "global" \in S
    <3>1. bucket'["global"] = Limits!NoBucket BY <1>1, <1>8, <2>3
    <3>2. bucket["global"].count <= GlobalLimit
      BY <1>1 DEF Limits!Sound, Limits!Counts, Limits!Rule
    <3> QED BY <1>1, <1>5, <2>1, <2>3, <3>1, <3>2, RowsEnd
  <2> QED BY <2>2, <2>3
<1>12. Limits!DenialJustified'
  <2>1. decision.key \in Limits!Keys /\ Limits!DenialJustified
    BY DEF Limits!IInv, Limits!TypeOK
  <2>2. CASE decision.key \notin S
    <3>1. bucket'[decision.key] = bucket[decision.key] BY <1>8, <2>1, <2>2
    <3> QED BY <1>3, <2>1, <3>1 DEF Limits!DenialJustified, Limits!Rule
  <2>3. CASE decision.key \in S
    <3>1. bucket'[decision.key].expires = 0 BY <1>7, <1>8, <2>1, <2>3
    <3>2. 0 <= limitClock /\ ~(0 > limitClock) BY <1>1
    <3> QED BY <1>3, <3>1, <3>2 DEF Limits!DenialJustified
  <2> QED BY <2>2, <2>3
<1>13. /\ consumed' \in [Limits!Keys -> Seq(Limits!Times)]
       /\ decision' \in [allowed : BOOLEAN, key : Limits!Keys, at : Limits!Times,
                         retry : 0 .. LimitWindow]
  BY <1>3 DEF Limits!IInv, Limits!TypeOK
<1> QED BY <1>3, <1>9, <1>10, <1>11, <1>12, <1>13, LimitsKept

\* The clock keeps the invariant.
LEMMA ClockKeeps ==
  ASSUME Limits!LimiterAssumption, Limits!IInv, Limits!Tick
  PROVE  Limits!IInv'
<1>1. /\ bucket \in Buckets /\ Limits!Keys = Clients \cup {"global"} /\ limitClock \in Nat
      /\ \A k \in Limits!Keys :
           /\ consumed[k] \in Seq(Nat) /\ bucket[k] \in [count : Nat, expires : Nat]
           /\ Limits!Sound(bucket[k], consumed[k], Limits!Rule(k), limitClock)
           /\ Limits!Rule(k) \in Nat
      /\ Limits!RowsBegun(bucket, limitClock)
  BY LimitFacts
<1>2. /\ limitClock' = limitClock + 1 /\ limitClock < LimitTime
      /\ bucket' = bucket /\ consumed' = consumed /\ decision' = decision
  BY DEF Limits!Tick
<1>3. Limits!TypeOK'
  BY <1>1, <1>2, LimitConstants DEF Limits!IInv, Limits!TypeOK, Limits!Times, Limits!Keys
<1>4. \A k \in Limits!Keys :
        Limits!Sound(bucket[k], consumed[k], Limits!Rule(k), limitClock + 1)
  BY <1>1, TimeSound
<1>5. Limits!RowsBegun(bucket, limitClock + 1) BY <1>1, RowsLater
<1>6. Limits!DenialJustified'
  <2>1. decision.key \in Limits!Keys /\ Limits!DenialJustified
    BY DEF Limits!IInv, Limits!TypeOK
  <2>2. PICK e \in Nat : e = bucket[decision.key].expires BY <1>1, <2>1
  <2>3. (e <= limitClock => e <= limitClock + 1) /\ (e > limitClock + 1 => e > limitClock)
    BY <1>1, <2>2
  <2> QED BY <1>2, <2>1, <2>2, <2>3 DEF Limits!DenialJustified, Limits!Rule
<1>7. (\A k \in Limits!Keys : Limits!Sound(bucket[k], consumed[k], Limits!Rule(k), limitClock))'
  BY <1>2, <1>4 DEF Limits!Keys
<1>8. (Limits!RowsBegun(bucket, limitClock))' BY <1>2, <1>5
<1> QED BY <1>3, <1>6, <1>7, <1>8 DEF Limits!IInv

\* Every step of the limiter keeps the invariant.
LEMMA LimitsNext ==
  ASSUME Limits!LimiterAssumption, Limits!IInv, [Limits!Next]_Limits!vars
  PROVE  Limits!IInv'
<1>1. CASE UNCHANGED Limits!vars
  BY <1>1 DEF Limits!vars, Limits!IInv, Limits!TypeOK, Limits!DenialJustified, Limits!Keys
<1>2. CASE Limits!Next
  <2> HIDE DEF Limits!IInv
  <2> QED BY <1>2, EnforceKeeps, PurgeKeeps, ClockKeeps DEF Limits!Next
<1> QED BY <1>1, <1>2

\* Before the first decision there is neither row nor attempt.
LEMMA LimitsInit ==
  ASSUME Limits!LimiterAssumption, Limits!Init
  PROVE  Limits!IInv
<1>1. /\ bucket = [k \in Limits!Keys |-> Limits!NoBucket] /\ limitClock = 0
      /\ consumed = [k \in Limits!Keys |-> <<>>]
      /\ decision = [allowed |-> TRUE, key |-> "global", at |-> 0, retry |-> 0]
  BY DEF Limits!Init
<1>2. /\ LimitWindow \in Nat /\ LimitLag \in Nat /\ LimitTime \in Nat
      /\ GlobalLimit \in Nat /\ GlobalLimit >= 1 /\ SubjectLimit \in Nat
  BY LimitConstants
<1>3. Limits!TypeOK
  BY <1>1, <1>2 DEF Limits!TypeOK, Limits!Times, Limits!Keys, Limits!NoBucket
<1>4. \A k \in Limits!Keys : Limits!Sound(bucket[k], consumed[k], Limits!Rule(k), limitClock)
  BY <1>1, <1>2 DEF Limits!Sound, Limits!Counts, Limits!Ordered, Limits!Older, Limits!Spaced,
     Limits!NoBucket, Limits!Rule
<1>5. Limits!RowsBegun(bucket, limitClock)
  <2>1. \A k \in Limits!Keys : bucket[k] = [count |-> 0, expires |-> 0]
    BY <1>1 DEF Limits!NoBucket
  <2>2. \A k \in Clients : ~(bucket[k].count > 0) BY <2>1 DEF Limits!Keys
  <2>3. bucket["global"].count = 0 BY <2>1 DEF Limits!Keys
  <2>4. Cardinality({}) = 0 BY FS_EmptySet
  <2>5. Begun(bucket, limitClock, Limits!Edge(bucket, limitClock), 0, {}, {}, {}, {})
    BY <1>2, <2>2, <2>4 DEF Begun
  <2> QED BY <2>3, <2>5, BegunRows
<1>6. Limits!DenialJustified BY <1>1 DEF Limits!DenialJustified
<1> QED BY <1>3, <1>4, <1>5, <1>6 DEF Limits!IInv

\* Four bounded sets bound what they cover.
LEMMA FourSets ==
  ASSUME NEW A, NEW B, NEW C, NEW D, NEW X, X \subseteq A \cup B \cup C \cup D,
         IsFiniteSet(A), IsFiniteSet(B), IsFiniteSet(C), IsFiniteSet(D)
  PROVE  /\ Cardinality(A) \in Nat /\ Cardinality(B) \in Nat
         /\ Cardinality(C) \in Nat /\ Cardinality(D) \in Nat /\ Cardinality(X) \in Nat
         /\ Cardinality(X) <=
              Cardinality(A) + Cardinality(B) + Cardinality(C) + Cardinality(D)
<1>1. ASSUME NEW S, NEW T, IsFiniteSet(S), IsFiniteSet(T)
      PROVE  /\ IsFiniteSet(S \cup T) /\ Cardinality(S \cup T) \in Nat
             /\ Cardinality(S) \in Nat /\ Cardinality(T) \in Nat
             /\ Cardinality(S \cup T) <= Cardinality(S) + Cardinality(T)
  <2>1. IsFiniteSet(S \cup T)
        /\ Cardinality(S \cup T) = Cardinality(S) + Cardinality(T) - Cardinality(S \cap T)
    BY <1>1, FS_Union
  <2>2. IsFiniteSet(S \cap T) BY <1>1, FS_Intersection
  <2>3. /\ Cardinality(S) \in Nat /\ Cardinality(T) \in Nat /\ Cardinality(S \cap T) \in Nat
        /\ Cardinality(S \cup T) \in Nat
    BY <1>1, <2>1, <2>2, FS_CardinalityType
  <2> QED BY <2>1, <2>3
<1> DEFINE AB == A \cup B
           CD == C \cup D
<1>2. IsFiniteSet(AB) /\ Cardinality(AB) <= Cardinality(A) + Cardinality(B)
      /\ Cardinality(AB) \in Nat /\ Cardinality(A) \in Nat /\ Cardinality(B) \in Nat
  BY <1>1
<1>3. IsFiniteSet(CD) /\ Cardinality(CD) <= Cardinality(C) + Cardinality(D)
      /\ Cardinality(CD) \in Nat /\ Cardinality(C) \in Nat /\ Cardinality(D) \in Nat
  BY <1>1
<1>4. X \subseteq AB \cup CD OBVIOUS
<1> HIDE DEF AB, CD
<1>5. IsFiniteSet(AB \cup CD) /\ Cardinality(AB \cup CD) <= Cardinality(AB) + Cardinality(CD)
      /\ Cardinality(AB \cup CD) \in Nat
  BY <1>1, <1>2, <1>3
<1>6. Cardinality(X) \in Nat /\ Cardinality(X) <= Cardinality(AB \cup CD)
  BY <1>4, <1>5, FS_Subset, FS_CardinalityType
<1> QED BY <1>2, <1>3, <1>5, <1>6

\* Attempts that many windows' worth apart are too far apart for one window, and
\* the live rows are among those begun.
LEMMA LimitsImplied ==
  ASSUME Limits!LimiterAssumption, Limits!IInv
  PROVE  Limits!LimitsHold
<1>1. /\ bucket \in Buckets /\ Limits!Keys = Clients \cup {"global"} /\ limitClock \in Nat
      /\ \A k \in Limits!Keys :
           /\ consumed[k] \in Seq(Nat) /\ bucket[k] \in [count : Nat, expires : Nat]
           /\ Limits!Sound(bucket[k], consumed[k], Limits!Rule(k), limitClock)
           /\ Limits!Rule(k) \in Nat
      /\ Limits!RowsBegun(bucket, limitClock)
  BY LimitFacts
<1>2. /\ LimitWindow \in Nat /\ LimitLag \in Nat /\ LimitTime \in Nat
      /\ GlobalLimit \in Nat /\ GlobalLimit >= 1
  BY LimitConstants
<1>3. ASSUME NEW k \in Limits!Keys, NEW t \in Limits!Times
      PROVE  Limits!Cardinality(Limits!During(k, t)) <= Limits!Windows * Limits!Rule(k)
  <2> DEFINE past == consumed[k]
             R == Limits!Rule(k)
             X == {i \in 1 .. Len(past) : t <= past[i] /\ past[i] < t + LimitWindow}
  <2>1. past \in Seq(Nat) /\ R \in Nat /\ Limits!Spaced(past, R) BY <1>1 DEF Limits!Sound
  <2>2. t \in Nat BY <1>2 DEF Limits!Times
  <2> HIDE DEF past, R
  <2>3. Limits!Windows * R \in Nat BY <2>1, WindowsOf
  <2>4. X \subseteq Nat BY <2>1
  <2>5. ASSUME NEW i \in X, NEW j \in X PROVE j - i < Limits!Windows * R
    <3> SUFFICES ASSUME j - i >= Limits!Windows * R PROVE FALSE BY <2>3, <2>4
    <3>1. i \in 1 .. Len(past) /\ j \in 1 .. Len(past) /\ past[i] \in Nat /\ past[j] \in Nat
      BY <2>1
    <3>2. past[i] + LimitWindow <= past[j] BY <2>1, <3>1 DEF Limits!Spaced
    <3>3. past[i] >= t /\ past[j] < t + LimitWindow BY <2>2, <3>1
    <3> QED BY <1>2, <2>2, <3>1, <3>2, <3>3
  <2>6. Cardinality(X) <= Limits!Windows * R
    <3> HIDE DEF X
    <3> QED BY <2>3, <2>4, <2>5, CloseTogether
  <2> QED BY <2>6, LimitSets DEF past, R, Limits!During
<1>4. Limits!WindowBudget BY <1>3 DEF Limits!WindowBudget
<1>5. Limits!SubjectRowsBounded
  <2> DEFINE edge == Limits!Edge(bucket, limitClock)
             live == {s \in Clients : bucket[s].count > 0 /\ bucket[s].expires > limitClock}
  <2>1. PICK g \in Nat : g = bucket["global"].count BY <1>1
  <2>2. PICK first, current, previous, older \in SUBSET Clients :
          Begun(bucket, limitClock, edge, g, first, current, previous, older)
    BY <1>1, <2>1, BegunRows
  <2>3. g <= GlobalLimit
    BY <1>1, <2>1 DEF Limits!Sound, Limits!Counts, Limits!Rule
  <2>4. live \subseteq first \cup current \cup previous \cup older
    <3> SUFFICES ASSUME NEW s \in live PROVE s \in first \cup current \cup previous \cup older
      OBVIOUS
    <3>1. ~(bucket[s].expires <= limitClock)
      <4>1. PICK e \in Nat : e = bucket[s].expires BY <1>1
      <4> QED BY <1>1, <4>1
    <3> QED BY <2>2, <3>1 DEF Begun
  <2>5. /\ IsFiniteSet(first) /\ IsFiniteSet(current)
        /\ IsFiniteSet(previous) /\ IsFiniteSet(older)
    BY LimitSets, FS_Subset DEF Limits!LimiterAssumption
  <2> HIDE DEF live, edge
  <2>6. /\ Cardinality(first) \in Nat /\ Cardinality(current) \in Nat
        /\ Cardinality(previous) \in Nat /\ Cardinality(older) \in Nat
        /\ Cardinality(live) \in Nat
        /\ Cardinality(live) <= Cardinality(first) + Cardinality(current)
                                  + Cardinality(previous) + Cardinality(older)
    BY <2>4, <2>5, FourSets
  <2>7. /\ Cardinality(first) <= (IF g > 0 THEN 1 ELSE 0)
        /\ Cardinality(current) <= (IF g > 0 THEN g - 1 ELSE 0)
        /\ Cardinality(previous) <= GlobalLimit - 1
        /\ Cardinality(older) <= (IF LimitLag = 0 THEN 0 ELSE GlobalLimit - 1)
    BY <2>2 DEF Begun
  <2>8. Limits!Windows * (GlobalLimit - 1) =
          IF LimitLag = 0 THEN 2 * (GlobalLimit - 1) ELSE 3 * (GlobalLimit - 1)
    BY DEF Limits!Windows
  <2>9. Cardinality(live) <= Limits!Windows * (GlobalLimit - 1) + 1
    <3>1. CASE LimitLag = 0 BY <1>2, <2>1, <2>3, <2>6, <2>7, <2>8, <3>1
    <3>2. CASE LimitLag # 0 BY <1>2, <2>1, <2>3, <2>6, <2>7, <2>8, <3>2
    <3> QED BY <3>1, <3>2
  <2> QED BY <2>9, LimitSets DEF live, Limits!SubjectRowsBounded
<1> QED BY <1>4, <1>5 DEF Limits!LimitsHold, Limits!IInv

\* However decisions, lost rows and late clock values interleave: no interval as
\* long as the window sees more than two windows' worth of consumed attempts, three
\* when clocks lag; the live rows of subjects stay below as many global limits; and
\* who is denied finds a full and current bucket that Retry-After outlasts.
THEOREM LimitsSafe == Spec => []LimitsHold
<1> DEFINE Inv == part = "limits" => Limits!IInv
<1> USE IdentityAssumptions
<1>1. Init => Inv BY LimitsInit DEF Init
<1>2. Inv /\ [Next]_vars => Inv'
  <2> SUFFICES ASSUME Inv, [Next]_vars, part' = "limits" PROVE Limits!IInv' OBVIOUS
  <2>1. part = "limits" /\ [Limits!Next]_Limits!vars
    BY DEF Next, vars, limitVars, Limits!vars
  <2> QED BY <2>1, LimitsNext
<1>3. Inv => LimitsHold BY LimitsImplied DEF LimitsHold
<1> QED BY <1>1, <1>2, <1>3, PTL DEF Spec
=============================================================================
