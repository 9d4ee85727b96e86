--------------------------- MODULE WorkflowProofs ---------------------------
(* Theorems about the lab grants, the reports and the correlation graphs of  *)
(* Workflow, for every value of the constants.                               *)
EXTENDS Workflow, FiniteSetTheorems, TLAPS

\* The components' own copies of FiniteSets are the library's.
LEMMA LabSets ==
  ASSUME NEW S
  PROVE  (Lab!IsFiniteSet(S) <=> IsFiniteSet(S)) /\ Lab!Cardinality(S) = Cardinality(S)
BY DEF Lab!IsFiniteSet, IsFiniteSet, Lab!Cardinality, Cardinality

\* The reporting component's copy of FiniteSets is the library's too.
LEMMA ReportSets == ASSUME NEW S PROVE Reporting!Cardinality(S) = Cardinality(S)
BY DEF Reporting!Cardinality, Cardinality

-----------------------------------------------------------------------------
(* Lab grants *)

\* The types the invariant gives, one fact each.
LEMMA LabTypes ==
  ASSUME Lab!IInv
  PROVE  /\ grants \in Seq(Lab!Grant) /\ Len(grants) \in Nat /\ Lab!Ids = DOMAIN grants
         /\ \A i \in Lab!Ids : /\ grants[i] \in Lab!Grant /\ i \in Nat /\ i <= Len(grants) /\ i > 0
                               /\ grants[i].cap \in Capabilities
         /\ labPc \in [Threads -> {"idle", "creating", "revoking"}]
         /\ \A t \in Threads : labJob[t].cap \in Capabilities \cup {Nobody} /\ labJob[t].expires \in Nat
         /\ labLock \in Threads \cup {Nobody}
<1>1. grants \in Seq(Lab!Grant) /\ Len(grants) \in Nat /\ Lab!Ids = DOMAIN grants
  BY DEF Lab!IInv, Lab!Typed, Lab!Ids
<1>2. \A i \in Lab!Ids : grants[i] \in Lab!Grant /\ i \in Nat /\ i <= Len(grants) /\ i > 0
  BY <1>1 DEF Lab!Ids
<1>3. \A i \in Lab!Ids : grants[i].cap \in Capabilities BY <1>2 DEF Lab!Grant
<1> QED BY <1>1, <1>2, <1>3 DEF Lab!IInv, Lab!Typed

\* A request that holds the lock is the only one at work.
LEMMA LabHolder ==
  ASSUME Lab!LabAssumption, Lab!IInv, NEW t \in Threads, labPc[t] # "idle"
  PROVE  labLock = t /\ \A u \in Threads : labPc[u] # "idle" => u = t
BY DEF Lab!LabAssumption, Lab!IInv, Lab!TypeOK

\* A request leaves and the rows are what the invariant asks of them.
LEMMA LeaveKeeps ==
  ASSUME Lab!LabAssumption, Lab!IInv, NEW t \in Threads, labPc[t] # "idle", Lab!Leave(t),
         grants' \in Seq(Lab!Grant), floor' \in [Capabilities -> Nat], Len(grants') <= MaxGrants,
         Lab!ActiveAlone', Lab!ActiveIsNewer', UNCHANGED <<verdict, labEnabled, labClock>>
  PROVE  Lab!IInv'
<1>1. labLock = t /\ \A u \in Threads : labPc[u] # "idle" => u = t BY LabHolder
<1>2. labLock' = Nobody /\ labPc' = [labPc EXCEPT ![t] = "idle"] /\ labJob' = [labJob EXCEPT ![t] = Lab!NoJob]
  BY <1>1 DEF Lab!Leave
<1>3. \A u \in Threads : labPc'[u] = "idle" BY <1>1, <1>2 DEF Lab!IInv, Lab!Typed
<1>4. Lab!Typed' BY <1>2 DEF Lab!IInv, Lab!Typed, Lab!NoJob
<1>5. Lab!TypeOK'
  <2>1. \A i \in Lab!Ids' : grants'[i] \in Lab!Grant BY DEF Lab!Ids
  <2>2. \A u \in Threads : u # Nobody BY DEF Lab!LabAssumption
  <2> QED BY <1>2, <1>3, <2>1, <2>2 DEF Lab!TypeOK, Lab!Grant
<1>6. Lab!HolderIsCurrent' BY <1>3 DEF Lab!HolderIsCurrent
<1>7. Lab!AllowedSinceEnded' BY DEF Lab!IInv, Lab!AllowedSinceEnded
<1> QED BY <1>4, <1>5, <1>6, <1>7 DEF Lab!IInv

\* A request takes the lock with what it read.
LEMMA TakeKeeps ==
  ASSUME Lab!LabAssumption, Lab!IInv, NEW t \in Threads, Lab!Take(t), labPc[t] = "idle",
         NEW to \in {"creating", "revoking"}, labPc' = [labPc EXCEPT ![t] = to],
         NEW q \in [cap : Capabilities \cup {Nobody}, expires : Nat, active : SUBSET Nat, target : Nat],
         labJob' = [labJob EXCEPT ![t] = q],
         to = "creating" => q.cap \in Capabilities /\ Lab!Room /\ q.active = Lab!ActiveOf(q.cap),
         to = "revoking" => q.target \in Lab!Ids,
         UNCHANGED <<Lab!rowVars, verdict, Lab!envVars, labClock>>
  PROVE  Lab!IInv'
<1>1. labLock = Nobody /\ labLock' = t BY DEF Lab!Take
<1>2. \A u \in Threads : labPc[u] = "idle" BY <1>1 DEF Lab!IInv, Lab!TypeOK, Lab!LabAssumption
<1>3. /\ labPc'[t] = to /\ labJob'[t] = q
      /\ \A u \in Threads : u # t => labPc'[u] = "idle"
  BY <1>2 DEF Lab!IInv, Lab!Typed
<1>4. UNCHANGED <<grants, floor, verdict, labEnabled, labClock>> BY DEF Lab!rowVars, Lab!envVars
<1>5. Lab!Typed' BY <1>1, <1>4 DEF Lab!IInv, Lab!Typed
<1>6. Lab!TypeOK' BY <1>1, <1>3, <1>4 DEF Lab!IInv, Lab!TypeOK, Lab!Ids
<1>7. Lab!HolderIsCurrent' BY <1>3, <1>4 DEF Lab!HolderIsCurrent, Lab!Room, Lab!ActiveOf, Lab!Ids
<1>8. Lab!ActiveAlone' /\ Lab!ActiveIsNewer' /\ Lab!AllowedSinceEnded'
  BY <1>4 DEF Lab!IInv, Lab!ActiveAlone, Lab!ActiveIsNewer, Lab!AllowedSinceEnded, Lab!ActiveOf,
     Lab!Ids
<1> QED BY <1>4, <1>5, <1>6, <1>7, <1>8 DEF Lab!IInv

\* A request that begins takes the lock and reads the grants as they are.
LEMMA BeginKeeps ==
  ASSUME Lab!LabAssumption, Lab!IInv, NEW t \in Threads,
         \/ \E cap \in Capabilities, length \in Durations : Lab!BeginCreate(t, cap, length)
         \/ \E i \in Lab!Ids : Lab!BeginRevoke(t, i)
  PROVE  Lab!IInv'
<1>1. ASSUME NEW cap \in Capabilities, NEW length \in Durations, Lab!BeginCreate(t, cap, length)
      PROVE  Lab!IInv'
  <2> DEFINE q == [Lab!NoJob EXCEPT !.cap = cap, !.active = Lab!ActiveOf(cap),
                     !.expires = IF labEnabled THEN labClock + length ELSE labClock]
  <2>1. Lab!ActiveOf(cap) \in SUBSET Nat BY LabTypes DEF Lab!ActiveOf
  <2>2. (IF labEnabled THEN labClock + length ELSE labClock) \in Nat
    BY DEF Lab!IInv, Lab!Typed, Lab!LabAssumption
  <2>3. q \in [cap : Capabilities \cup {Nobody}, expires : Nat, active : SUBSET Nat, target : Nat]
    BY <2>1, <2>2 DEF Lab!NoJob
  <2>4. q.cap = cap /\ q.active = Lab!ActiveOf(cap) BY DEF Lab!NoJob
  <2>5. /\ Lab!Take(t) /\ labPc[t] = "idle" /\ Lab!Room /\ labPc' = [labPc EXCEPT ![t] = "creating"]
        /\ labJob' = [labJob EXCEPT ![t] = q] /\ UNCHANGED <<Lab!rowVars, verdict, Lab!envVars,
                                                             labClock>>
    BY <1>1 DEF Lab!BeginCreate, Lab!Reads
  <2> HIDE DEF q
  <2> QED BY <2>3, <2>4, <2>5, TakeKeeps
<1>2. ASSUME NEW i \in Lab!Ids, Lab!BeginRevoke(t, i) PROVE Lab!IInv'
  <2> DEFINE q == [Lab!NoJob EXCEPT !.target = i]
  <2>1. q \in [cap : Capabilities \cup {Nobody}, expires : Nat, active : SUBSET Nat, target : Nat]
        /\ q.target = i
    BY LabTypes DEF Lab!NoJob
  <2>2. /\ Lab!Take(t) /\ labPc[t] = "idle" /\ labPc' = [labPc EXCEPT ![t] = "revoking"]
        /\ labJob' = [labJob EXCEPT ![t] = q] /\ UNCHANGED <<Lab!rowVars, verdict, Lab!envVars,
                                                             labClock>>
    BY <1>2 DEF Lab!BeginRevoke
  <2> HIDE DEF q
  <2> QED BY <2>1, <2>2, TakeKeeps
<1> QED BY <1>1, <1>2

\* A new grant follows the ones it ends.
LEMMA CreateKeeps ==
  ASSUME Lab!LabAssumption, Lab!IInv, NEW t \in Threads, Lab!CommitCreate(t) PROVE Lab!IInv'
<1> DEFINE cap == labJob[t].cap
           ended == IF labEnabled THEN labJob[t].active ELSE {}
           row == [cap |-> cap, expires |-> labJob[t].expires,
                   status |-> IF labEnabled THEN "active" ELSE "denied"]
           old == [i \in Lab!Ids |-> IF i \in ended THEN [grants[i] EXCEPT !.status = "superseded"]
                                 ELSE grants[i]]
<1>1. labPc[t] = "creating" /\ Lab!Leave(t) /\ UNCHANGED <<verdict, labEnabled, labClock>>
      /\ grants' = Append(old, row)
      /\ floor' = IF labEnabled THEN [floor EXCEPT ![cap] = Len(grants)] ELSE floor
  BY DEF Lab!CommitCreate, Lab!envVars
<1>2. cap \in Capabilities /\ Lab!Room /\ labJob[t].active = Lab!ActiveOf(cap)
  BY <1>1 DEF Lab!IInv, Lab!HolderIsCurrent
<1>3. row \in Lab!Grant /\ row.cap = cap /\ row.status = (IF labEnabled THEN "active" ELSE "denied")
  BY <1>2, LabTypes DEF Lab!Grant
<1>4. ASSUME NEW i \in Lab!Ids
      PROVE  /\ old[i] \in Lab!Grant /\ old[i].cap = grants[i].cap
             /\ old[i].status = "active" =>
                  grants[i].status = "active" /\ (labEnabled => grants[i].cap # cap)
  <2> DEFINE g == grants[i]
  <2>1. g \in Lab!Grant BY LabTypes
  <2>2. i \in Lab!ActiveOf(cap) <=> g.cap = cap /\ g.status = "active" BY DEF Lab!ActiveOf
  <2>3. old[i] = IF i \in ended THEN [g EXCEPT !.status = "superseded"] ELSE g OBVIOUS
  <2> HIDE DEF g, old
  <2>4. CASE i \in ended
    <3>1. old[i] = [g EXCEPT !.status = "superseded"] BY <2>3, <2>4
    <3> QED BY <2>1, <3>1 DEF Lab!Grant, g
  <2>5. CASE i \notin ended
    <3>1. old[i] = g BY <2>3, <2>5
    <3>2. labEnabled => i \notin Lab!ActiveOf(cap) BY <1>2, <2>5
    <3> QED BY <2>1, <2>2, <3>1, <3>2 DEF g
  <2> QED BY <2>4, <2>5
<1>5. old \in [1..Len(grants) -> Lab!Grant] BY <1>4 DEF Lab!Ids
<1>6. old \in Seq(Lab!Grant) /\ Len(old) = Len(grants) BY <1>5, LabTypes
<1> HIDE DEF old, row, cap, ended
<1>7. /\ grants' \in Seq(Lab!Grant) /\ Len(grants') = Len(grants) + 1 /\ Lab!Ids' = Lab!Ids \cup {Len(grants) + 1}
      /\ grants'[Len(grants) + 1] = row /\ \A i \in Lab!Ids : grants'[i] = old[i]
  <2>1. grants' \in Seq(Lab!Grant) /\ Len(grants') = Len(grants) + 1 BY <1>1, <1>3, <1>6
  <2>2. grants'[Len(grants) + 1] = row /\ \A i \in Lab!Ids : grants'[i] = old[i]
    BY <1>1, <1>6, LabTypes DEF Lab!Ids
  <2>3. Lab!Ids' = Lab!Ids \cup {Len(grants) + 1} BY <2>1, LabTypes DEF Lab!Ids
  <2> QED BY <2>1, <2>2, <2>3
<1>8. ASSUME NEW i \in Lab!Ids', grants'[i].status = "active"
      PROVE  \/ i = Len(grants) + 1 /\ labEnabled /\ grants'[i].cap = cap
             \/ /\ i \in Lab!Ids /\ grants[i].status = "active" /\ grants'[i].cap = grants[i].cap
                /\ labEnabled => grants[i].cap # cap
  BY <1>3, <1>4, <1>7, <1>8
<1>9. Lab!ActiveAlone'
  <2> SUFFICES ASSUME NEW i \in Lab!Ids', NEW j \in Lab!Ids', grants'[i].status = "active",
                      grants'[j].status = "active", grants'[j].cap = grants'[i].cap
               PROVE  i = j
    BY DEF Lab!ActiveAlone, Lab!ActiveOf
  <2> QED BY <1>8, LabTypes DEF Lab!IInv, Lab!ActiveAlone, Lab!ActiveOf
<1>10. floor' \in [Capabilities -> Nat] BY <1>1, LabTypes DEF Lab!IInv, Lab!Typed
<1>11. Lab!ActiveIsNewer'
  <2>1. \A c \in Capabilities : floor'[c] <= Len(grants)
    BY <1>1, <1>2, LabTypes DEF Lab!IInv, Lab!ActiveIsNewer, Lab!Typed
  <2>2. \A c \in Capabilities : floor'[c] \in Nat BY <1>10
  <2>3. \A c \in Capabilities : ~(labEnabled /\ c = cap) => floor'[c] = floor[c]
    BY <1>1 DEF Lab!IInv, Lab!Typed
  <2>4. ASSUME NEW i \in Lab!Ids', grants'[i].status = "active" PROVE i > floor'[grants'[i].cap]
    <3>1. CASE i = Len(grants) + 1 /\ labEnabled /\ grants'[i].cap = cap
      BY <1>2, <2>1, <2>2, <3>1, LabTypes
    <3>2. CASE /\ i \in Lab!Ids /\ grants[i].status = "active" /\ grants'[i].cap = grants[i].cap
               /\ labEnabled => grants[i].cap # cap
      BY <2>3, <3>2, LabTypes DEF Lab!IInv, Lab!ActiveIsNewer
    <3> QED BY <1>8, <2>4, <3>1, <3>2
  <2>5. \A c \in Capabilities : floor'[c] <= Len(grants')
    BY <1>7, <2>1, <2>2, LabTypes
  <2> QED BY <2>4, <2>5 DEF Lab!ActiveIsNewer
<1>12. Len(grants') <= MaxGrants BY <1>2, <1>7, LabTypes DEF Lab!Room, Lab!LabAssumption
<1> QED BY <1>1, <1>7, <1>9, <1>10, <1>11, <1>12, LeaveKeeps

\* Revoking the active grant of a capability leaves it none.
LEMMA RevokeKeeps ==
  ASSUME Lab!LabAssumption, Lab!IInv, NEW t \in Threads, Lab!CommitRevoke(t) PROVE Lab!IInv'
<1> DEFINE k == labJob[t].target
           cap == grants[k].cap
<1>1. labPc[t] = "revoking" /\ Lab!Leave(t) /\ UNCHANGED <<verdict, labEnabled, labClock>>
  BY DEF Lab!CommitRevoke, Lab!envVars
<1>2. k \in Lab!Ids BY <1>1 DEF Lab!IInv, Lab!HolderIsCurrent
<1>3. CASE grants[k].status # "active"
  <2>1. UNCHANGED <<grants, floor>> BY <1>3 DEF Lab!CommitRevoke, Lab!rowVars
  <2>2. Lab!ActiveAlone' /\ Lab!ActiveIsNewer'
    BY <2>1 DEF Lab!IInv, Lab!ActiveAlone, Lab!ActiveIsNewer, Lab!ActiveOf, Lab!Ids
  <2> QED BY <1>1, <2>1, <2>2, LeaveKeeps DEF Lab!IInv, Lab!Typed
<1>4. CASE grants[k].status = "active"
  <2> DEFINE g == [grants[k] EXCEPT !.status = "revoked"]
  <2>1. grants' = [grants EXCEPT ![k] = g] /\ floor' = [floor EXCEPT ![cap] = Len(grants)]
    BY <1>2, <1>4, LabTypes DEF Lab!CommitRevoke
  <2>2. g \in Lab!Grant /\ g.status = "revoked" BY <1>2, LabTypes DEF Lab!Grant
  <2>3. cap \in Capabilities BY <1>2, LabTypes
  <2> HIDE DEF g, cap
  <2>4. /\ grants' \in Seq(Lab!Grant) /\ Len(grants') = Len(grants) /\ Lab!Ids' = Lab!Ids
        /\ grants'[k] = g /\ \A i \in Lab!Ids : i # k => grants'[i] = grants[i]
    BY <1>2, <2>1, <2>2, LabTypes DEF Lab!Ids
  <2>5. ASSUME NEW i \in Lab!Ids', grants'[i].status = "active"
        PROVE  i \in Lab!Ids /\ grants'[i] = grants[i] /\ grants[i].status = "active" /\ grants[i].cap # cap
    BY <1>2, <1>4, <2>2, <2>4, <2>5 DEF Lab!IInv, Lab!ActiveAlone, Lab!ActiveOf, cap
  <2>6. Lab!ActiveAlone' BY <2>5 DEF Lab!IInv, Lab!ActiveAlone, Lab!ActiveOf
  <2>7. floor' \in [Capabilities -> Nat] BY <2>1, LabTypes DEF Lab!IInv, Lab!Typed
  <2>8. Lab!ActiveIsNewer'
    <3>1. \A c \in Capabilities : floor'[c] = IF c = cap THEN Len(grants) ELSE floor[c]
      BY <2>1 DEF Lab!IInv, Lab!Typed
    <3>2. \A c \in Capabilities : floor'[c] <= Len(grants')
      BY <2>4, <3>1, LabTypes DEF Lab!IInv, Lab!ActiveIsNewer
    <3>3. \A i \in Lab!Ids' : grants'[i].status = "active" => i > floor'[grants'[i].cap]
      BY <2>5, <3>1, LabTypes DEF Lab!IInv, Lab!ActiveIsNewer
    <3> QED BY <3>2, <3>3 DEF Lab!ActiveIsNewer
  <2> QED BY <1>1, <2>4, <2>6, <2>7, <2>8, LeaveKeeps DEF Lab!IInv
<1> QED BY <1>3, <1>4

\* A check cites the one active grant, which is newer than what was ended.
LEMMA CheckKeeps ==
  ASSUME Lab!LabAssumption, Lab!IInv, NEW r \in Checks, NEW cap \in Capabilities,
         Lab!Check(r, cap)
  PROVE  Lab!IInv'
<1> DEFINE v == [grant |-> IF labEnabled /\ Lab!Citable(cap) # {} THEN Lab!Max(Lab!Citable(cap)) ELSE 0,
                 floor |-> floor[cap]]
<1>1. UNCHANGED <<grants, floor, labLock, labPc, labJob, labEnabled,
                  labClock>> /\ verdict' = [verdict EXCEPT ![r] = v]
  BY DEF Lab!Check, Lab!rowVars, Lab!threadVars, Lab!envVars
<1>2. v \in [grant : Nat, floor : Nat] /\ (v.grant # 0 => v.grant > v.floor)
  <2>1. floor[cap] \in Nat BY DEF Lab!IInv, Lab!Typed
  <2>2. CASE labEnabled /\ Lab!Citable(cap) # {}
    <3>1. PICK i \in Lab!Citable(cap) : TRUE BY <2>2
    <3>2. i \in Lab!Ids /\ grants[i].status = "active" /\ grants[i].cap = cap
      BY <3>1 DEF Lab!Citable, Lab!ActiveOf
    <3>3. Lab!Citable(cap) = {i}
      BY <3>1, <3>2 DEF Lab!Citable, Lab!ActiveOf, Lab!IInv, Lab!ActiveAlone
    <3>4. i \in Nat /\ i > floor[cap] BY <3>2, LabTypes DEF Lab!IInv, Lab!ActiveIsNewer
    <3>5. Lab!Max({i}) = i BY <3>4 DEF Lab!Max
    <3> QED BY <2>1, <2>2, <3>3, <3>4, <3>5
  <2>3. CASE ~(labEnabled /\ Lab!Citable(cap) # {}) BY <2>1, <2>3
  <2> QED BY <2>2, <2>3
<1> HIDE DEF v
<1>3. Lab!Typed' BY <1>1, <1>2 DEF Lab!IInv, Lab!Typed
<1>4. Lab!AllowedSinceEnded' BY <1>1, <1>2 DEF Lab!IInv, Lab!Typed, Lab!AllowedSinceEnded
<1>5. Lab!TypeOK' /\ Lab!ActiveAlone' /\ Lab!ActiveIsNewer' /\ Lab!HolderIsCurrent'
  BY <1>1 DEF Lab!IInv, Lab!TypeOK, Lab!ActiveAlone, Lab!ActiveIsNewer, Lab!HolderIsCurrent,
     Lab!ActiveOf, Lab!Ids, Lab!Room
<1> QED BY <1>1, <1>3, <1>4, <1>5 DEF Lab!IInv

\* A restart ends the requests and keeps the rows.
LEMMA LabRestartKeeps ==
  ASSUME Lab!LabAssumption, Lab!IInv, NEW mode \in BOOLEAN, Lab!Restart(mode) PROVE Lab!IInv'
<1>1. UNCHANGED <<grants, floor, verdict, labClock>> /\ labEnabled' = mode /\ labLock' = Nobody
      /\ labPc' = [t \in Threads |-> "idle"] /\ labJob' = [t \in Threads |-> Lab!NoJob]
  BY DEF Lab!Restart, Lab!rowVars
<1>2. Lab!Typed' BY <1>1 DEF Lab!IInv, Lab!Typed, Lab!NoJob
<1>3. Lab!TypeOK' BY <1>1 DEF Lab!IInv, Lab!TypeOK, Lab!Ids, Lab!LabAssumption
<1>4. Lab!HolderIsCurrent' BY <1>1 DEF Lab!HolderIsCurrent
<1>5. Lab!ActiveAlone' /\ Lab!ActiveIsNewer' /\ Lab!AllowedSinceEnded'
  BY <1>1 DEF Lab!IInv, Lab!ActiveAlone, Lab!ActiveIsNewer, Lab!AllowedSinceEnded, Lab!ActiveOf,
     Lab!Ids
<1> QED BY <1>1, <1>2, <1>3, <1>4, <1>5 DEF Lab!IInv

\* Initially there is no grant.
LEMMA LabInit == ASSUME Lab!LabAssumption, Lab!Init PROVE Lab!IInv
<1>1. Lab!Ids = {} /\ Len(grants) = 0 /\ grants \in Seq(Lab!Grant) BY DEF Lab!Init, Lab!Ids
<1>2. Lab!Typed BY <1>1 DEF Lab!Init, Lab!Typed, Lab!NoJob, Lab!NoVerdict
<1>3. Lab!TypeOK /\ Lab!HolderIsCurrent
  BY <1>1 DEF Lab!Init, Lab!TypeOK, Lab!HolderIsCurrent, Lab!LabAssumption
<1>4. Lab!ActiveAlone /\ Lab!ActiveIsNewer
  BY <1>1 DEF Lab!Init, Lab!ActiveAlone, Lab!ActiveIsNewer
<1>5. Lab!AllowedSinceEnded BY DEF Lab!Init, Lab!AllowedSinceEnded, Lab!NoVerdict
<1>6. Len(grants) <= MaxGrants BY <1>1 DEF Lab!LabAssumption
<1> QED BY <1>2, <1>3, <1>4, <1>5, <1>6 DEF Lab!IInv

\* One step of any request, check, restart or the clock keeps the invariant.
LEMMA LabNext == ASSUME Lab!LabAssumption, Lab!IInv, [Lab!Next]_Lab!vars PROVE Lab!IInv'
<1>1. ASSUME NEW t \in Threads, Lab!Abort(t) PROVE Lab!IInv'
  <2>1. labPc[t] # "idle" /\ Lab!Leave(t) /\ UNCHANGED <<grants, floor, verdict, labEnabled,
                                                         labClock>>
    BY <1>1 DEF Lab!Abort, Lab!rowVars, Lab!envVars
  <2>2. Lab!ActiveAlone' /\ Lab!ActiveIsNewer'
    BY <2>1 DEF Lab!IInv, Lab!ActiveAlone, Lab!ActiveIsNewer, Lab!ActiveOf, Lab!Ids
  <2> QED BY <2>1, <2>2, LeaveKeeps DEF Lab!IInv, Lab!Typed
<1>2. ASSUME UNCHANGED Lab!vars \/ Lab!ChangeActor \/ Lab!Tick PROVE Lab!IInv'
  <2>1. UNCHANGED <<grants, floor, labLock, labPc, labJob, labEnabled,
                    verdict>> /\ labClock' \in Nat
    BY <1>2 DEF Lab!vars, Lab!ChangeActor, Lab!Tick, Lab!rowVars, Lab!threadVars, Lab!envVars,
       Lab!IInv, Lab!Typed
  <2>2. Lab!Typed' BY <2>1 DEF Lab!IInv, Lab!Typed
  <2>3. Lab!TypeOK' /\ Lab!ActiveAlone' /\ Lab!ActiveIsNewer' /\ Lab!HolderIsCurrent' /\ Lab!AllowedSinceEnded'
    BY <2>1 DEF Lab!IInv, Lab!TypeOK, Lab!ActiveAlone, Lab!ActiveIsNewer, Lab!HolderIsCurrent,
       Lab!AllowedSinceEnded,
       Lab!ActiveOf, Lab!Ids, Lab!Room
  <2> QED BY <2>1, <2>2, <2>3 DEF Lab!IInv
<1> QED
  BY <1>1, <1>2, BeginKeeps, CreateKeeps, RevokeKeeps, CheckKeeps, LabRestartKeeps DEF Lab!Next

\* What the invariant says of the active grants.
LEMMA LabFollows == ASSUME Lab!LabAssumption, Lab!IInv PROVE Lab!LabHolds
<1>1. ASSUME NEW cap \in Capabilities PROVE Cardinality(Lab!ActiveOf(cap)) <= 1
  <2>1. CASE Lab!ActiveOf(cap) = {} BY <2>1, FS_EmptySet
  <2>2. CASE Lab!ActiveOf(cap) # {}
    <3>1. PICK i \in Lab!ActiveOf(cap) : TRUE BY <2>2
    <3>2. Lab!ActiveOf(cap) = {i} BY <3>1 DEF Lab!IInv, Lab!ActiveAlone, Lab!ActiveOf
    <3>3. Cardinality({i}) = 1 BY FS_Singleton
    <3> QED BY <3>2, <3>3
  <2> QED BY <2>1, <2>2
<1> QED BY <1>1, LabSets DEF Lab!IInv, Lab!LabHolds, Lab!OneActiveGrant

\* However grants, revocations, checks, failed commits and restarts interleave,
\* a capability has at most one active grant, so that revoking it ends the
\* permission; no check is allowed by a grant an operator had ended or replaced
\* before it; and the history keeps its limit.
THEOREM LabSafe == Spec => []LabHolds
<1> DEFINE Inv == part = "lab" => Lab!IInv
<1> USE WorkflowAssumptions
<1>1. Init => Inv BY LabInit DEF Init
<1>2. Inv /\ [Next]_vars => Inv'
  <2> SUFFICES ASSUME Inv, [Next]_vars, part' = "lab" PROVE Lab!IInv' OBVIOUS
  <2>1. part = "lab" /\ [Lab!Next]_Lab!vars
    BY DEF Next, vars, labVars, Lab!vars, Lab!rowVars, Lab!threadVars, Lab!envVars
  <2> QED BY <2>1, LabNext
<1>3. Inv => LabHolds BY LabFollows DEF LabHolds
<1> QED BY <1>1, <1>2, <1>3, PTL DEF Spec

-----------------------------------------------------------------------------
(* Reports *)

ReportRow == [status : Reporting!Statuses, content : Reporting!Content]
ExportStates == {"none", "partial", "complete"}

\* The types the invariant gives, one fact each.
LEMMA ReportTypes ==
  ASSUME Reporting!IInv
  PROVE  /\ report \in [Reporting!Reports -> ReportRow] /\ exports \in [Reporting!Reports -> ExportStates]
         /\ repPc \in [Threads -> Reporting!Locations] /\ repJob \in [Threads -> Reporting!Reports \cup {Nobody}]
         /\ view \in [Threads -> Reporting!Source] /\ content \in [Threads -> Reporting!Content]
         /\ repLock \in Threads \cup {Nobody} /\ db \in Reporting!Source
         /\ \A r \in Reporting!Reports : report[r] \in ReportRow /\ report[r].status \in Reporting!Statuses
         /\ \A t \in Threads : view[t] \in Reporting!Source /\ content[t] \in Reporting!Content
         /\ \A r \in Reporting!Rows : r \in Reporting!Reports /\ report[r].status # "none"
<1>1. report \in [Reporting!Reports -> ReportRow]
  BY DEF Reporting!IInv, Reporting!Typed, ReportRow
<1>2. \A r \in Reporting!Reports : report[r] \in ReportRow /\ report[r].status \in Reporting!Statuses
  BY <1>1 DEF ReportRow
<1> QED BY <1>1, <1>2 DEF Reporting!IInv, Reporting!Typed, ExportStates, Reporting!Rows

\* A request that holds the lock is the only one at work.
LEMMA ReportHolder ==
  ASSUME Reporting!ReportAssumption, Reporting!IInv, NEW t \in Threads,
         repPc[t] # "idle" \/ repLock = Nobody
  PROVE  /\ \A u \in Threads \ {t} : repPc[u] = "idle"
         /\ repPc[t] # "idle" => repLock = t
BY DEF Reporting!ReportAssumption, Reporting!IInv, Reporting!TypeOK

\* The request at work takes a step; the sources stay as they are.
LEMMA HolderKeeps ==
  ASSUME Reporting!ReportAssumption, Reporting!IInv, NEW t \in Threads,
         \A u \in Threads \ {t} : repPc[u] = "idle",
         NEW to \in Reporting!Locations, repPc' = [repPc EXCEPT ![t] = to],
         repLock' = IF to = "idle" THEN Nobody ELSE t, UNCHANGED Reporting!sourceVars,
         report' \in [Reporting!Reports -> ReportRow], exports' \in [Reporting!Reports -> ExportStates],
         repJob' \in [Threads -> Reporting!Reports \cup {Nobody}], view' \in [Threads -> Reporting!Source],
         content' \in [Threads -> Reporting!Content],
         \A r \in Reporting!Reports : Reporting!RowHonest(r)',
         \A r \in Reporting!Reports : report'[r].status # "completed" => report'[r].content = Reporting!NoContent,
         Reporting!RowsInOrder', served' \subseteq repPublished', Reporting!AtWork(t)'
  PROVE  Reporting!IInv'
<1>1. repPc'[t] = to /\ \A u \in Threads \ {t} : repPc'[u] = "idle" BY ReportTypes
<1>2. UNCHANGED <<db, intact, history>> BY DEF Reporting!sourceVars
<1>3. Reporting!Typed' BY <1>2 DEF Reporting!IInv, Reporting!Typed, ReportRow, ExportStates
<1>4. Reporting!TypeOK'
  <2>1. \A r \in Reporting!Reports : report'[r].status \in Reporting!Statuses BY DEF ReportRow
  <2>2. \A u \in Threads : repPc'[u] # "idle" <=> repLock' = u
    BY <1>1 DEF Reporting!ReportAssumption
  <2>3. intact' \subseteq Discoveries /\ db'.claims \subseteq db'.refs
    BY <1>2 DEF Reporting!IInv, Reporting!TypeOK
  <2> QED BY <2>1, <2>2, <2>3 DEF Reporting!TypeOK, Reporting!Statuses
<1>5. \A u \in Threads : Reporting!AtWork(u)'
  <2>1. \A u \in Threads \ {t} : Reporting!AtWork(u)'
    BY <1>1 DEF Reporting!AtWork, Reporting!Capturing
  <2> QED BY <2>1
<1>6. Reporting!StateOf(db)' \in history' BY <1>2 DEF Reporting!IInv, Reporting!StateOf
<1> QED BY <1>3, <1>4, <1>5, <1>6 DEF Reporting!IInv

\* While the rows stay as they are, so does what they say.
LEMMA RowsUntouched ==
  ASSUME Reporting!IInv, UNCHANGED <<report, exports, repPublished, served>>,
                                     history \subseteq history'
  PROVE  /\ \A r \in Reporting!Reports : Reporting!RowHonest(r)'
         /\ \A r \in Reporting!Reports : report'[r].status # "completed" => report'[r].content = Reporting!NoContent
         /\ Reporting!RowsInOrder' /\ served' \subseteq repPublished' /\ Reporting!Rows' = Reporting!Rows
<1>1. Reporting!Rows' = Reporting!Rows BY DEF Reporting!Rows
<1>2. \A r \in Reporting!Reports : Reporting!RowHonest(r)'
  BY DEF Reporting!IInv, Reporting!RowHonest
<1> QED BY <1>1, <1>2 DEF Reporting!IInv, Reporting!TypeOK, Reporting!RowsInOrder

\* The request at work moves and its row stays as it is.
LEMMA QuietReportKeeps ==
  ASSUME Reporting!ReportAssumption, Reporting!IInv, NEW t \in Threads,
         \A u \in Threads \ {t} : repPc[u] = "idle",
         NEW to \in Reporting!Locations, repPc' = [repPc EXCEPT ![t] = to],
         repLock' = IF to = "idle" THEN Nobody ELSE t, UNCHANGED Reporting!sourceVars, UNCHANGED Reporting!rowVars,
         repJob' \in [Threads -> Reporting!Reports \cup {Nobody}], view' \in [Threads -> Reporting!Source],
         content' \in [Threads -> Reporting!Content], Reporting!AtWork(t)'
  PROVE  Reporting!IInv'
<1>1. UNCHANGED <<report, exports, repPublished, served>> /\ history \subseteq history'
  BY DEF Reporting!rowVars, Reporting!sourceVars
<1>2. report' \in [Reporting!Reports -> ReportRow] /\ exports' \in [Reporting!Reports -> ExportStates]
  BY <1>1, ReportTypes
<1> QED BY <1>1, <1>2, RowsUntouched, HolderKeeps

\* The rows are the first n identifiers, n being their number.
LEMMA RowsCounted ==
  ASSUME Reporting!ReportAssumption, Reporting!IInv
  PROVE  Reporting!Cardinality(Reporting!Rows) \in 0..MaxReports /\ Reporting!Rows = 1..Reporting!Cardinality(Reporting!Rows)
<1>1. PICK n \in 0..MaxReports : Reporting!Rows = 1..n
  BY DEF Reporting!IInv, Reporting!RowsInOrder
<1>2. MaxReports \in Nat /\ n \in Int /\ 1 \in Int BY DEF Reporting!ReportAssumption
<1>3. Reporting!Cardinality(1..n) = IF 1 > n THEN 0 ELSE n - 1 + 1
  BY <1>2, FS_Interval, ReportSets
<1>4. Reporting!Cardinality(1..n) = n BY <1>2, <1>3
<1> QED BY <1>1, <1>4

\* A row that exists is replaced by another.
LEMMA RowReplaced ==
  ASSUME Reporting!IInv, NEW k \in Reporting!Rows, NEW x \in ReportRow, x.status # "none",
         report' = [report EXCEPT ![k] = x]
  PROVE  /\ report' \in [Reporting!Reports -> ReportRow] /\ report'[k] = x
         /\ \A r \in Reporting!Reports : r # k => report'[r] = report[r]
         /\ Reporting!Rows' = Reporting!Rows /\ Reporting!RowsInOrder'
<1>1. k \in Reporting!Reports /\ report[k].status # "none" BY DEF Reporting!Rows
<1>2. /\ report' \in [Reporting!Reports -> ReportRow] /\ report'[k] = x
      /\ \A r \in Reporting!Reports : r # k => report'[r] = report[r]
  BY <1>1, ReportTypes
<1>3. Reporting!Rows' = Reporting!Rows BY <1>1, <1>2 DEF Reporting!Rows
<1> QED BY <1>2, <1>3 DEF Reporting!IInv, Reporting!RowsInOrder

-----------------------------------------------------------------------------
(* The steps of a request *)

\* The fields of the empty values.
LEMMA Empties ==
  /\ Reporting!NoSource \in Reporting!Source /\ Reporting!NoContent \in Reporting!Content /\ Reporting!NoReport \in ReportRow
  /\ Reporting!NoReport.status = "none" /\ Reporting!NoReport.content = Reporting!NoContent
BY DEF Reporting!NoSource, Reporting!Source, Reporting!NoContent, Reporting!Content,
   Reporting!NoReport, ReportRow, Reporting!Statuses

\* A request that ends, with its row as the step leaves it.
LEMMA EndedGoes ==
  ASSUME Reporting!ReportAssumption, Reporting!IInv, NEW t \in Threads, repPc[t] # "idle",
         Reporting!Ended(t)
  PROVE  /\ repPc' = [repPc EXCEPT ![t] = "idle"] /\ repLock' = Nobody /\ Reporting!AtWork(t)'
         /\ repJob' \in [Threads -> Reporting!Reports \cup {Nobody}]
         /\ view' \in [Threads -> Reporting!Source] /\ content' \in [Threads -> Reporting!Content]
         /\ \A u \in Threads \ {t} : repPc[u] = "idle"
<1>1. repLock = t /\ \A u \in Threads \ {t} : repPc[u] = "idle" BY ReportHolder
<1>2. repPc' = [repPc EXCEPT ![t] = "idle"] /\ repLock' = Nobody
  BY <1>1 DEF Reporting!Ended, Reporting!Goto
<1>3. repPc'[t] = "idle" BY <1>2, ReportTypes
<1>4. Reporting!AtWork(t)' BY <1>3 DEF Reporting!AtWork, Reporting!Capturing
<1>5. repJob' \in [Threads -> Reporting!Reports \cup {Nobody}] BY ReportTypes DEF Reporting!Ended
<1>6. view' \in [Threads -> Reporting!Source] /\ content' \in [Threads -> Reporting!Content]
  BY Empties, ReportTypes DEF Reporting!Ended
<1> QED BY <1>1, <1>2, <1>4, <1>5, <1>6

\* Steps that touch no row.
LEMMA ReturnKeeps ==
  ASSUME Reporting!ReportAssumption, Reporting!IInv, NEW t \in Threads,
         Reporting!Return(t) \/ Reporting!Refuse(t) \/ Reporting!Lose(t)
  PROVE  Reporting!IInv'
<1>1. repPc[t] # "idle" /\ Reporting!Ended(t) /\ UNCHANGED <<Reporting!sourceVars,
                                                             Reporting!rowVars>>
  BY DEF Reporting!Return, Reporting!Refuse, Reporting!Lose
<1>2. "idle" \in Reporting!Locations BY DEF Reporting!Locations
<1> QED BY <1>1, <1>2, EndedGoes, QuietReportKeeps

\* Admission takes the lock and finds room.
LEMMA AdmitKeeps ==
  ASSUME Reporting!ReportAssumption, Reporting!IInv, NEW t \in Threads, Reporting!Admit(t)
  PROVE  Reporting!IInv'
<1>1. \A u \in Threads \ {t} : repPc[u] = "idle" BY ReportHolder DEF Reporting!Admit
<1>2. /\ repPc' = [repPc EXCEPT ![t] = "admitted"] /\ repLock' = t /\ Reporting!ReportRoom
      /\ UNCHANGED Reporting!sourceVars /\ UNCHANGED Reporting!rowVars /\ UNCHANGED <<repJob,
                                                                                      view, content>>
  BY DEF Reporting!Admit, Reporting!Goto
<1>3. repPc'[t] = "admitted" BY <1>2, ReportTypes
<1>4. Reporting!Rows' = Reporting!Rows BY <1>2 DEF Reporting!rowVars, Reporting!Rows
<1>5. Reporting!AtWork(t)'
  BY <1>2, <1>3, <1>4 DEF Reporting!AtWork, Reporting!ReportRoom, Reporting!Capturing
<1>6. "admitted" \in Reporting!Locations BY DEF Reporting!Locations
<1> QED BY <1>1, <1>2, <1>5, <1>6, ReportTypes, QuietReportKeeps

\* The next identifier is that of no row yet.
LEMMA InsertReportKeeps ==
  ASSUME Reporting!ReportAssumption, Reporting!IInv, NEW t \in Threads, Reporting!InsertRun(t)
  PROVE  Reporting!IInv'
<1> DEFINE k == Reporting!Cardinality(Reporting!Rows) + 1
           x == [report[k] EXCEPT !.status = "running"]
<1>1. repPc[t] = "admitted" BY DEF Reporting!InsertRun
<1>2. repLock = t /\ \A u \in Threads \ {t} : repPc[u] = "idle" BY <1>1, ReportHolder
<1>3. Reporting!Cardinality(Reporting!Rows) < MaxReports
  BY <1>1 DEF Reporting!IInv, Reporting!AtWork, Reporting!ReportRoom
<1>4. k \in Reporting!Reports /\ k \notin Reporting!Rows
  <2>1. Reporting!Cardinality(Reporting!Rows) \in Nat /\ MaxReports \in Nat
    BY RowsCounted DEF Reporting!ReportAssumption
  <2>2. k \notin 1..Reporting!Cardinality(Reporting!Rows) BY <2>1
  <2> QED BY <1>3, <2>1, <2>2, RowsCounted DEF Reporting!Reports
<1>5. report[k].status = "none" /\ report[k].content = Reporting!NoContent
  BY <1>4 DEF Reporting!Rows, Reporting!IInv, Reporting!TypeOK
<1>6. x \in ReportRow /\ x.status = "running" /\ x.content = Reporting!NoContent
  BY <1>4, <1>5, ReportTypes DEF ReportRow, Reporting!Statuses
<1>7. /\ repPc' = [repPc EXCEPT ![t] = "inserted"] /\ report' = [report EXCEPT ![k] = x]
      /\ repJob' = [repJob EXCEPT ![t] = k] /\ UNCHANGED Reporting!sourceVars
      /\ UNCHANGED <<exports, repPublished, served, repLock, view, content>>
  BY DEF Reporting!InsertRun, Reporting!Goto
<1>8. k = Reporting!Cardinality(Reporting!Rows) + 1 OBVIOUS
<1> HIDE DEF k, x
<1>9. /\ report' \in [Reporting!Reports -> ReportRow] /\ report'[k] = x
      /\ \A r \in Reporting!Reports : r # k => report'[r] = report[r]
  BY <1>4, <1>6, <1>7, ReportTypes
<1>10. Reporting!Rows' = Reporting!Rows \cup {k} BY <1>4, <1>6, <1>9 DEF Reporting!Rows
<1>11. Reporting!RowsInOrder'
  <2>1. PICK n \in 0..MaxReports : n = Reporting!Cardinality(Reporting!Rows) /\ Reporting!Rows = 1..n
    BY RowsCounted
  <2>2. n \in Nat BY <2>1 DEF Reporting!ReportAssumption
  <2>3. 1..(n + 1) = (1..n) \cup {n + 1} BY <2>2
  <2>4. Reporting!Rows' = 1..(n + 1) BY <1>8, <1>10, <2>1, <2>3
  <2>5. n + 1 \in 0..MaxReports BY <1>3, <2>1 DEF Reporting!ReportAssumption
  <2> QED BY <2>4, <2>5 DEF Reporting!RowsInOrder
<1>12. \A r \in Reporting!Reports : Reporting!RowHonest(r)'
  BY <1>6, <1>7, <1>9 DEF Reporting!IInv, Reporting!RowHonest, Reporting!sourceVars
<1>13. \A r \in Reporting!Reports : report'[r].status # "completed" => report'[r].content = Reporting!NoContent
  BY <1>6, <1>9 DEF Reporting!IInv, Reporting!TypeOK
<1>14. repJob' \in [Threads -> Reporting!Reports \cup {Nobody}] /\ repJob'[t] = k /\ repPc'[t] = "inserted"
  BY <1>4, <1>7, ReportTypes
<1>15. Reporting!AtWork(t)' BY <1>6, <1>9, <1>10, <1>14 DEF Reporting!AtWork, Reporting!Capturing
<1>16. "inserted" \in Reporting!Locations BY DEF Reporting!Locations
<1>17. repLock' = t /\ served' \subseteq repPublished' BY <1>2, <1>7 DEF Reporting!IInv
<1> QED
  BY <1>2, <1>7, <1>9, <1>11, <1>12, <1>13, <1>14, <1>15, <1>16, <1>17, ReportTypes, HolderKeeps

\* One snapshot for all that follows.
LEMMA CaptureKeeps ==
  ASSUME Reporting!ReportAssumption, Reporting!IInv, NEW t \in Threads,
         Reporting!BeginCapture(t) \/ Reporting!CaptureFiles(t) \/ Reporting!CaptureRows(t)
  PROVE  Reporting!IInv'
<1>1. repPc[t] \in Reporting!Capturing \cup {"inserted"} /\ repPc[t] \notin {"idle", "admitted", "failing"}
  BY DEF Reporting!BeginCapture, Reporting!CaptureFiles, Reporting!CaptureRows,
     Reporting!Capturing
<1>2. repLock = t /\ \A u \in Threads \ {t} : repPc[u] = "idle" BY <1>1, ReportHolder
<1>3. UNCHANGED Reporting!sourceVars /\ UNCHANGED Reporting!rowVars /\ UNCHANGED <<repLock,
                                                                                   repJob>>
  BY DEF Reporting!BeginCapture, Reporting!CaptureFiles, Reporting!CaptureRows
<1>4. Reporting!Rows' = Reporting!Rows /\ UNCHANGED <<report, exports, history, db>>
  BY <1>3 DEF Reporting!rowVars, Reporting!Rows, Reporting!sourceVars
<1>5. repJob'[t] \in Reporting!Rows' /\ report'[repJob'[t]].status = "running"
  BY <1>1, <1>3, <1>4 DEF Reporting!IInv, Reporting!AtWork
<1>6. CASE Reporting!BeginCapture(t)
  <2>1. repPc' = [repPc EXCEPT ![t] = "capturing"] /\ view' = [view EXCEPT ![t] = db] /\ content' = content
    BY <1>6 DEF Reporting!BeginCapture, Reporting!Goto
  <2>2. repPc'[t] = "capturing" /\ view'[t] = db /\ view' \in [Threads -> Reporting!Source]
    BY <2>1, ReportTypes
  <2>3. Reporting!StateOf(view'[t]) \in history' BY <1>4, <2>2 DEF Reporting!IInv
  <2>4. Reporting!AtWork(t)'
    BY <1>5, <2>2, <2>3 DEF Reporting!AtWork, Reporting!Capturing, Reporting!StateOf
  <2>5. "capturing" \in Reporting!Locations BY DEF Reporting!Locations, Reporting!Capturing
  <2> QED BY <1>2, <1>3, <2>1, <2>2, <2>4, <2>5, ReportTypes, QuietReportKeeps
<1>7. CASE Reporting!CaptureFiles(t)
  <2> DEFINE refs == view[t].refs
             x == [content[t] EXCEPT !.refs = refs, !.files = refs \cap intact]
  <2>1. /\ repPc' = [repPc EXCEPT ![t] = "files"] /\ content' = [content EXCEPT ![t] = x] /\ view' = view
        /\ repPc[t] = "capturing" /\ refs \subseteq intact /\ Reporting!Cardinality(refs) <= MaxEvidence
    BY <1>7, ReportTypes DEF Reporting!CaptureFiles, Reporting!Goto, Reporting!Visible,
       Reporting!Verified
  <2>2. refs \in SUBSET Discoveries BY ReportTypes DEF Reporting!Source
  <2>3. x \in Reporting!Content /\ x.refs = refs /\ x.files = refs
    BY <2>1, <2>2, ReportTypes DEF Reporting!Content
  <2> HIDE DEF x
  <2>4. repPc'[t] = "files" /\ content'[t] = x /\ content' \in [Threads -> Reporting!Content]
    BY <2>1, <2>3, ReportTypes
  <2>5. Reporting!StateOf(view'[t]) \in history'
    BY <1>4, <2>1 DEF Reporting!IInv, Reporting!AtWork, Reporting!Capturing
  <2>6. Reporting!AtWork(t)'
    BY <1>5, <2>1, <2>3, <2>4, <2>5 DEF Reporting!AtWork, Reporting!Capturing, Reporting!StateOf
  <2>7. "files" \in Reporting!Locations BY DEF Reporting!Locations, Reporting!Capturing
  <2> QED BY <1>2, <1>3, <2>1, <2>4, <2>6, <2>7, ReportTypes, QuietReportKeeps
<1>8. CASE Reporting!CaptureRows(t)
  <2> DEFINE claims == view[t].claims
             x == [content[t] EXCEPT !.claims = claims]
  <2>1. /\ repPc' = [repPc EXCEPT ![t] = "captured"] /\ content' = [content EXCEPT ![t] = x] /\ view' = view
        /\ repPc[t] = "files" /\ claims \subseteq content[t].refs
    BY <1>8, ReportTypes DEF Reporting!CaptureRows, Reporting!Goto, Reporting!Visible,
       Reporting!Enrichable
  <2>2. claims \in SUBSET Discoveries BY ReportTypes DEF Reporting!Source
  <2>3. x \in Reporting!Content /\ x.refs = content[t].refs /\ x.files = content[t].files /\ x.claims = claims
    BY <2>2, ReportTypes DEF Reporting!Content
  <2> HIDE DEF x
  <2>4. repPc'[t] = "captured" /\ content'[t] = x /\ content' \in [Threads -> Reporting!Content]
    BY <2>1, <2>3, ReportTypes
  <2>5. /\ Reporting!StateOf(view'[t]) \in history' /\ content[t].refs = view[t].refs
        /\ content[t].files = content[t].refs /\ Reporting!Cardinality(content[t].refs) <= MaxEvidence
    BY <1>4, <2>1 DEF Reporting!IInv, Reporting!AtWork, Reporting!Capturing
  <2>6. Reporting!AtWork(t)'
    BY <1>5, <2>1, <2>3, <2>4, <2>5 DEF Reporting!AtWork, Reporting!Capturing, Reporting!StateOf
  <2>7. "captured" \in Reporting!Locations BY DEF Reporting!Locations, Reporting!Capturing
  <2> QED BY <1>2, <1>3, <2>1, <2>4, <2>6, <2>7, ReportTypes, QuietReportKeeps
<1> QED BY <1>6, <1>7, <1>8

\* The exports of a running report.
LEMMA WriteKeeps ==
  ASSUME Reporting!ReportAssumption, Reporting!IInv, NEW t \in Threads, Reporting!WriteExports(t)
  PROVE  Reporting!IInv'
<1>1. /\ repPc[t] \in {"captured", "writing"} /\ repPc[t] # "idle"
      /\ UNCHANGED Reporting!sourceVars /\ UNCHANGED <<report, repPublished, served, repLock,
                                                       repJob, view, content>>
  BY DEF Reporting!WriteExports
<1>2. repLock = t /\ \A u \in Threads \ {t} : repPc[u] = "idle" BY <1>1, ReportHolder
<1>3. PICK to \in {"writing", "written"}, e \in ExportStates :
        repPc' = [repPc EXCEPT ![t] = to] /\ exports' = [exports EXCEPT ![repJob[t]] = e]
  BY DEF Reporting!WriteExports, Reporting!Goto, ExportStates
<1>4. /\ repJob[t] \in Reporting!Rows /\ report[repJob[t]].status = "running"
      /\ Reporting!StateOf(view[t]) \in history
      /\ content[t].refs = view[t].refs /\ content[t].files = content[t].refs
      /\ Reporting!Cardinality(content[t].refs) <= MaxEvidence
      /\ content[t].claims = view[t].claims /\ content[t].claims \subseteq content[t].refs
  BY <1>1 DEF Reporting!IInv, Reporting!AtWork, Reporting!Capturing
<1>5. /\ exports' \in [Reporting!Reports -> ExportStates]
      /\ \A r \in Reporting!Reports : r # repJob[t] => exports'[r] = exports[r]
  BY <1>3, ReportTypes
<1>6. UNCHANGED history BY <1>1 DEF Reporting!sourceVars
<1>7. \A r \in Reporting!Reports : Reporting!RowHonest(r)'
  BY <1>1, <1>4, <1>5, <1>6 DEF Reporting!IInv, Reporting!RowHonest
<1>8. Reporting!Rows' = Reporting!Rows /\ Reporting!RowsInOrder' /\ served' \subseteq repPublished'
  BY <1>1 DEF Reporting!IInv, Reporting!Rows, Reporting!RowsInOrder
<1>9. \A r \in Reporting!Reports : report'[r].status # "completed" => report'[r].content = Reporting!NoContent
  BY <1>1 DEF Reporting!IInv, Reporting!TypeOK
<1>10. repPc'[t] = to /\ to \in Reporting!Locations /\ to # "idle"
  BY <1>3, ReportTypes DEF Reporting!Locations, Reporting!Capturing
<1>11. Reporting!AtWork(t)'
  BY <1>1, <1>3, <1>4, <1>6, <1>8, <1>10 DEF Reporting!AtWork, Reporting!Capturing,
     Reporting!StateOf
<1> QED
  BY <1>1, <1>2, <1>3, <1>5, <1>7, <1>8, <1>9, <1>10, <1>11, ReportTypes, HolderKeeps

\* A report completes with what its transaction saw.
LEMMA PublishKeeps ==
  ASSUME Reporting!ReportAssumption, Reporting!IInv, NEW t \in Threads, Reporting!Publish(t)
  PROVE  Reporting!IInv'
<1> DEFINE k == repJob[t]
           x == [status |-> "completed", content |-> content[t]]
<1>1. /\ repPc[t] = "written" /\ report' = [report EXCEPT ![k] = x] /\ repPublished' = repPublished \cup {k}
      /\ repPc' = [repPc EXCEPT ![t] = "published"]
      /\ UNCHANGED Reporting!sourceVars /\ UNCHANGED <<exports, served, repLock, repJob, view,
                                                       content>>
  BY DEF Reporting!Publish, Reporting!Goto
<1>2. repLock = t /\ \A u \in Threads \ {t} : repPc[u] = "idle" BY <1>1, ReportHolder
<1>3. /\ k \in Reporting!Rows /\ Reporting!StateOf(view[t]) \in history
      /\ content[t].refs = view[t].refs /\ content[t].files = content[t].refs
      /\ Reporting!Cardinality(content[t].refs) <= MaxEvidence
      /\ content[t].claims = view[t].claims /\ content[t].claims \subseteq content[t].refs
  BY <1>1 DEF Reporting!IInv, Reporting!AtWork, Reporting!Capturing
<1>4. Reporting!StateOf(content[t]) \in history /\ Reporting!Whole(content[t])
  BY <1>3 DEF Reporting!StateOf, Reporting!Whole
<1>5. x \in ReportRow /\ x.status = "completed" /\ x.content = content[t]
  BY ReportTypes DEF ReportRow, Reporting!Statuses
<1> HIDE DEF x, k
<1>6. /\ report' \in [Reporting!Reports -> ReportRow] /\ report'[k] = x
      /\ \A r \in Reporting!Reports : r # k => report'[r] = report[r]
      /\ Reporting!Rows' = Reporting!Rows /\ Reporting!RowsInOrder'
  BY <1>1, <1>3, <1>5, RowReplaced
<1>7. UNCHANGED history BY <1>1 DEF Reporting!sourceVars
<1>8. \A r \in Reporting!Reports : Reporting!RowHonest(r)'
  <2>1. \A r \in Reporting!Reports : r = k => Reporting!RowHonest(r)'
    BY <1>1, <1>4, <1>5, <1>6, <1>7 DEF Reporting!RowHonest, Reporting!Whole, Reporting!StateOf
  <2>2. \A r \in Reporting!Reports : r # k => Reporting!RowHonest(r)'
    BY <1>1, <1>6, <1>7 DEF Reporting!IInv, Reporting!RowHonest, Reporting!Whole
  <2> QED BY <2>1, <2>2
<1>9. \A r \in Reporting!Reports : report'[r].status # "completed" => report'[r].content = Reporting!NoContent
  BY <1>5, <1>6 DEF Reporting!IInv, Reporting!TypeOK
<1>10. repPc'[t] = "published" /\ "published" \in Reporting!Locations
  BY <1>1, ReportTypes DEF Reporting!Locations
<1>11. Reporting!AtWork(t)'
  BY <1>1, <1>3, <1>6, <1>10 DEF Reporting!AtWork, Reporting!Capturing, k
<1>12. served' \subseteq repPublished' BY <1>1 DEF Reporting!IInv
<1> QED
  BY <1>1, <1>2, <1>6, <1>8, <1>9, <1>10, <1>11, <1>12, ReportTypes, HolderKeeps

\* An exception removes the files before the failure is recorded.
LEMMA AbortKeeps ==
  ASSUME Reporting!ReportAssumption, Reporting!IInv, NEW t \in Threads,
         Reporting!Abort(t) \/ Reporting!AbortAfterCommit(t)
  PROVE  Reporting!IInv'
<1>1. /\ repPc[t] \in Reporting!Capturing \cup {"published"} /\ repPc[t] \notin {"idle", "admitted"}
      /\ exports' = [exports EXCEPT ![repJob[t]] = "none"] /\ repPc' = [repPc EXCEPT ![t] = "failing"]
      /\ UNCHANGED Reporting!sourceVars /\ UNCHANGED <<report, repPublished, served, repLock,
                                                       repJob, view, content>>
  BY DEF Reporting!Abort, Reporting!AbortAfterCommit, Reporting!Goto, Reporting!Removed,
     Reporting!Capturing
<1>2. repLock = t /\ \A u \in Threads \ {t} : repPc[u] = "idle" BY <1>1, ReportHolder
<1>3. repJob[t] \in Reporting!Rows BY <1>1 DEF Reporting!IInv, Reporting!AtWork
<1>4. /\ exports' \in [Reporting!Reports -> ExportStates] /\ exports'[repJob[t]] = "none"
      /\ \A r \in Reporting!Reports : exports'[r] \in {exports[r], "none"}
  BY <1>1, <1>3, ReportTypes DEF ExportStates
<1>5. UNCHANGED history BY <1>1 DEF Reporting!sourceVars
<1>6. \A r \in Reporting!Reports : Reporting!RowHonest(r)'
  BY <1>1, <1>4, <1>5 DEF Reporting!IInv, Reporting!RowHonest
<1>7. Reporting!Rows' = Reporting!Rows /\ Reporting!RowsInOrder' /\ served' \subseteq repPublished'
  BY <1>1 DEF Reporting!IInv, Reporting!Rows, Reporting!RowsInOrder
<1>8. \A r \in Reporting!Reports : report'[r].status # "completed" => report'[r].content = Reporting!NoContent
  BY <1>1 DEF Reporting!IInv, Reporting!TypeOK
<1>9. repPc'[t] = "failing" /\ "failing" \in Reporting!Locations
  BY <1>1, ReportTypes DEF Reporting!Locations
<1>10. Reporting!AtWork(t)'
  BY <1>1, <1>3, <1>4, <1>7, <1>9 DEF Reporting!AtWork, Reporting!Capturing
<1> QED
  BY <1>1, <1>2, <1>4, <1>6, <1>7, <1>8, <1>9, <1>10, ReportTypes, HolderKeeps

\* The failure is recorded: the files are gone already.
LEMMA FailureKeeps ==
  ASSUME Reporting!ReportAssumption, Reporting!IInv, NEW t \in Threads, Reporting!RecordFailure(t)
  PROVE  Reporting!IInv'
<1> DEFINE k == repJob[t]
           x == [status |-> "failed", content |-> Reporting!NoContent]
<1>1. /\ repPc[t] = "failing" /\ report' = [report EXCEPT ![k] = x] /\ Reporting!Ended(t)
      /\ UNCHANGED Reporting!sourceVars /\ UNCHANGED <<exports, repPublished, served>>
  BY DEF Reporting!RecordFailure
<1>2. k \in Reporting!Rows /\ exports[k] = "none" BY <1>1 DEF Reporting!IInv, Reporting!AtWork
<1>3. x \in ReportRow /\ x.status = "failed" /\ x.content = Reporting!NoContent
  BY Empties DEF ReportRow, Reporting!Statuses
<1> HIDE DEF x, k
<1>4. /\ report' \in [Reporting!Reports -> ReportRow] /\ report'[k] = x
      /\ \A r \in Reporting!Reports : r # k => report'[r] = report[r]
      /\ Reporting!RowsInOrder'
  BY <1>1, <1>2, <1>3, RowReplaced
<1>5. UNCHANGED history BY <1>1 DEF Reporting!sourceVars
<1>6. \A r \in Reporting!Reports : Reporting!RowHonest(r)'
  BY <1>1, <1>2, <1>3, <1>4, <1>5 DEF Reporting!IInv, Reporting!RowHonest, Reporting!Whole
<1>7. \A r \in Reporting!Reports : report'[r].status # "completed" => report'[r].content = Reporting!NoContent
  BY <1>3, <1>4 DEF Reporting!IInv, Reporting!TypeOK
<1>8. "idle" \in Reporting!Locations BY DEF Reporting!Locations
<1>9. served' \subseteq repPublished' /\ exports' \in [Reporting!Reports -> ExportStates]
  BY <1>1, ReportTypes DEF Reporting!IInv
<1> QED BY <1>1, <1>4, <1>6, <1>7, <1>8, <1>9, EndedGoes, HolderKeeps

-----------------------------------------------------------------------------
(* The steps of the others *)

\* The sources move on: what was a database state remains one.
LEMMA SourceKeeps ==
  ASSUME Reporting!ReportAssumption, Reporting!IInv, NEW s \in Reporting!Source,
         Reporting!Commit(s), s.claims \subseteq s.refs,
         intact' \subseteq Discoveries, UNCHANGED Reporting!rowVars, UNCHANGED Reporting!threadVars
  PROVE  Reporting!IInv'
<1>1. db' = s /\ history' = history \cup {Reporting!StateOf(s)} BY DEF Reporting!Commit
<1>2. UNCHANGED <<report, exports, repPublished, served, repLock, repPc, repJob, view, content>>
  BY DEF Reporting!rowVars, Reporting!threadVars
<1>3. Reporting!Rows' = Reporting!Rows /\ Reporting!RowsInOrder' /\ \A r \in Reporting!Reports : Reporting!RowHonest(r)'
  BY <1>1, <1>2, RowsUntouched
<1>4. Reporting!Typed' BY <1>1, <1>2 DEF Reporting!IInv, Reporting!Typed
<1>5. Reporting!TypeOK' BY <1>1, <1>2 DEF Reporting!IInv, Reporting!TypeOK
<1>6. \A t \in Threads : Reporting!AtWork(t)'
  BY <1>1, <1>2, <1>3 DEF Reporting!IInv, Reporting!AtWork, Reporting!ReportRoom
<1>7. Reporting!StateOf(db)' \in history' /\ served' \subseteq repPublished'
  BY <1>1, <1>2 DEF Reporting!IInv, Reporting!StateOf
<1> QED BY <1>3, <1>4, <1>5, <1>6, <1>7 DEF Reporting!IInv

\* What discovery and detection publish changes no report.
LEMMA DiscoveryKeeps ==
  ASSUME Reporting!ReportAssumption, Reporting!IInv, NEW d \in Discoveries,
         Reporting!StartDiscovery(d) \/ Reporting!PublishDiscovery(d) \/ Reporting!PublishFinding(d)
  PROVE  Reporting!IInv'
<1>1. db \in Reporting!Source /\ db.claims \subseteq db.refs /\ intact \subseteq Discoveries
  BY ReportTypes DEF Reporting!IInv, Reporting!TypeOK
<1>2. CASE Reporting!StartDiscovery(d)
  <2> DEFINE s == [db EXCEPT !.active = @ \cup {d}]
  <2>1. s \in Reporting!Source /\ s.claims \subseteq s.refs BY <1>1 DEF Reporting!Source
  <2> HIDE DEF s
  <2>2. Reporting!Commit(s) /\ UNCHANGED intact /\ UNCHANGED Reporting!rowVars /\ UNCHANGED Reporting!threadVars
    BY <1>2 DEF Reporting!StartDiscovery, s
  <2> QED BY <1>1, <2>1, <2>2, SourceKeeps
<1>3. CASE Reporting!PublishDiscovery(d)
  <2> DEFINE s == [db EXCEPT !.active = @ \ {d}, !.refs = @ \cup {d}]
  <2>1. s \in Reporting!Source /\ s.claims \subseteq s.refs BY <1>1 DEF Reporting!Source
  <2> HIDE DEF s
  <2>2. Reporting!Commit(s) /\ intact' = intact \cup {d} /\ UNCHANGED Reporting!rowVars /\ UNCHANGED Reporting!threadVars
    BY <1>3 DEF Reporting!PublishDiscovery, s
  <2> QED BY <1>1, <2>1, <2>2, SourceKeeps
<1>4. CASE Reporting!PublishFinding(d)
  <2> DEFINE s == [db EXCEPT !.claims = @ \cup {d}]
  <2>1. s \in Reporting!Source /\ s.claims \subseteq s.refs
    BY <1>1, <1>4 DEF Reporting!Source, Reporting!PublishFinding
  <2> HIDE DEF s
  <2>2. Reporting!Commit(s) /\ UNCHANGED intact /\ UNCHANGED Reporting!rowVars /\ UNCHANGED Reporting!threadVars
    BY <1>4 DEF Reporting!PublishFinding, s
  <2> QED BY <1>1, <2>1, <2>2, SourceKeeps
<1> QED BY <1>2, <1>3, <1>4

\* Only a completed report is served, and that was published.
LEMMA ExportKeeps ==
  ASSUME Reporting!ReportAssumption, Reporting!IInv, NEW r \in Reporting!Reports,
         Reporting!Export(r)
  PROVE  Reporting!IInv'
<1>1. UNCHANGED <<db, intact, history, report, exports, repPublished, repLock, repPc, repJob,
                  view, content>>
  BY DEF Reporting!Export, Reporting!sourceVars, Reporting!threadVars
<1>2. served' \subseteq repPublished'
  BY <1>1 DEF Reporting!Export, Reporting!Available, Reporting!IInv, Reporting!RowHonest
<1>3. Reporting!Rows' = Reporting!Rows BY <1>1 DEF Reporting!Rows
<1>4. Reporting!Typed' /\ Reporting!TypeOK'
  BY <1>1 DEF Reporting!IInv, Reporting!Typed, Reporting!TypeOK
<1>5. Reporting!RowsInOrder' /\ \A q \in Reporting!Reports : Reporting!RowHonest(q)'
  BY <1>1, <1>3 DEF Reporting!IInv, Reporting!RowsInOrder, Reporting!RowHonest
<1>6. \A t \in Threads : Reporting!AtWork(t)'
  BY <1>1, <1>3 DEF Reporting!IInv, Reporting!AtWork, Reporting!ReportRoom
<1> QED BY <1>1, <1>2, <1>4, <1>5, <1>6 DEF Reporting!IInv, Reporting!StateOf

\* Nothing of a report's state changes.
LEMMA ReportStutter ==
  ASSUME Reporting!IInv, UNCHANGED Reporting!sourceVars, UNCHANGED Reporting!rowVars,
         UNCHANGED Reporting!threadVars
  PROVE  Reporting!IInv'
<1>1. UNCHANGED <<db, intact, history, report, exports, repPublished, served, repLock, repPc,
                  repJob, view,
                  content>>
  BY DEF Reporting!sourceVars, Reporting!rowVars, Reporting!threadVars
<1>2. Reporting!Rows' = Reporting!Rows BY <1>1 DEF Reporting!Rows
<1>3. Reporting!Typed' /\ Reporting!TypeOK'
  BY <1>1 DEF Reporting!IInv, Reporting!Typed, Reporting!TypeOK
<1>4. Reporting!RowsInOrder' /\ \A q \in Reporting!Reports : Reporting!RowHonest(q)'
  BY <1>1, <1>2 DEF Reporting!IInv, Reporting!RowsInOrder, Reporting!RowHonest
<1>5. \A t \in Threads : Reporting!AtWork(t)'
  BY <1>1, <1>2 DEF Reporting!IInv, Reporting!AtWork, Reporting!ReportRoom
<1> QED BY <1>1, <1>3, <1>4, <1>5 DEF Reporting!IInv, Reporting!StateOf

\* A stop ends every running report and its files, whatever else the disk loses.
LEMMA StopKeeps ==
  ASSUME Reporting!ReportAssumption, Reporting!IInv, NEW lostEvidence, NEW lostExports,
         Reporting!Stop(lostEvidence, lostExports)
  PROVE  Reporting!IInv'
<1> DEFINE s == [db EXCEPT !.active = {}]
           x == [status |-> "failed", content |-> Reporting!NoContent]
<1>1. x \in ReportRow /\ x.status = "failed" /\ x.content = Reporting!NoContent
  BY Empties DEF ReportRow, Reporting!Statuses
<1>2. s \in Reporting!Source /\ s.claims \subseteq s.refs
  BY ReportTypes DEF Reporting!IInv, Reporting!TypeOK, Reporting!Source
<1> HIDE DEF s, x
<1>3. /\ db' = s /\ history' = history \cup {Reporting!StateOf(s)} /\ intact' = intact \ lostEvidence
      /\ repLock' = Nobody /\ repPc' = [t \in Threads |-> "idle"] /\ repJob' = [t \in Threads |-> Nobody]
      /\ view' = [t \in Threads |-> Reporting!NoSource] /\ content' = [t \in Threads |-> Reporting!NoContent]
      /\ UNCHANGED <<repPublished, served>>
  BY DEF Reporting!Stop, Reporting!Commit, s
<1>4. report' = [r \in Reporting!Reports |-> IF report[r].status = "running" THEN x ELSE report[r]]
  BY DEF Reporting!Stop, x
<1>5. exports' = [r \in Reporting!Reports |-> IF r \in lostExports THEN "none"
                                    ELSE IF report[r].status = "running" THEN "none" ELSE exports[r]]
  BY DEF Reporting!Stop, Reporting!RecoveredExports
<1>6. /\ report' \in [Reporting!Reports -> ReportRow] /\ exports' \in [Reporting!Reports -> ExportStates]
      /\ \A r \in Reporting!Reports : /\ report[r].status = "running" => report'[r] = x /\ exports'[r] = "none"
                                      /\ report[r].status # "running" => /\ report'[r] = report[r]
                                                                         /\ exports'[r] \in {exports[r], "none"}
  BY <1>1, <1>4, <1>5, ReportTypes DEF ExportStates
<1>7. Reporting!Rows' = Reporting!Rows BY <1>1, <1>6 DEF Reporting!Rows
<1>8. Reporting!RowsInOrder' /\ served' \subseteq repPublished' /\ Reporting!StateOf(db)' \in history'
  BY <1>3, <1>7 DEF Reporting!IInv, Reporting!RowsInOrder, Reporting!StateOf
<1>9. \A r \in Reporting!Reports : Reporting!RowHonest(r)'
  BY <1>1, <1>3, <1>6 DEF Reporting!IInv, Reporting!RowHonest, Reporting!Whole
<1>10. Reporting!Typed'
  BY <1>2, <1>3, <1>6, Empties DEF Reporting!Typed, ReportRow, ExportStates, Reporting!Locations
<1>11. Reporting!TypeOK'
  <2>1. \A r \in Reporting!Reports : /\ report'[r].status \in Reporting!Statuses
                                     /\ report'[r].status # "completed" => report'[r].content = Reporting!NoContent
    BY <1>1, <1>6, ReportTypes DEF Reporting!IInv, Reporting!TypeOK, Reporting!Statuses
  <2>2. \A t \in Threads : repPc'[t] # "idle" <=> repLock' = t
    BY <1>3 DEF Reporting!ReportAssumption
  <2>3. intact' \subseteq Discoveries /\ db'.claims \subseteq db'.refs
    BY <1>2, <1>3 DEF Reporting!IInv, Reporting!TypeOK
  <2> QED BY <2>1, <2>2, <2>3 DEF Reporting!TypeOK, Reporting!Statuses
<1>12. \A t \in Threads : Reporting!AtWork(t)' BY <1>3 DEF Reporting!AtWork, Reporting!Capturing
<1> QED BY <1>8, <1>9, <1>10, <1>11, <1>12 DEF Reporting!IInv

\* Initially there is no report.
LEMMA ReportInit == ASSUME Reporting!ReportAssumption, Reporting!Init PROVE Reporting!IInv
<1>1. report = [r \in Reporting!Reports |-> Reporting!NoReport] /\ repPc = [t \in Threads |-> "idle"]
  BY DEF Reporting!Init
<1>2. Reporting!Rows = {} BY <1>1, Empties DEF Reporting!Rows
<1>3. Reporting!RowsInOrder
  <2>1. 0 \in 0..MaxReports /\ 1..0 = {} BY DEF Reporting!ReportAssumption
  <2> QED BY <1>2, <2>1 DEF Reporting!RowsInOrder
<1>4. Reporting!Typed
  BY <1>1, Empties DEF Reporting!Init, Reporting!Typed, ReportRow, Reporting!Locations
<1>5. Reporting!TypeOK
  BY <1>1, Empties DEF Reporting!Init, Reporting!TypeOK, Reporting!NoSource,
     Reporting!ReportAssumption
<1>6. \A r \in Reporting!Reports : Reporting!RowHonest(r) BY <1>1, Empties DEF Reporting!RowHonest
<1>7. \A t \in Threads : Reporting!AtWork(t) BY <1>1 DEF Reporting!AtWork, Reporting!Capturing
<1> QED BY <1>3, <1>4, <1>5, <1>6, <1>7 DEF Reporting!Init, Reporting!IInv

\* One step of any request, source, fault or restart keeps the invariant.
LEMMA ReportNext ==
  ASSUME Reporting!ReportAssumption, Reporting!IInv, [Reporting!Next]_Reporting!vars
  PROVE  Reporting!IInv'
<1>1. ASSUME NEW t \in Threads, Reporting!ReportStep(t) PROVE Reporting!IInv'
  BY <1>1, InsertReportKeeps, CaptureKeeps, WriteKeeps, PublishKeeps, ReturnKeeps, AbortKeeps,
     FailureKeeps DEF Reporting!ReportStep
<1>2. CASE Reporting!Crash BY <1>2, StopKeeps DEF Reporting!Crash
<1>3. CASE Reporting!PowerLoss BY <1>3, StopKeeps DEF Reporting!PowerLoss
<1>4. CASE Reporting!Revoke \/ UNCHANGED Reporting!vars
  BY <1>4, ReportStutter DEF Reporting!Revoke, Reporting!vars
<1> QED
  BY <1>1, <1>2, <1>3, <1>4, DiscoveryKeeps, AdmitKeeps, AbortKeeps, ReturnKeeps, ExportKeeps
     DEF Reporting!Next

\* What the invariant says of completed, failed and served reports.
LEMMA ReportFollows ==
  ASSUME Reporting!ReportAssumption, Reporting!IInv
  PROVE  Reporting!ReportsHold
<1>1. Reporting!ReportIsOneState /\ Reporting!PackComplete
  BY DEF Reporting!IInv, Reporting!RowHonest, Reporting!Whole, Reporting!ReportIsOneState,
     Reporting!PackComplete
<1>2. Reporting!Cardinality(Reporting!Rows) <= MaxReports
  BY RowsCounted DEF Reporting!ReportAssumption
<1>3. Reporting!FailureLeavesNothing
  BY <1>2 DEF Reporting!IInv, Reporting!RowHonest, Reporting!FailureLeavesNothing
<1> QED
  BY <1>1, <1>3 DEF Reporting!IInv, Reporting!ReportsHold, Reporting!ReportsWhole,
     Reporting!ExportsHold, Reporting!ServedWasPublished

\* However reports, discoveries, findings, revocations, crashes, power losses
\* and lost commits interleave, a completed report shows one state of the
\* database with verified evidence for everything it claims, a failed one leaves
\* no file, only what was published is served, and the limit is exact.
THEOREM ReportSafe == Spec => []ReportsHold
<1> DEFINE Inv == part = "reporting" => Reporting!IInv
<1> USE WorkflowAssumptions
<1>1. Init => Inv BY ReportInit DEF Init
<1>2. Inv /\ [Next]_vars => Inv'
  <2> SUFFICES ASSUME Inv, [Next]_vars, part' = "reporting" PROVE Reporting!IInv' OBVIOUS
  <2>1. part = "reporting" /\ [Reporting!Next]_Reporting!vars
    BY DEF Next, vars, repVars, Reporting!vars, Reporting!rowVars, Reporting!threadVars,
       Reporting!sourceVars
  <2> QED BY <2>1, ReportNext
<1>3. Inv => ReportsHold BY ReportFollows DEF ReportsHold
<1> QED BY <1>1, <1>2, <1>3, PTL DEF Spec
-----------------------------------------------------------------------------
(* Correlation graphs *)

\* The correlation component's copy of FiniteSets is the library's too.
LEMMA CorrelationSets ==
  ASSUME NEW S
  PROVE  /\ Correlation!IsFiniteSet(S) <=> IsFiniteSet(S)
         /\ Correlation!Cardinality(S) = Cardinality(S)
BY DEF Correlation!IsFiniteSet, IsFiniteSet, Correlation!Cardinality, Cardinality

\* A pair is two different elements.
LEMMA PairHasTwo ==
  ASSUME NEW S, IsFiniteSet(S), Cardinality(S) = 2
  PROVE  \E f, g \in S : f # g /\ S = {f, g}
<1>1. PICK f \in S : TRUE BY FS_EmptySet
<1>2. IsFiniteSet(S \ {f}) /\ Cardinality(S \ {f}) = 1 BY <1>1, FS_RemoveElement
<1>3. PICK g \in S \ {f} : TRUE BY <1>2, FS_EmptySet
<1>4. IsFiniteSet((S \ {f}) \ {g}) /\ Cardinality((S \ {f}) \ {g}) = 0
  BY <1>2, <1>3, FS_RemoveElement
<1>5. (S \ {f}) \ {g} = {} BY <1>4, FS_EmptySet
<1> QED BY <1>1, <1>3, <1>5

\* Two different elements are a pair.
LEMMA TwoArePair ==
  ASSUME NEW f, NEW g, f # g
  PROVE  Cardinality({f, g}) = 2
<1>1. IsFiniteSet({f}) /\ Cardinality({f}) = 1 BY FS_Singleton
<1>2. g \notin {f} OBVIOUS
<1>3. Cardinality({f} \cup {g}) = Cardinality({f}) + 1 BY <1>1, <1>2, FS_AddElement
<1>4. {f} \cup {g} = {f, g} OBVIOUS
<1> QED BY <1>1, <1>3, <1>4

\* What a thread that has read r sees of the store when it derives its graph.
Seen(r) == [assets |-> r.assets, responding |-> responses, findings |-> r.findings]

\* The edge between a web asset and the host at its address.
LEMMA RelationshipExact ==
  ASSUME Correlation!CorrelationAssumption, NEW r \in Correlation!Read, NEW e
  PROVE  e \in Correlation!_asset_relationships(r.assets, responses)
           <=> /\ e \in Correlation!Edges /\ e.kind = "asset_relationship"
               /\ Correlation!Places(Seen(r), e.ends[1], e.ends[2])
<1>1. r.assets \subseteq Correlation!Assets BY DEF Correlation!Read
<1>2. ASSUME e \in Correlation!_asset_relationships(r.assets, responses)
      PROVE  /\ e \in Correlation!Edges /\ e.kind = "asset_relationship"
             /\ Correlation!Places(Seen(r), e.ends[1], e.ends[2])
  <2>1. PICK w \in r.assets \cap Webs \cap responses :
             AddressOf[w] \in r.assets /\ e = Correlation!Edge("asset_relationship", w, AddressOf[w])
    BY <1>2 DEF Correlation!_asset_relationships
  <2>2. e = [kind |-> "asset_relationship", ends |-> <<w, AddressOf[w]>>]
    BY <2>1 DEF Correlation!Edge
  <2>3. <<w, AddressOf[w]>> \in Correlation!Assets \X (Correlation!Assets \cup Linked)
    BY <1>1, <2>1
  <2>4. e \in Correlation!Edges /\ e.kind = "asset_relationship"
    BY <2>2, <2>3 DEF Correlation!Edges
  <2>5. e.ends[1] = w /\ e.ends[2] = AddressOf[w] BY <2>2
  <2>6. Correlation!Places(Seen(r), w, AddressOf[w]) BY <2>1 DEF Correlation!Places, Seen
  <2> QED BY <2>4, <2>5, <2>6
<1>3. ASSUME e \in Correlation!Edges, e.kind = "asset_relationship",
             Correlation!Places(Seen(r), e.ends[1], e.ends[2])
      PROVE  e \in Correlation!_asset_relationships(r.assets, responses)
  <2>1. PICK x \in Correlation!Assets, y \in Correlation!Assets \cup Linked :
             e = [kind |-> "asset_relationship", ends |-> <<x, y>>]
    BY <1>3 DEF Correlation!Edges
  <2>2. e.ends[1] = x /\ e.ends[2] = y BY <2>1
  <2>3. x \in r.assets \cap responses \cap Webs /\ y = AddressOf[x] /\ y \in r.assets
    BY <1>3, <2>2 DEF Correlation!Places, Seen
  <2>4. e = Correlation!Edge("asset_relationship", x, AddressOf[x])
    BY <2>1, <2>3 DEF Correlation!Edge
  <2> QED BY <2>3, <2>4 DEF Correlation!_asset_relationships
<1> QED BY <1>2, <1>3

\* The edge between a finding and its asset.
LEMMA SubjectExact ==
  ASSUME Correlation!CorrelationAssumption, NEW r \in Correlation!Read, r.hashed = r.findings,
         NEW e
  PROVE  e \in Correlation!Subjects(r)
           <=> /\ e \in Correlation!Edges /\ e.kind = "finding_subject"
               /\ e.ends[2] \in r.findings /\ e.ends[1] = SubjectOf[e.ends[2]]
<1>1. r.findings \subseteq Linked BY DEF Correlation!Read
<1>2. ASSUME e \in Correlation!Subjects(r)
      PROVE  /\ e \in Correlation!Edges /\ e.kind = "finding_subject"
             /\ e.ends[2] \in r.findings /\ e.ends[1] = SubjectOf[e.ends[2]]
  <2>1. PICK f \in r.findings : e = [kind |-> "finding_subject", ends |-> <<SubjectOf[f], f>>]
    BY <1>2 DEF Correlation!Subjects, Correlation!Edge
  <2>2. <<SubjectOf[f], f>> \in Correlation!Assets \X (Correlation!Assets \cup Linked)
    BY <1>1, <2>1 DEF Correlation!CorrelationAssumption
  <2>3. e \in Correlation!Edges BY <2>1, <2>2 DEF Correlation!Edges
  <2> QED BY <2>1, <2>3
<1>3. ASSUME e \in Correlation!Edges, e.kind = "finding_subject", e.ends[2] \in r.findings,
             e.ends[1] = SubjectOf[e.ends[2]]
      PROVE  e \in Correlation!Subjects(r)
  <2>1. PICK x \in Correlation!Assets, y \in Correlation!Assets \cup Linked :
             e = [kind |-> "finding_subject", ends |-> <<x, y>>]
    BY <1>3 DEF Correlation!Edges
  <2>2. y \in r.findings /\ x = SubjectOf[y] BY <1>3, <2>1
  <2> QED BY <2>1, <2>2 DEF Correlation!Subjects, Correlation!Edge
<1> QED BY <1>2, <1>3

\* Two findings are on one asset or on two that a relationship joins.
Joined(f, g, relationships) ==
  \/ SubjectOf[f] = SubjectOf[g]
  \/ \E x \in relationships : {SubjectOf[f], SubjectOf[g]} = {x.ends[1], x.ends[2]}

\* The edge between two findings that are joined.
LEMMA CorrelationExact ==
  ASSUME Correlation!CorrelationAssumption, NEW r \in Correlation!Read, r.hashed = r.findings,
         NEW A, A = Correlation!_asset_relationships(r.assets, responses), NEW e
  PROVE  e \in Correlation!_finding_correlations(r, A)
           <=> /\ e \in Correlation!Edges /\ e.kind = "finding_correlation"
               /\ Correlation!Pairs(Seen(r), e.ends)
<1>1. r.findings \subseteq Linked /\ IsFiniteSet(Linked)
  BY CorrelationSets DEF Correlation!Read, Correlation!CorrelationAssumption
<1>2. e \in Correlation!_finding_correlations(r, A)
        <=> \E fg \in SUBSET r.findings :
              /\ e = [kind |-> "finding_correlation", ends |-> fg] /\ Cardinality(fg) = 2
              /\ \A f, g \in fg : f # g => Joined(f, g, A)
  <2> DEFINE P(fg) == Cardinality(fg) = 2 /\ \A f, g \in fg : f # g => Joined(f, g, A)
  <2>1. r.findings \cap r.hashed = r.findings OBVIOUS
  <2>2. \A fg : Correlation!Cardinality(fg) = Cardinality(fg) BY CorrelationSets
  <2>3. Correlation!_finding_correlations(r, A)
          = {[kind |-> "finding_correlation", ends |-> fg] : fg \in {x \in SUBSET r.findings : P(x)}}
    BY <2>1, <2>2 DEF Correlation!_finding_correlations, Joined
  <2> HIDE DEF P
  <2>4. e \in Correlation!_finding_correlations(r, A)
          <=> \E fg \in SUBSET r.findings : e = [kind |-> "finding_correlation", ends |-> fg] /\ P(fg)
    BY <2>3
  <2> QED BY <2>4 DEF P
<1>3. ASSUME NEW f \in r.findings, NEW g \in r.findings
      PROVE  Joined(f, g, A) <=> \/ SubjectOf[f] = SubjectOf[g]
                                 \/ Correlation!Places(Seen(r), SubjectOf[f], SubjectOf[g])
                                 \/ Correlation!Places(Seen(r), SubjectOf[g], SubjectOf[f])
  <2>1. ASSUME NEW x \in A, {SubjectOf[f], SubjectOf[g]} = {x.ends[1], x.ends[2]}
        PROVE  \/ SubjectOf[f] = SubjectOf[g]
               \/ Correlation!Places(Seen(r), SubjectOf[f], SubjectOf[g])
               \/ Correlation!Places(Seen(r), SubjectOf[g], SubjectOf[f])
    <3>1. Correlation!Places(Seen(r), x.ends[1], x.ends[2]) BY RelationshipExact
    <3>2. \/ x.ends[1] = SubjectOf[f] /\ x.ends[2] = SubjectOf[g]
          \/ x.ends[1] = SubjectOf[g] /\ x.ends[2] = SubjectOf[f]
          \/ SubjectOf[f] = SubjectOf[g]
      BY <2>1
    <3> QED BY <3>1, <3>2
  <2>2. ASSUME NEW v, NEW w, Correlation!Places(Seen(r), v, w), v \in Correlation!Assets
        PROVE  \E x \in A : x.ends[1] = v /\ x.ends[2] = w
    <3> DEFINE x == [kind |-> "asset_relationship", ends |-> <<v, w>>]
    <3>1. w \in Correlation!Assets BY <2>2 DEF Correlation!Places, Seen, Correlation!Read
    <3>2. <<v, w>> \in Correlation!Assets \X (Correlation!Assets \cup Linked) BY <2>2, <3>1
    <3>3. x \in Correlation!Edges BY <3>2 DEF Correlation!Edges
    <3>4. x.kind = "asset_relationship" /\ x.ends[1] = v /\ x.ends[2] = w OBVIOUS
    <3> HIDE DEF x
    <3>5. x \in A BY <2>2, <3>3, <3>4, RelationshipExact
    <3> QED BY <3>4, <3>5
  <2>3. SubjectOf[f] \in Correlation!Assets /\ SubjectOf[g] \in Correlation!Assets
    BY <1>1 DEF Correlation!CorrelationAssumption
  <2>4. ASSUME Correlation!Places(Seen(r), SubjectOf[f], SubjectOf[g]) PROVE Joined(f, g, A)
    <3>1. PICK x \in A : x.ends[1] = SubjectOf[f] /\ x.ends[2] = SubjectOf[g]
      BY <2>2, <2>3, <2>4
    <3> QED BY <3>1 DEF Joined
  <2>5. ASSUME Correlation!Places(Seen(r), SubjectOf[g], SubjectOf[f]) PROVE Joined(f, g, A)
    <3>1. PICK x \in A : x.ends[1] = SubjectOf[g] /\ x.ends[2] = SubjectOf[f]
      BY <2>2, <2>3, <2>5
    <3>2. {SubjectOf[f], SubjectOf[g]} = {x.ends[1], x.ends[2]} BY <3>1
    <3> QED BY <3>2 DEF Joined
  <2>6. Joined(f, g, A) => \/ SubjectOf[f] = SubjectOf[g]
                           \/ \E x \in A : {SubjectOf[f], SubjectOf[g]} = {x.ends[1], x.ends[2]}
    BY DEF Joined
  <2>7. SubjectOf[f] = SubjectOf[g] => Joined(f, g, A) BY DEF Joined
  <2> QED BY <2>1, <2>4, <2>5, <2>6, <2>7
<1>4. ASSUME e \in Correlation!_finding_correlations(r, A)
      PROVE  /\ e \in Correlation!Edges /\ e.kind = "finding_correlation"
             /\ Correlation!Pairs(Seen(r), e.ends)
  <2>1. PICK fg \in SUBSET r.findings :
             /\ e = [kind |-> "finding_correlation", ends |-> fg] /\ Cardinality(fg) = 2
             /\ \A f, g \in fg : f # g => Joined(f, g, A)
    BY <1>2, <1>4
  <2>2. e \in Correlation!Edges BY <1>1, <2>1 DEF Correlation!Edges
  <2>3. e.kind = "finding_correlation" /\ e.ends = fg BY <2>1
  <2>4. fg \subseteq r.findings /\ IsFiniteSet(fg) BY <1>1, FS_Subset
  <2>5. PICK f, g \in fg : f # g /\ fg = {f, g} BY <2>1, <2>4, PairHasTwo
  <2>6. f \in r.findings /\ g \in r.findings BY <2>4, <2>5
  <2>7. Joined(f, g, A) BY <2>1, <2>5
  <2>8. \/ SubjectOf[f] = SubjectOf[g]
        \/ Correlation!Places(Seen(r), SubjectOf[f], SubjectOf[g])
        \/ Correlation!Places(Seen(r), SubjectOf[g], SubjectOf[f])
    BY <1>3, <2>6, <2>7
  <2>9. Seen(r).findings = r.findings /\ fg = {g, f} BY <2>5 DEF Seen
  <2>10. Correlation!Pairs(Seen(r), fg)
    BY <2>5, <2>6, <2>8, <2>9 DEF Correlation!Pairs
  <2> QED BY <2>2, <2>3, <2>10
<1>5. ASSUME e \in Correlation!Edges, e.kind = "finding_correlation",
             Correlation!Pairs(Seen(r), e.ends)
      PROVE  e \in Correlation!_finding_correlations(r, A)
  <2>1. PICK fg \in SUBSET Linked : e = [kind |-> "finding_correlation", ends |-> fg]
    BY <1>5 DEF Correlation!Edges
  <2>2. PICK f \in r.findings, g \in r.findings :
             /\ f # g /\ fg = {f, g}
             /\ \/ SubjectOf[f] = SubjectOf[g]
                \/ Correlation!Places(Seen(r), SubjectOf[f], SubjectOf[g])
    BY <1>5, <2>1 DEF Correlation!Pairs, Seen
  <2>3. Joined(f, g, A) /\ Joined(g, f, A) BY <1>3, <2>2
  <2>4. Cardinality(fg) = 2 BY <2>2, TwoArePair
  <2>5. \A h, k \in fg : h # k => Joined(h, k, A) BY <2>2, <2>3
  <2>6. fg \in SUBSET r.findings BY <2>2
  <2> QED BY <1>2, <2>1, <2>4, <2>5, <2>6
<1> QED BY <1>4, <1>5

\* A store that holds more supports more.
LEMMA SupportGrows ==
  ASSUME NEW s, NEW u, Correlation!Within(s, u), NEW e, Correlation!Supported(s, e)
  PROVE  Correlation!Supported(u, e)
<1>1. /\ s.assets \subseteq u.assets /\ s.responding \subseteq u.responding
      /\ s.findings \subseteq u.findings
  BY DEF Correlation!Within
<1>2. \A v, w : Correlation!Places(s, v, w) => Correlation!Places(u, v, w)
  BY <1>1 DEF Correlation!Places
<1>3. \A ends : Correlation!Pairs(s, ends) => Correlation!Pairs(u, ends)
  BY <1>1, <1>2 DEF Correlation!Pairs
<1> QED BY <1>1, <1>2, <1>3 DEF Correlation!Supported

\* A graph with everything a store supports has everything a smaller one does.
LEMMA CompleteShrinks ==
  ASSUME NEW graph, NEW s, NEW u, Correlation!Within(s, u), Correlation!Complete(graph, u)
  PROVE  Correlation!Complete(graph, s)
BY SupportGrows DEF Correlation!Complete, Correlation!Within

\* A graph with nothing else has nothing that a larger one does not support.
LEMMA SoundGrows ==
  ASSUME NEW graph, NEW s, NEW u, Correlation!Within(s, u), Correlation!Sound(graph, s)
  PROVE  Correlation!Sound(graph, u)
BY SupportGrows DEF Correlation!Sound, Correlation!Within

\* The graph that is derived from what was read.
Derived(r) ==
  LET A == Correlation!_asset_relationships(r.assets, responses)
  IN Correlation!_graph_document(
       r, A \cup Correlation!Subjects(r) \cup Correlation!_finding_correlations(r, A))

\* It shows what was seen, all of it and nothing else.
LEMMA DerivedExact ==
  ASSUME Correlation!CorrelationAssumption, NEW r \in Correlation!Read, r.hashed = r.findings
  PROVE  /\ Derived(r) \in Correlation!Graph
         /\ Correlation!Complete(Derived(r), Seen(r)) /\ Correlation!Sound(Derived(r), Seen(r))
<1> DEFINE A == Correlation!_asset_relationships(r.assets, responses)
           B == Correlation!Subjects(r)
           C == Correlation!_finding_correlations(r, A)
           graph == Derived(r)
<1>1. /\ graph = [nodes |-> r.assets \cup r.findings, edges |-> A \cup B \cup C,
                  mappings |-> r.findings \cap Mapped]
  BY DEF Derived, Correlation!_graph_document
<1>2. \A e : e \in A <=> /\ e \in Correlation!Edges /\ e.kind = "asset_relationship"
                         /\ Correlation!Places(Seen(r), e.ends[1], e.ends[2])
  BY RelationshipExact, Zenon
<1>3. \A e : e \in B <=> /\ e \in Correlation!Edges /\ e.kind = "finding_subject"
                         /\ e.ends[2] \in r.findings /\ e.ends[1] = SubjectOf[e.ends[2]]
  BY SubjectExact, Zenon
<1>4. \A e : e \in C <=> /\ e \in Correlation!Edges /\ e.kind = "finding_correlation"
                         /\ Correlation!Pairs(Seen(r), e.ends)
  <2> HIDE DEF C
  <2> TAKE e
  <2> QED BY CorrelationExact DEF C
<1> HIDE DEF A, B, C, graph
<1>5. graph.nodes = r.assets \cup r.findings /\ graph.edges = A \cup B \cup C
      /\ graph.mappings = r.findings \cap Mapped
  BY <1>1
<1>6. Seen(r).assets = r.assets /\ Seen(r).findings = r.findings BY DEF Seen
<1>7. \A e : e \in graph.edges <=> e \in Correlation!Edges /\ Correlation!Supported(Seen(r), e)
  BY <1>2, <1>3, <1>4, <1>5, <1>6 DEF Correlation!Supported
<1>8. graph \in Correlation!Graph
  <2>1. r.assets \cup r.findings \in SUBSET (Correlation!Assets \cup Linked)
        /\ r.findings \cap Mapped \in SUBSET Linked
    BY DEF Correlation!Read
  <2>2. A \cup B \cup C \in SUBSET Correlation!Edges BY <1>2, <1>3, <1>4
  <2> QED BY <1>1, <2>1, <2>2 DEF Correlation!Graph
<1>9. Correlation!Complete(graph, Seen(r)) BY <1>5, <1>6, <1>7 DEF Correlation!Complete
<1>10. Correlation!Sound(graph, Seen(r)) BY <1>5, <1>6, <1>7 DEF Correlation!Sound
<1> QED BY <1>8, <1>9, <1>10 DEF graph

\* A graph that shows exactly what was seen gives its reasons.
LEMMA ExactExplains ==
  ASSUME NEW graph, NEW s, Correlation!Complete(graph, s), Correlation!Sound(graph, s),
         s.findings \subseteq Linked, Correlation!CorrelationAssumption
  PROVE  Correlation!Explained(graph)
<1> SUFFICES ASSUME NEW c \in graph.edges, c.kind = "finding_correlation"
             PROVE  \/ Correlation!Cardinality(Correlation!SubjectsOf(graph, c.ends)) = 1
                    \/ \E e \in graph.edges :
                         /\ e.kind = "asset_relationship"
                         /\ {e.ends[1], e.ends[2]} = Correlation!SubjectsOf(graph, c.ends)
  BY DEF Correlation!Explained
<1>1. PICK f \in s.findings, g \in s.findings :
           /\ f # g /\ c.ends = {f, g}
           /\ \/ SubjectOf[f] = SubjectOf[g]
              \/ Correlation!Places(s, SubjectOf[f], SubjectOf[g])
  BY DEF Correlation!Sound, Correlation!Supported, Correlation!Pairs
<1>2. ASSUME NEW h \in s.findings
      PROVE  \E e \in graph.edges : /\ e.kind = "finding_subject" /\ e.ends[2] = h
                                    /\ e.ends[1] = SubjectOf[h]
  <2> DEFINE e == [kind |-> "finding_subject", ends |-> <<SubjectOf[h], h>>]
  <2>1. <<SubjectOf[h], h>> \in Correlation!Assets \X (Correlation!Assets \cup Linked)
    BY DEF Correlation!CorrelationAssumption
  <2>2. e \in Correlation!Edges BY <2>1 DEF Correlation!Edges
  <2>3. e.kind = "finding_subject" /\ e.ends[1] = SubjectOf[h] /\ e.ends[2] = h OBVIOUS
  <2> HIDE DEF e
  <2>4. Correlation!Supported(s, e) BY <2>3 DEF Correlation!Supported
  <2> QED BY <2>2, <2>3, <2>4 DEF Correlation!Complete
<1>3. ASSUME NEW e \in graph.edges, e.kind = "finding_subject"
      PROVE  e.ends[1] = SubjectOf[e.ends[2]]
  BY <1>3 DEF Correlation!Sound, Correlation!Supported
<1>4. Correlation!SubjectsOf(graph, c.ends) = {SubjectOf[f], SubjectOf[g]}
  <2>1. PICK ef \in graph.edges : ef.kind = "finding_subject" /\ ef.ends[2] = f /\ ef.ends[1] = SubjectOf[f]
    BY <1>2
  <2>2. PICK eg \in graph.edges : eg.kind = "finding_subject" /\ eg.ends[2] = g /\ eg.ends[1] = SubjectOf[g]
    BY <1>2
  <2> QED BY <1>1, <1>3, <2>1, <2>2 DEF Correlation!SubjectsOf
<1>5. CASE SubjectOf[f] = SubjectOf[g]
  <2>1. Correlation!SubjectsOf(graph, c.ends) = {SubjectOf[f]} BY <1>4, <1>5
  <2>2. Cardinality({SubjectOf[f]}) = 1 BY FS_Singleton
  <2>3. Correlation!Cardinality({SubjectOf[f]}) = 1 BY <2>2, CorrelationSets
  <2> QED BY <2>1, <2>3
<1>6. CASE Correlation!Places(s, SubjectOf[f], SubjectOf[g])
  <2> DEFINE e == [kind |-> "asset_relationship", ends |-> <<SubjectOf[f], SubjectOf[g]>>]
  <2>1. <<SubjectOf[f], SubjectOf[g]>> \in Correlation!Assets \X (Correlation!Assets \cup Linked)
    BY DEF Correlation!CorrelationAssumption
  <2>2. e \in Correlation!Edges BY <2>1 DEF Correlation!Edges
  <2>3. e.kind = "asset_relationship" /\ e.ends[1] = SubjectOf[f] /\ e.ends[2] = SubjectOf[g]
    OBVIOUS
  <2> HIDE DEF e
  <2>4. Correlation!Supported(s, e) BY <1>6, <2>3 DEF Correlation!Supported
  <2>5. e \in graph.edges BY <2>2, <2>4 DEF Correlation!Complete
  <2> QED BY <1>4, <2>3, <2>5
<1> QED BY <1>1, <1>5, <1>6

-----------------------------------------------------------------------------
(* The steps of correlation *)

\* The types the invariant gives.
LEMMA CorrelationTypes ==
  ASSUME Correlation!IInv
  PROVE  /\ inventory \subseteq Correlation!Assets /\ responses \subseteq Webs /\ stored \subseteq Linked
         /\ corRuns \in [Correlation!Ids -> Correlation!CorrelationRun]
         /\ read \in [Threads -> Correlation!Read]
         /\ corJob \in [Threads -> Correlation!Ids \cup {0}]
         /\ corPc \in [Threads -> {"idle", "counted", "inserted", "running", "assets", "findings",
                                   "unanswered"}]
BY DEF Correlation!IInv, Correlation!Typed, Correlation!Store, Correlation!Stored

\* The store as the sets it is made of.
LEMMA StoreFields ==
  /\ Correlation!Store.assets = inventory /\ Correlation!Store.responding = responses
  /\ Correlation!Store.findings = stored
BY DEF Correlation!Store

\* A row that keeps what it had, but for its status.
SameRow(run, old) == run.graph = old.graph /\ run.base = old.base

\* The store only grows, and the rows keep what they had or hold.
LEMMA RowsKeep ==
  ASSUME Correlation!IInv, Correlation!Typed',
         inventory \subseteq inventory', responses \subseteq responses', stored \subseteq stored',
         \A i \in Correlation!Ids : Correlation!Within(corRuns'[i].base, Correlation!Store'),
         \A i \in Correlation!Ids : corRuns'[i].status = "completed" =>
            \/ corRuns[i].status = "completed" /\ SameRow(corRuns'[i], corRuns[i])
            \/ /\ Correlation!Complete(corRuns'[i].graph, corRuns'[i].base)
               /\ Correlation!Sound(corRuns'[i].graph, Correlation!Store')
               /\ Correlation!Explained(corRuns'[i].graph),
         \A t \in Threads : Correlation!AtWork(t)'
  PROVE  Correlation!IInv'
<1>1. Correlation!Within(Correlation!Store, Correlation!Store')
  BY DEF Correlation!Within, Correlation!Store
<1>2. ASSUME NEW i \in Correlation!Ids, corRuns[i].status = "completed"
      PROVE  /\ Correlation!Complete(corRuns[i].graph, corRuns[i].base)
             /\ Correlation!Sound(corRuns[i].graph, Correlation!Store)
             /\ Correlation!Explained(corRuns[i].graph)
  BY <1>2 DEF Correlation!IInv, Correlation!GraphsHold, Correlation!GraphsFaithful,
     Correlation!CorrelationsExplained, Correlation!Completed
<1>3. ASSUME NEW i \in Correlation!Ids, corRuns'[i].status = "completed"
      PROVE  /\ Correlation!Complete(corRuns'[i].graph, corRuns'[i].base)
             /\ Correlation!Sound(corRuns'[i].graph, Correlation!Store')
             /\ Correlation!Explained(corRuns'[i].graph)
  <2>1. CASE corRuns[i].status = "completed" /\ SameRow(corRuns'[i], corRuns[i])
    <3>1. Correlation!Sound(corRuns[i].graph, Correlation!Store') BY <1>1, <1>2, <2>1, SoundGrows
    <3> QED BY <1>2, <2>1, <3>1 DEF SameRow
  <2> QED BY <1>3, <2>1
<1>4. Correlation!GraphsHold'
  BY <1>3 DEF Correlation!GraphsHold, Correlation!GraphsFaithful,
     Correlation!CorrelationsExplained,
     Correlation!Completed, Correlation!Ids
<1> QED BY <1>4 DEF Correlation!IInv, Correlation!Ids

\* A thread that does not move keeps its place while the store grows.
LEMMA OthersKeep ==
  ASSUME Correlation!IInv, NEW u \in Threads, corPc'[u] = corPc[u], corJob'[u] = corJob[u],
         read'[u] = read[u], inventory \subseteq inventory', stored \subseteq stored',
         \A i \in Correlation!Ids : corRuns[i].status # "none" =>
            corRuns'[i].status # "none" /\ corRuns'[i].base = corRuns[i].base
  PROVE  Correlation!AtWork(u)'
BY DEF Correlation!IInv, Correlation!AtWork

\* A step that leaves the store and the rows alone.
LEMMA RowsAlone ==
  ASSUME Correlation!IInv, Correlation!Typed', \A t \in Threads : Correlation!AtWork(t)',
         UNCHANGED corRuns,
         UNCHANGED <<inventory, responses, stored>>
  PROVE  Correlation!IInv'
<1>1. \A i \in Correlation!Ids : Correlation!Within(corRuns'[i].base, Correlation!Store')
  BY DEF Correlation!IInv, Correlation!Store
<1>2. \A i \in Correlation!Ids : SameRow(corRuns'[i], corRuns[i]) /\ corRuns'[i].status = corRuns[i].status
  BY DEF SameRow
<1> QED BY <1>1, <1>2, RowsKeep

\* Only the status of a thread's row is written.
LEMMA StatusKeeps ==
  ASSUME Correlation!IInv, NEW k, NEW s \in Correlation!Statuses, s # "completed", s # "none",
         corRuns' = [corRuns EXCEPT ![k].status = s],
         UNCHANGED <<inventory, responses, stored>>, Correlation!Typed',
         NEW t \in Threads, Correlation!AtWork(t)',
         \A u \in Threads \ {t} : corPc'[u] = corPc[u] /\ corJob'[u] = corJob[u] /\ read'[u] = read[u]
  PROVE  Correlation!IInv'
<1>1. ASSUME NEW i \in Correlation!Ids
      PROVE  /\ SameRow(corRuns'[i], corRuns[i])
             /\ corRuns'[i].status = corRuns[i].status \/ corRuns'[i].status = s
  <2>1. corRuns[i] \in Correlation!CorrelationRun BY CorrelationTypes
  <2>2. corRuns'[i] = corRuns[i] \/ corRuns'[i] = [corRuns[i] EXCEPT !.status = s]
    BY CorrelationTypes
  <2> QED BY <2>1, <2>2 DEF SameRow, Correlation!CorrelationRun
<1>2. \A i \in Correlation!Ids : Correlation!Within(corRuns'[i].base, Correlation!Store')
  BY <1>1 DEF Correlation!IInv, Correlation!Store, SameRow
<1>3. \A u \in Threads \ {t} : Correlation!AtWork(u)' BY <1>1, OthersKeep DEF SameRow
<1> QED BY <1>1, <1>2, <1>3, RowsKeep

\* The types of a row whose status is written.
LEMMA StatusTypes ==
  ASSUME Correlation!IInv, NEW k, NEW s \in Correlation!Statuses
  PROVE  [corRuns EXCEPT ![k].status = s] \in [Correlation!Ids -> Correlation!CorrelationRun]
<1>1. \A i \in Correlation!Ids : [corRuns[i] EXCEPT !.status = s] \in Correlation!CorrelationRun
  BY CorrelationTypes DEF Correlation!CorrelationRun
<1> QED BY <1>1, CorrelationTypes

\* A thread whose request is over works on nothing.
LEMMA DoneGoes ==
  ASSUME Correlation!IInv, NEW t \in Threads, Correlation!Done(t)
  PROVE  /\ Correlation!AtWork(t)'
         /\ read' \in [Threads -> Correlation!Read] /\ corJob' \in [Threads -> Correlation!Ids \cup {0}]
         /\ corPc' \in [Threads -> {"idle", "counted", "inserted", "running", "assets", "findings",
                                    "unanswered"}]
         /\ \A u \in Threads \ {t} : corPc'[u] = corPc[u] /\ corJob'[u] = corJob[u] /\ read'[u] = read[u]
<1>1. /\ corPc' = [corPc EXCEPT ![t] = "idle"] /\ corJob' = [corJob EXCEPT ![t] = 0]
      /\ read' = [read EXCEPT ![t] = Correlation!NoRead]
  BY DEF Correlation!Done, Correlation!Goto
<1>2. Correlation!NoRead \in Correlation!Read BY DEF Correlation!NoRead, Correlation!Read
<1>3. corPc'[t] = "idle" /\ read'[t] = Correlation!NoRead BY <1>1, CorrelationTypes
<1>4. Correlation!AtWork(t)' BY <1>3 DEF Correlation!AtWork, Correlation!NoRead
<1> QED BY <1>1, <1>2, <1>4, CorrelationTypes

\* The graph that a thread commits.
LEMMA CommitHolds ==
  ASSUME Correlation!CorrelationAssumption, Correlation!IInv, NEW t \in Threads,
         Correlation!Commit(t)
  PROVE  /\ corJob[t] \in Correlation!Ids
         /\ corRuns' = [corRuns EXCEPT ![corJob[t]] =
                [status |-> "completed", base |-> corRuns[corJob[t]].base, graph |-> Derived(read[t])]]
         /\ Derived(read[t]) \in Correlation!Graph
         /\ Correlation!Complete(Derived(read[t]), corRuns[corJob[t]].base)
         /\ Correlation!Sound(Derived(read[t]), Correlation!Store) /\ Correlation!Explained(Derived(read[t]))
<1>1. corPc[t] = "findings" BY DEF Correlation!Commit
<1>2. /\ corJob[t] \in Correlation!Ids /\ read[t].hashed = read[t].findings
      /\ read[t].assets \subseteq inventory /\ read[t].findings \subseteq stored
      /\ corRuns[corJob[t]].base.assets \subseteq read[t].assets
      /\ corRuns[corJob[t]].base.findings \subseteq read[t].findings
  BY <1>1 DEF Correlation!IInv, Correlation!AtWork
<1>3. read[t] \in Correlation!Read BY CorrelationTypes
<1>4. corRuns[corJob[t]].base.responding \subseteq responses
  BY <1>2, StoreFields DEF Correlation!IInv, Correlation!Within
<1>5. /\ Correlation!Within(corRuns[corJob[t]].base, Seen(read[t]))
      /\ Correlation!Within(Seen(read[t]), Correlation!Store)
  BY <1>2, <1>4, StoreFields DEF Correlation!Within, Seen
<1>6. /\ Derived(read[t]) \in Correlation!Graph
      /\ Correlation!Complete(Derived(read[t]), Seen(read[t])) /\ Correlation!Sound(Derived(read[t]), Seen(read[t]))
  BY <1>2, <1>3, DerivedExact
<1>7. Correlation!Complete(Derived(read[t]), corRuns[corJob[t]].base)
  BY <1>5, <1>6, CompleteShrinks
<1>8. Correlation!Sound(Derived(read[t]), Correlation!Store) BY <1>5, <1>6, SoundGrows
<1>9. Seen(read[t]).findings \subseteq Linked BY <1>3 DEF Seen, Correlation!Read
<1>10. Correlation!Explained(Derived(read[t])) BY <1>6, <1>9, ExactExplains
<1>11. corRuns' = [corRuns EXCEPT ![corJob[t]] =
                [status |-> "completed", base |-> corRuns[corJob[t]].base, graph |-> Derived(read[t])]]
  BY DEF Correlation!Commit, Derived
<1> QED BY <1>2, <1>6, <1>7, <1>8, <1>10, <1>11

\* Publication, whether or not its reply arrives.
LEMMA GraphPublishKeeps ==
  ASSUME Correlation!CorrelationAssumption, Correlation!IInv, NEW t \in Threads,
         Correlation!Publish(t) \/ Correlation!PublishUnanswered(t)
  PROVE  Correlation!IInv'
<1> DEFINE k == corJob[t]
           g == Derived(read[t])
<1>1. Correlation!Commit(t) /\ UNCHANGED <<inventory, responses, stored>>
  BY DEF Correlation!Publish, Correlation!PublishUnanswered, Correlation!storeVars
<1>2. /\ k \in Correlation!Ids /\ corRuns' = [corRuns EXCEPT ![k] = [status |-> "completed", base |-> corRuns[k].base, graph |-> g]]
      /\ g \in Correlation!Graph /\ Correlation!Complete(g, corRuns[k].base)
      /\ Correlation!Sound(g, Correlation!Store) /\ Correlation!Explained(g)
  BY <1>1, CommitHolds
<1> HIDE DEF g
<1>3. corPc[t] = "findings" BY <1>1 DEF Correlation!Commit
<1>4. corRuns[k] \in Correlation!CorrelationRun BY <1>2, CorrelationTypes
<1>5. corRuns'[k] = [status |-> "completed", base |-> corRuns[k].base, graph |-> g]
      /\ \A i \in Correlation!Ids : i # k => corRuns'[i] = corRuns[i]
  BY <1>2, CorrelationTypes
<1>6. /\ corRuns'[k] \in Correlation!CorrelationRun /\ corRuns'[k].status = "completed"
      /\ corRuns'[k].graph = g /\ corRuns'[k].base = corRuns[k].base
  <2>1. "completed" \in Correlation!Statuses BY DEF Correlation!Statuses
  <2>2. corRuns[k].base \in Correlation!Stored BY <1>4 DEF Correlation!CorrelationRun
  <2> QED BY <1>2, <1>5, <2>1, <2>2 DEF Correlation!CorrelationRun
<1>7. corRuns' \in [Correlation!Ids -> Correlation!CorrelationRun]
  <2>1. \A i \in Correlation!Ids : corRuns'[i] \in Correlation!CorrelationRun
    BY <1>5, <1>6, CorrelationTypes
  <2>2. corRuns' = [i \in Correlation!Ids |-> corRuns'[i]] BY <1>2, CorrelationTypes
  <2> QED BY <2>1, <2>2
<1>8. /\ Correlation!AtWork(t)'
      /\ read' \in [Threads -> Correlation!Read] /\ corJob' \in [Threads -> Correlation!Ids \cup {0}]
      /\ corPc' \in [Threads -> {"idle", "counted", "inserted", "running", "assets", "findings",
                                 "unanswered"}]
      /\ \A u \in Threads \ {t} : corPc'[u] = corPc[u] /\ corJob'[u] = corJob[u] /\ read'[u] = read[u]
  <2>1. CASE Correlation!Publish(t)
    <3>1. Correlation!Done(t) BY <2>1 DEF Correlation!Publish
    <3> QED BY <3>1, DoneGoes
  <2>2. CASE Correlation!PublishUnanswered(t)
    <3>1. corPc' = [corPc EXCEPT ![t] = "unanswered"] /\ UNCHANGED <<corJob, read>>
      BY <2>2 DEF Correlation!PublishUnanswered, Correlation!Goto
    <3>2. corPc'[t] = "unanswered" /\ corJob'[t] = k /\ read'[t] = read[t]
      BY <3>1, CorrelationTypes
    <3>3. corRuns'[k].status # "none" BY <1>6
    <3>4. Correlation!AtWork(t)'
      BY <1>1, <1>2, <3>2, <3>3 DEF Correlation!AtWork, Correlation!IInv, Correlation!Ids
    <3> QED BY <3>1, <3>4, CorrelationTypes
  <2> QED BY <2>1, <2>2
<1>9. Correlation!Store' = Correlation!Store BY <1>1 DEF Correlation!Store
<1>10. Correlation!Typed'
  BY <1>7, <1>8, <1>9 DEF Correlation!Typed, Correlation!IInv, Correlation!Ids
<1>11. \A i \in Correlation!Ids : corRuns'[i].base = corRuns[i].base BY <1>5, <1>6
<1>12. \A i \in Correlation!Ids : Correlation!Within(corRuns'[i].base, Correlation!Store')
  BY <1>9, <1>11 DEF Correlation!IInv
<1>13. \A u \in Threads \ {t} : Correlation!AtWork(u)'
  <2>1. \A i \in Correlation!Ids : corRuns[i].status # "none" =>
          corRuns'[i].status # "none" /\ corRuns'[i].base = corRuns[i].base
    BY <1>5, <1>6
  <2> QED BY <1>1, <1>8, <2>1, OthersKeep
<1>14. \A i \in Correlation!Ids : corRuns'[i].status = "completed" =>
         \/ corRuns[i].status = "completed" /\ SameRow(corRuns'[i], corRuns[i])
         \/ /\ Correlation!Complete(corRuns'[i].graph, corRuns'[i].base)
            /\ Correlation!Sound(corRuns'[i].graph, Correlation!Store')
            /\ Correlation!Explained(corRuns'[i].graph)
  BY <1>2, <1>5, <1>6, <1>9 DEF SameRow
<1> QED BY <1>1, <1>8, <1>10, <1>12, <1>13, <1>14, RowsKeep

\* The first read, and the second.
LEMMA ReadKeeps ==
  ASSUME Correlation!IInv, NEW t \in Threads,
         Correlation!ReadAssets(t) \/ Correlation!ReadFindings(t)
  PROVE  Correlation!IInv'
<1> DEFINE x == read'[t]
<1>1. UNCHANGED <<inventory, responses, stored, corRuns, corJob>>
  BY DEF Correlation!ReadAssets, Correlation!ReadFindings, Correlation!storeVars
<1>2. /\ read[t] \in Correlation!Read /\ corJob[t] \in Correlation!Ids
      /\ corRuns[corJob[t]].status # "none"
      /\ corRuns[corJob[t]].base.assets \subseteq inventory
      /\ corRuns[corJob[t]].base.findings \subseteq stored
  <2>1. corPc[t] \in {"running", "assets"} BY DEF Correlation!ReadAssets, Correlation!ReadFindings
  <2>2. corJob[t] \in Correlation!Ids /\ corRuns[corJob[t]].status # "none"
    BY <2>1 DEF Correlation!IInv, Correlation!AtWork
  <2>3. Correlation!Within(corRuns[corJob[t]].base, Correlation!Store)
    BY <2>2 DEF Correlation!IInv
  <2> QED BY <2>2, <2>3, StoreFields, CorrelationTypes DEF Correlation!Within
<1>3. ASSUME Correlation!ReadAssets(t)
      PROVE  /\ read' = [read EXCEPT ![t] = x] /\ x \in Correlation!Read
             /\ corPc' = [corPc EXCEPT ![t] = "assets"] /\ Correlation!AtWork(t)'
  <2>1. /\ read' = [read EXCEPT ![t].assets = inventory]
        /\ corPc' = [corPc EXCEPT ![t] = "assets"]
    BY <1>3 DEF Correlation!ReadAssets, Correlation!Goto
  <2>2. x = [read[t] EXCEPT !.assets = inventory] BY <2>1, CorrelationTypes
  <2>3. /\ x \in Correlation!Read /\ x.assets = inventory
        /\ x.findings = read[t].findings /\ x.hashed = read[t].hashed
    BY <1>2, <2>2, CorrelationTypes DEF Correlation!Read
  <2>4. corPc'[t] = "assets" BY <2>1, CorrelationTypes
  <2>5. read[t].findings \subseteq stored /\ read[t].hashed = read[t].findings
    BY DEF Correlation!IInv, Correlation!AtWork
  <2>6. Correlation!AtWork(t)'
    BY <1>1, <1>2, <2>3, <2>4, <2>5 DEF Correlation!AtWork, Correlation!Ids
  <2> QED BY <2>1, <2>2, <2>3, <2>6
<1>4. ASSUME Correlation!ReadFindings(t)
      PROVE  /\ read' = [read EXCEPT ![t] = x] /\ x \in Correlation!Read
             /\ corPc' = [corPc EXCEPT ![t] = "findings"] /\ Correlation!AtWork(t)'
  <2>1. /\ read' = [read EXCEPT ![t].findings = stored, ![t].hashed = stored]
        /\ corPc' = [corPc EXCEPT ![t] = "findings"] /\ corPc[t] = "assets"
    BY <1>4 DEF Correlation!ReadFindings, Correlation!Goto
  <2>2. x = [read[t] EXCEPT !.findings = stored, !.hashed = stored] BY <2>1, CorrelationTypes
  <2>3. /\ x \in Correlation!Read /\ x.assets = read[t].assets
        /\ x.findings = stored /\ x.hashed = stored
    BY <1>2, <2>2, CorrelationTypes DEF Correlation!Read
  <2>4. corPc'[t] = "findings" BY <2>1, CorrelationTypes
  <2>5. read[t].assets \subseteq inventory /\ corRuns[corJob[t]].base.assets \subseteq read[t].assets
    BY <2>1 DEF Correlation!IInv, Correlation!AtWork
  <2>6. Correlation!AtWork(t)'
    BY <1>1, <1>2, <2>3, <2>4, <2>5 DEF Correlation!AtWork, Correlation!Ids
  <2> QED BY <2>1, <2>2, <2>3, <2>6
<1> HIDE DEF x
<1>5. /\ read' = [read EXCEPT ![t] = x] /\ x \in Correlation!Read /\ Correlation!AtWork(t)'
      /\ corPc' = [corPc EXCEPT ![t] = "assets"] \/ corPc' = [corPc EXCEPT ![t] = "findings"]
  BY <1>3, <1>4
<1>6. \A u \in Threads \ {t} : Correlation!AtWork(u)'
  BY <1>1, <1>5, CorrelationTypes, OthersKeep
<1>7. Correlation!Typed'
  <2>1. read' \in [Threads -> Correlation!Read] BY <1>5, CorrelationTypes
  <2>2. corPc' \in [Threads -> {"idle", "counted", "inserted", "running", "assets", "findings",
                                "unanswered"}]
    BY <1>5, CorrelationTypes
  <2>3. Correlation!Store' = Correlation!Store BY <1>1 DEF Correlation!Store
  <2> QED BY <1>1, <2>1, <2>2, <2>3 DEF Correlation!IInv, Correlation!Typed, Correlation!Ids
<1> QED BY <1>1, <1>5, <1>6, <1>7, RowsAlone

\* A row is inserted with the store of that moment as its base.
LEMMA CorrelationInsertKeeps ==
  ASSUME Correlation!IInv, NEW t \in Threads, Correlation!InsertRun(t)
  PROVE  Correlation!IInv'
<1>1. PICK i \in Correlation!Ids :
           /\ corRuns[i].status = "none"
           /\ corRuns' = [corRuns EXCEPT ![i] =
                [status |-> "pending", base |-> Correlation!Store, graph |-> Correlation!NoGraph]]
           /\ corJob' = [corJob EXCEPT ![t] = i]
  BY DEF Correlation!InsertRun
<1>2. /\ corPc[t] = "counted" /\ corPc' = [corPc EXCEPT ![t] = "inserted"]
      /\ UNCHANGED <<inventory, responses, stored, read>>
  BY DEF Correlation!InsertRun, Correlation!Goto, Correlation!storeVars
<1>4. /\ corRuns'[i] = [status |-> "pending", base |-> Correlation!Store, graph |-> Correlation!NoGraph]
      /\ \A j \in Correlation!Ids : j # i => corRuns'[j] = corRuns[j]
  BY <1>1, CorrelationTypes
<1>5. "pending" \in Correlation!Statuses /\ Correlation!Store \in Correlation!Stored
  BY DEF Correlation!Statuses, Correlation!ActiveStatuses, Correlation!IInv, Correlation!Typed
<1>6. /\ corRuns'[i] \in Correlation!CorrelationRun /\ corRuns'[i].status = "pending"
      /\ corRuns'[i].base = Correlation!Store
  <2>1. Correlation!NoGraph \in Correlation!Graph BY DEF Correlation!NoGraph, Correlation!Graph
  <2> QED BY <1>4, <1>5, <2>1 DEF Correlation!CorrelationRun
<1>7. corRuns' \in [Correlation!Ids -> Correlation!CorrelationRun]
  <2>1. \A j \in Correlation!Ids : corRuns'[j] \in Correlation!CorrelationRun
    BY <1>4, <1>6, CorrelationTypes
  <2>2. corRuns' = [j \in Correlation!Ids |-> corRuns'[j]] BY <1>1, CorrelationTypes
  <2> QED BY <2>1, <2>2
<1>8. Correlation!Store' = Correlation!Store BY <1>2 DEF Correlation!Store
<1>9. Correlation!Typed'
  BY <1>1, <1>2, <1>7, <1>8, CorrelationTypes DEF Correlation!IInv, Correlation!Typed,
     Correlation!Ids
<1>10. Correlation!Within(Correlation!Store, Correlation!Store) BY DEF Correlation!Within
<1>11. \A j \in Correlation!Ids : Correlation!Within(corRuns'[j].base, Correlation!Store')
  BY <1>4, <1>6, <1>8, <1>10 DEF Correlation!IInv
<1>12. Correlation!AtWork(t)'
  <2>1. corPc'[t] = "inserted" /\ corJob'[t] = i /\ read'[t] = read[t]
    BY <1>1, <1>2, CorrelationTypes
  <2>2. corRuns'[i].status # "none" BY <1>6
  <2> QED BY <1>1, <1>2, <2>1, <2>2 DEF Correlation!AtWork, Correlation!IInv, Correlation!Ids
<1>13. \A u \in Threads \ {t} : Correlation!AtWork(u)'
  <2>1. \A j \in Correlation!Ids : corRuns[j].status # "none" =>
          corRuns'[j].status # "none" /\ corRuns'[j].base = corRuns[j].base
    BY <1>1, <1>4
  <2> QED BY <1>1, <1>2, <2>1, CorrelationTypes, OthersKeep
<1>14. \A j \in Correlation!Ids : corRuns'[j].status = "completed" =>
         corRuns[j].status = "completed" /\ SameRow(corRuns'[j], corRuns[j])
  BY <1>4, <1>6 DEF SameRow
<1> QED BY <1>2, <1>9, <1>11, <1>12, <1>13, <1>14, RowsKeep

\* Discovery and detection make the store grow.
LEMMA SourcesKeep ==
  ASSUME Correlation!IInv, UNCHANGED <<corRuns, corPc, corJob, read>>,
         inventory \subseteq inventory', responses \subseteq responses', stored \subseteq stored',
         inventory' \subseteq Correlation!Assets, responses' \subseteq Webs, stored' \subseteq Linked
  PROVE  Correlation!IInv'
<1>1. Correlation!Store' \in Correlation!Stored BY DEF Correlation!Store, Correlation!Stored
<1>2. Correlation!Typed' BY <1>1 DEF Correlation!IInv, Correlation!Typed, Correlation!Ids
<1>3. \A t \in Threads : Correlation!AtWork(t)' BY OthersKeep
<1>4. ASSUME NEW i \in Correlation!Ids
      PROVE  Correlation!Within(corRuns'[i].base, Correlation!Store')
  <2>1. Correlation!Within(corRuns[i].base, Correlation!Store) BY DEF Correlation!IInv
  <2> QED BY <2>1 DEF Correlation!Within, Correlation!Store
<1>5. \A i \in Correlation!Ids : SameRow(corRuns'[i], corRuns[i]) /\ corRuns'[i].status = corRuns[i].status
  BY DEF SameRow
<1> QED BY <1>2, <1>3, <1>4, <1>5, RowsKeep

\* No row yet.
LEMMA CorrelationInit ==
  ASSUME Correlation!CorrelationAssumption, Correlation!Init
  PROVE  Correlation!IInv
<1>1. /\ Correlation!NoGraph \in Correlation!Graph /\ Correlation!NoStore \in Correlation!Stored
      /\ Correlation!NoRead \in Correlation!Read
  BY DEF Correlation!NoGraph, Correlation!Graph, Correlation!NoStore, Correlation!Stored,
     Correlation!NoRead, Correlation!Read
<1>2. "none" \in Correlation!Statuses BY DEF Correlation!Statuses
<1>3. [status |-> "none", base |-> Correlation!NoStore, graph |-> Correlation!NoGraph] \in Correlation!CorrelationRun
  BY <1>1, <1>2 DEF Correlation!CorrelationRun
<1>4. corRuns \in [Correlation!Ids -> Correlation!CorrelationRun] BY <1>3 DEF Correlation!Init
<1>5. Correlation!Completed = {} BY DEF Correlation!Init, Correlation!Completed
<1>6. Correlation!GraphsHold
  BY <1>5 DEF Correlation!GraphsHold, Correlation!GraphsFaithful,
     Correlation!CorrelationsExplained
<1>7. Correlation!Store \in Correlation!Stored
  BY DEF Correlation!Init, Correlation!Store, Correlation!Stored
<1>8. Correlation!Typed BY <1>1, <1>4, <1>7 DEF Correlation!Init, Correlation!Typed
<1>9. \A i \in Correlation!Ids : Correlation!Within(corRuns[i].base, Correlation!Store)
  BY DEF Correlation!Init, Correlation!Within, Correlation!NoStore
<1>10. \A t \in Threads : Correlation!AtWork(t)
  BY DEF Correlation!Init, Correlation!AtWork, Correlation!NoRead
<1> QED BY <1>6, <1>8, <1>9, <1>10 DEF Correlation!IInv

\* Every step keeps the invariant.
LEMMA CorrelationNext ==
  ASSUME Correlation!CorrelationAssumption, Correlation!IInv, [Correlation!Next]_Correlation!vars
  PROVE  Correlation!IInv'
<1>1. ASSUME NEW t \in Threads, Correlation!Count(t) PROVE Correlation!IInv'
  <2>1. /\ corPc[t] = "idle" /\ corPc' = [corPc EXCEPT ![t] = "counted"]
        /\ UNCHANGED <<inventory, responses, stored, corRuns, corJob, read>>
    BY <1>1 DEF Correlation!Count, Correlation!Goto, Correlation!storeVars
  <2>2. corPc'[t] = "counted" BY <2>1, CorrelationTypes
  <2>3. Correlation!AtWork(t)' BY <2>1, <2>2 DEF Correlation!AtWork, Correlation!IInv
  <2>4. \A u \in Threads \ {t} : Correlation!AtWork(u)' BY <2>1, CorrelationTypes, OthersKeep
  <2>5. Correlation!Store' = Correlation!Store BY <2>1 DEF Correlation!Store
  <2>6. Correlation!Typed'
    BY <2>1, <2>5, CorrelationTypes DEF Correlation!IInv, Correlation!Typed, Correlation!Ids
  <2> QED BY <2>1, <2>3, <2>4, <2>6, RowsAlone
<1>2. ASSUME NEW t \in Threads, Correlation!StartRun(t) PROVE Correlation!IInv'
  <2>1. /\ corRuns' = [corRuns EXCEPT ![corJob[t]].status = "running"] /\ corPc[t] = "inserted"
        /\ corPc' = [corPc EXCEPT ![t] = "running"]
        /\ UNCHANGED <<inventory, responses, stored, corJob, read>>
    BY <1>2 DEF Correlation!StartRun, Correlation!Goto, Correlation!storeVars
  <2>2. "running" \in Correlation!Statuses BY DEF Correlation!Statuses, Correlation!ActiveStatuses
  <2>3. corRuns' \in [Correlation!Ids -> Correlation!CorrelationRun] BY <2>1, <2>2, StatusTypes
  <2>4. corJob[t] \in Correlation!Ids BY <2>1 DEF Correlation!IInv, Correlation!AtWork
  <2>5. corRuns[corJob[t]] \in Correlation!CorrelationRun BY <2>4, CorrelationTypes
  <2>6. corRuns'[corJob[t]].status = "running"
    BY <2>1, <2>4, <2>5, CorrelationTypes DEF Correlation!CorrelationRun
  <2>7. corPc'[t] = "running" BY <2>1, CorrelationTypes
  <2>8. Correlation!AtWork(t)'
    BY <2>1, <2>4, <2>6, <2>7 DEF Correlation!AtWork, Correlation!IInv, Correlation!Ids
  <2>9. Correlation!Store' = Correlation!Store BY <2>1 DEF Correlation!Store
  <2>10. Correlation!Typed'
    BY <2>1, <2>3, <2>9, CorrelationTypes DEF Correlation!IInv, Correlation!Typed, Correlation!Ids
  <2> QED BY <2>1, <2>2, <2>8, <2>10, CorrelationTypes, StatusKeeps
<1>3. ASSUME NEW t \in Threads, Correlation!Fail(t) PROVE Correlation!IInv'
  <2>1. /\ corRuns' = [corRuns EXCEPT ![corJob[t]].status = "failed"] /\ Correlation!Done(t)
        /\ UNCHANGED <<inventory, responses, stored>>
    BY <1>3 DEF Correlation!Fail, Correlation!storeVars
  <2>2. "failed" \in Correlation!Statuses BY DEF Correlation!Statuses
  <2>3. corRuns' \in [Correlation!Ids -> Correlation!CorrelationRun] BY <2>1, <2>2, StatusTypes
  <2>4. Correlation!Store' = Correlation!Store BY <2>1 DEF Correlation!Store
  <2>5. Correlation!Typed'
    BY <2>1, <2>3, <2>4, DoneGoes DEF Correlation!IInv, Correlation!Typed, Correlation!Ids
  <2> QED BY <2>1, <2>2, <2>5, DoneGoes, StatusKeeps
<1>4. ASSUME NEW t \in Threads, Correlation!Lose(t) PROVE Correlation!IInv'
  <2>1. Correlation!Done(t) /\ UNCHANGED <<inventory, responses, stored, corRuns>>
    BY <1>4 DEF Correlation!Lose, Correlation!storeVars
  <2>2. Correlation!Store' = Correlation!Store BY <2>1 DEF Correlation!Store
  <2>3. Correlation!Typed'
    BY <2>1, <2>2, DoneGoes DEF Correlation!IInv, Correlation!Typed, Correlation!Ids
  <2>4. \A u \in Threads \ {t} : Correlation!AtWork(u)' BY <2>1, DoneGoes, OthersKeep
  <2>5. Correlation!AtWork(t)' BY <2>1, DoneGoes
  <2> QED BY <2>1, <2>3, <2>4, <2>5, RowsAlone
<1>5. ASSUME NEW a \in Correlation!Assets, NEW responding \in BOOLEAN,
             Correlation!PublishAsset(a, responding)
      PROVE  Correlation!IInv'
  <2>1. /\ inventory' = inventory \cup {a} /\ UNCHANGED <<stored, corRuns, corPc, corJob, read>>
        /\ responses \subseteq responses' /\ responses' \subseteq responses \cup Webs
    BY <1>5 DEF Correlation!PublishAsset, Correlation!threadVars
  <2> QED BY <2>1, CorrelationTypes, SourcesKeep
<1>6. ASSUME NEW f \in Linked, Correlation!PublishFinding(f) PROVE Correlation!IInv'
  <2>1. /\ stored' = stored \cup {f} /\ UNCHANGED <<inventory, responses, corRuns, corPc, corJob,
                                                    read>>
    BY <1>6 DEF Correlation!PublishFinding, Correlation!threadVars
  <2> QED BY <2>1, CorrelationTypes, SourcesKeep
<1>7. ASSUME Correlation!Restart PROVE Correlation!IInv'
  <2>1. /\ corRuns' = [i \in Correlation!Ids |-> Correlation!Recovered(corRuns[i])]
        /\ read' = [t \in Threads |-> Correlation!NoRead]
        /\ corPc' = [t \in Threads |-> "idle"] /\ corJob' = [t \in Threads |-> 0]
        /\ UNCHANGED <<inventory, responses, stored>>
    BY <1>7 DEF Correlation!Restart, Correlation!storeVars
  <2>2. ASSUME NEW i \in Correlation!Ids
        PROVE  /\ corRuns'[i] \in Correlation!CorrelationRun /\ SameRow(corRuns'[i], corRuns[i])
               /\ corRuns'[i].status = "completed" => corRuns[i].status = "completed"
    <3>1. corRuns[i] \in Correlation!CorrelationRun BY CorrelationTypes
    <3>2. corRuns'[i] = Correlation!Recovered(corRuns[i]) BY <2>1
    <3>3. "failed" \in Correlation!Statuses BY DEF Correlation!Statuses
    <3> QED BY <3>1, <3>2, <3>3 DEF Correlation!Recovered, SameRow, Correlation!CorrelationRun
  <2>3. Correlation!NoRead \in Correlation!Read BY DEF Correlation!NoRead, Correlation!Read
  <2>4. Correlation!Store' = Correlation!Store BY <2>1 DEF Correlation!Store
  <2>5. corRuns' \in [Correlation!Ids -> Correlation!CorrelationRun]
    <3>1. corRuns' = [i \in Correlation!Ids |-> corRuns'[i]] BY <2>1
    <3> QED BY <2>2, <3>1
  <2>6. Correlation!Typed'
    BY <2>1, <2>3, <2>4, <2>5 DEF Correlation!IInv, Correlation!Typed, Correlation!Ids
  <2>7. \A t \in Threads : Correlation!AtWork(t)'
    BY <2>1 DEF Correlation!AtWork, Correlation!NoRead
  <2>8. \A i \in Correlation!Ids : Correlation!Within(corRuns'[i].base, Correlation!Store')
    BY <2>2, <2>4 DEF Correlation!IInv, SameRow
  <2> QED BY <2>1, <2>2, <2>6, <2>7, <2>8, RowsKeep
<1>8. ASSUME Correlation!Revoke \/ UNCHANGED Correlation!vars PROVE Correlation!IInv'
  <2>1. UNCHANGED <<inventory, responses, stored, corRuns, corPc, corJob, read>>
    BY <1>8 DEF Correlation!Revoke, Correlation!vars, Correlation!storeVars,
       Correlation!threadVars
  <2> QED BY <2>1, CorrelationTypes, SourcesKeep
<1>9. ASSUME NEW t \in Threads, Correlation!ThreadStep(t) PROVE Correlation!IInv'
  BY <1>2, <1>3, <1>9, CorrelationInsertKeeps, ReadKeeps, GraphPublishKeeps
     DEF Correlation!ThreadStep
<1>10. ASSUME NEW t \in Threads, Correlation!PublishUnanswered(t) PROVE Correlation!IInv'
  BY <1>10, GraphPublishKeeps
<1> QED BY <1>1, <1>4, <1>5, <1>6, <1>7, <1>8, <1>9, <1>10 DEF Correlation!Next

\* However discovery and detection publish between the reads of a correlation
\* run, every graph it completes shows all that was stored when the run was
\* inserted, nothing that is not stored, and the reason of each correlated pair.
THEOREM GraphsSafe == Spec => []GraphsHold
<1> DEFINE Inv == part = "correlation" => Correlation!IInv
<1> USE WorkflowAssumptions
<1>1. Init => Inv BY CorrelationInit DEF Init
<1>2. Inv /\ [Next]_vars => Inv'
  <2> SUFFICES ASSUME Inv, [Next]_vars, part' = "correlation" PROVE Correlation!IInv' OBVIOUS
  <2>1. part = "correlation" /\ [Correlation!Next]_Correlation!vars
    BY DEF Next, vars, corVars, Correlation!vars, Correlation!storeVars, Correlation!threadVars,
       Correlation!envVars
  <2> QED BY <2>1, CorrelationNext
<1>3. Inv => GraphsHold BY DEF GraphsHold, Correlation!IInv
<1> QED BY <1>1, <1>2, <1>3, PTL DEF Spec
=============================================================================
