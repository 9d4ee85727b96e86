--------------------------- MODULE FindingsProofs ---------------------------
(***************************************************************************)
(* Proofs about Findings, for any issues, detectors, requests, operators   *)
(* and any number of observations, crashes and losses, and about the HTTP  *)
(* checks, for any statuses, policies and length of the record.            *)
(***************************************************************************)
EXTENDS Detection, FiniteSetTheorems, WellFoundedInduction, TLAPS

-----------------------------------------------------------------------------
(* The newest observation of an issue *)

\* A set of numbers that is bounded has a greatest element.
LEMMA Greatest ==
  ASSUME NEW S, S \subseteq Nat, S # {}, NEW n \in Nat, \A k \in S : k <= n
  PROVE  \E m \in S : \A k \in S : k <= m
<1> DEFINE Bounds == {m \in Nat : \A k \in S : k <= m}
<1>1. Bounds \subseteq Nat /\ Bounds # {}
  OBVIOUS
<1>2. PICK x \in Bounds : \A y \in Bounds : <<y, x>> \notin OpToRel(<, Nat)
  <2> HIDE DEF Bounds
  <2> QED
    BY <1>1, NatLessThanWellFounded, WFMin
<1>3. ASSUME NEW y \in Nat, y < x PROVE <<y, x>> \in OpToRel(<, Nat)
  BY <1>3 DEF OpToRel
<1>4. \A y \in Bounds : ~(y < x)
  BY <1>1, <1>2, <1>3
<1>5. x \in S
  <2> SUFFICES ASSUME x \notin S PROVE FALSE
    OBVIOUS
  <2>1. PICK k \in S : TRUE
    OBVIOUS
  <2>2. x - 1 \in Bounds
    BY <2>1
  <2> QED
    BY <1>4, <2>2
<1> QED
  BY <1>5

\* The newest observation about an issue exists as soon as there is one, and is
\* about that issue.
LEMMA LatestExists ==
  ASSUME NEW obs, NEW i, NEW n \in Nat, NEW k \in 1..n, obs[k].issue = i
  PROVE  LatestOf(obs, i, n) \in 1..n /\ obs[LatestOf(obs, i, n)].issue = i
<1> DEFINE about == {j \in 1..n : obs[j].issue = i}
<1>1. about \subseteq Nat /\ about # {} /\ \A j \in about : j <= n
  OBVIOUS
<1>2. \E m \in about : \A j \in about : j <= m
  <2> HIDE DEF about
  <2> QED
    BY <1>1, Greatest
<1>3. LatestOf(obs, i, n) = CHOOSE m \in about : \A j \in about : j <= m
  BY <1>1 DEF LatestOf
<1>4. LatestOf(obs, i, n) \in about
  <2> HIDE DEF about
  <2> QED
    BY <1>2, <1>3
<1> QED
  BY <1>4

\* A verdict that is given comes from an observation of that issue.
LEMMA VerdictGiven ==
  ASSUME NEW obs, NEW i, NEW n \in Nat, VerdictOf(obs, i, n) # "none"
  PROVE  /\ LatestOf(obs, i, n) \in 1..n /\ obs[LatestOf(obs, i, n)].issue = i
         /\ VerdictOf(obs, i, n) = obs[LatestOf(obs, i, n)].verdict
<1>1. LatestOf(obs, i, n) # 0
  BY DEF VerdictOf
<1>2. PICK k \in 1..n : obs[k].issue = i
  BY <1>1 DEF LatestOf
<1> QED
  BY <1>1, <1>2, LatestExists DEF VerdictOf

\* What is recorded later does not change an older snapshot.
LEMMA SnapshotFixed ==
  ASSUME NEW obs, NEW more, NEW n \in Nat, \A k \in 1..n : more[k] = obs[k], NEW i
  PROVE  /\ LatestOf(more, i, n) = LatestOf(obs, i, n)
         /\ VerdictOf(more, i, n) = VerdictOf(obs, i, n)
<1>2. LatestOf(more, i, n) = LatestOf(obs, i, n)
  <2> DEFINE A == {k \in 1..n : more[k].issue = i}
             B == {k \in 1..n : obs[k].issue = i}
             Newest(S) == IF S = {} THEN 0 ELSE CHOOSE k \in S : \A j \in S : j <= k
  <2>1. A = B
    OBVIOUS
  <2>2. LatestOf(more, i, n) = Newest(A) /\ LatestOf(obs, i, n) = Newest(B)
    BY DEF LatestOf
  <2> HIDE DEF A, B, Newest
  <2> QED
    BY <2>1, <2>2
<1>3. CASE LatestOf(obs, i, n) = 0
  BY <1>2, <1>3 DEF VerdictOf
<1>4. CASE LatestOf(obs, i, n) # 0
  <2>1. PICK k \in 1..n : obs[k].issue = i
    BY <1>4 DEF LatestOf
  <2>2. LatestOf(obs, i, n) \in 1..n
    BY <2>1, LatestExists
  <2> QED
    BY <1>2, <2>2 DEF VerdictOf
<1> QED
  BY <1>2, <1>3, <1>4

-----------------------------------------------------------------------------
(* Types *)

\* The commit of a publication, answered or not.
Publishes(r) == PublishRun(r) \/ PublishUnanswered(r)

\* The first state is of the right shape.
LEMMA TypeInit == Init => TypeOK
  BY FindingsConstants
     DEF Init, TypeOK, FindingRow, FindingStatuses, OPERATOR_STATUSES, Draft, NoRow, NoDraft,
         NoSnapshot, RunStatuses, ActiveStatuses, Executing

\* Admission, the snapshot and the detectors keep the shapes.
LEMMA TypeRead ==
  ASSUME TypeOK, NEW r \in Runs,
         \/ CountRuns(r) \/ InsertRun(r) \/ StartRun(r) \/ ReadAssets(r) \/ ReadObservations(r)
         \/ \E raising \in SUBSET Detectors : Detect(r, raising)
  PROVE  TypeOK'
<1> USE DEF TypeOK, Goto, Executing
<1>1. CASE CountRuns(r)
  BY <1>1 DEF CountRuns
<1>2. CASE InsertRun(r)
  BY <1>2 DEF InsertRun, RunStatuses, ActiveStatuses
<1>3. CASE StartRun(r)
  BY <1>3 DEF StartRun, RunStatuses, ActiveStatuses
<1>4. CASE ReadAssets(r)
  BY <1>4 DEF ReadAssets
<1>5. CASE ReadObservations(r)
  <2>1. Len(observations) \in Nat
    OBVIOUS
  <2>2. [snap[r] EXCEPT !.count = Len(observations)] \in [assets : SUBSET Issues, count : Nat]
    <3>1. snap[r] \in [assets : SUBSET Issues, count : Nat]
      OBVIOUS
    <3> HIDE DEF TypeOK
    <3> QED
      BY <2>1, <3>1
  <2> QED
    BY <1>5, <2>2 DEF ReadObservations
<1>6. ASSUME NEW raising \in SUBSET Detectors, Detect(r, raising) PROVE TypeOK'
  BY <1>6 DEF Detect, Claims
<1> QED
  BY <1>1, <1>2, <1>3, <1>4, <1>5, <1>6

\* So do the reconciliation and every way a run ends.
LEMMA TypeStore ==
  ASSUME TypeOK, NEW r \in Runs,
         \/ \E i \in Issues : ReadFinding(r, i)
         \/ \E x \in seen[r] : WriteFinding(r, x)
         \/ \E covered \in SUBSET Detectors : ReadCandidates(r, covered)
         \/ WriteResolved(r) \/ Publishes(r) \/ FailRun(r) \/ LoseRun(r)
  PROVE  TypeOK'
<1> USE DEF TypeOK, Goto, Executing
<1>1. ASSUME NEW i \in Issues, ReadFinding(r, i) PROVE TypeOK'
  <2>1. finding[i].status \in FindingStatuses
    BY DEF FindingRow
  <2> QED
    BY <1>1, <2>1 DEF ReadFinding
<1>2. ASSUME NEW x \in seen[r], WriteFinding(r, x) PROVE TypeOK'
  <2>1. x.issue \in Issues
    OBVIOUS
  <2>2. Upserted(r, x) \in Draft
    <3>1. LatestOf(observations, x.issue, snap[r].count) \in Nat
      <4>1. snap[r].count \in Nat
        OBVIOUS
      <4>2. CASE LatestOf(observations, x.issue, snap[r].count) = 0
        BY <4>2
      <4>3. CASE LatestOf(observations, x.issue, snap[r].count) # 0
        <5>1. PICK k \in 1..snap[r].count : observations[k].issue = x.issue
          BY <4>3 DEF LatestOf
        <5> QED
          BY <4>1, <5>1, LatestExists
      <4> QED
        BY <4>2, <4>3
    <3> QED
      BY <3>1 DEF Upserted, Latest, Draft
  <2> QED
    BY <1>2, <2>1, <2>2 DEF WriteFinding
<1>3. ASSUME NEW covered \in SUBSET Detectors, ReadCandidates(r, covered) PROVE TypeOK'
  <2>1. Candidates(r, covered) \subseteq [issue : Issues, status : FindingStatuses]
    BY DEF Candidates, Resolvable, FindingRow
  <2> QED
    BY <1>3, <2>1 DEF ReadCandidates
<1>4. CASE WriteResolved(r)
  BY <1>4 DEF WriteResolved, Draft
<1>5. [i \in Issues |-> NoDraft] \in [Issues -> Draft]
  BY DEF NoDraft, Draft
<1>6. ASSUME NEW where \in {"idle", "unanswered"}, Left(r, where)
      PROVE  /\ pc' \in [Runs -> {"idle", "admitting", "created", "unanswered"} \cup Executing]
             /\ snap' \in [Runs -> [assets : SUBSET Issues, count : Nat]]
             /\ outcome' \in [Runs -> [Detectors -> {"ok", "failed", "waiting"}]]
             /\ todo' \in [Runs -> SUBSET Issues]
             /\ seen' \in [Runs -> SUBSET [issue : Issues, status : FindingStatuses]]
             /\ draft' \in [Runs -> [Issues -> Draft]]
  BY <1>5, <1>6 DEF Left, NoSnapshot
<1>7. CASE Publishes(r)
  <2>1. ASSUME NEW i \in Issues PROVE Merged(finding[i], draft[r][i]) \in FindingRow
    <3>1. finding[i] \in FindingRow /\ draft[r][i] \in Draft
      OBVIOUS
    <3> QED
      BY <3>1 DEF Merged, FindingRow, Draft, FindingStatuses, OPERATOR_STATUSES
  <2>2. RunResult(r) \in RunStatuses
    BY DEF RunResult, RunStatuses
  <2>3. finding' \in [Issues -> FindingRow] /\ runStatus' \in [Runs -> RunStatuses]
    <3>1. Commit(r)
      BY <1>7 DEF Publishes, PublishRun, PublishUnanswered
    <3>2. finding' \in [Issues -> FindingRow]
      BY <2>1, <3>1 DEF Commit
    <3> QED
      BY <2>2, <3>1, <3>2 DEF Commit
  <2>4. CASE PublishRun(r) BY <1>6, <2>3, <2>4 DEF PublishRun, Commit
  <2>5. CASE PublishUnanswered(r) BY <1>6, <2>3, <2>5 DEF PublishUnanswered, Commit
  <2> QED
    BY <1>7, <2>4, <2>5 DEF Publishes
<1>8. CASE FailRun(r)
  BY <1>6, <1>8 DEF FailRun, RunStatuses
<1>9. CASE LoseRun(r)
  BY <1>6, <1>9 DEF LoseRun
<1> QED
  BY <1>1, <1>2, <1>3, <1>4, <1>7, <1>8, <1>9

\* Every step keeps the shapes.
LEMMA TypeNext == ASSUME TypeOK, [Next]_vars PROVE TypeOK'
<1>1. ASSUME NEW i \in Issues, NEW v \in Verdicts, Publication(i, v) PROVE TypeOK'
  BY <1>1 DEF TypeOK, Publication, runVars, faultVars
<1>2. ASSUME NEW o \in Operators, NEW i \in Issues, LoadFinding(o, i) PROVE TypeOK'
  <2>1. finding[i] \in FindingRow
    BY DEF TypeOK
  <2> QED
    BY <1>2, <2>1 DEF TypeOK, LoadFinding, FindingRow, Loaded, runVars, faultVars
<1>3. ASSUME NEW o \in Operators, NEW status \in OPERATOR_STATUSES, SetStatus(o, status)
      PROVE  TypeOK'
  <2>1. opRow[o] \in Loaded
    BY <1>3 DEF TypeOK, SetStatus
  <2>2. finding[opRow[o].issue] \in FindingRow /\ opRow[o].issue \in Issues
    BY <2>1 DEF TypeOK, Loaded
  <2>3. Decided(finding[opRow[o].issue], opRow[o], status) \in FindingRow
    BY <2>2 DEF Decided, FindingRow, FindingStatuses
  <2> QED
    BY <1>3, <2>2, <2>3 DEF TypeOK, SetStatus, runVars, faultVars
<1>4. ASSUME NEW o \in Operators, GiveUp(o) PROVE TypeOK'
  BY <1>4 DEF TypeOK, GiveUp, runVars, faultVars
<1>5. CASE Revoke \/ UNCHANGED vars
  BY <1>5 DEF TypeOK, Revoke, vars, runVars
<1>6. CASE Restart
  BY <1>6 DEF TypeOK, Restart, RunStatuses, Draft, NoDraft, NoSnapshot, Executing
<1> QED
  BY <1>1, <1>2, <1>3, <1>4, <1>5, <1>6, TypeRead, TypeStore DEF Next, RunStep, Publishes

-----------------------------------------------------------------------------
(* One run at a time *)

\* Every step keeps the count and the insert one: nothing else activates a run,
\* and whoever counted keeps the lock until its row is there.
LEMMA AdmissionNext == ASSUME IInv, [Next]_vars PROVE Admission'
<1> USE FindingsConstants DEF IInv, TypeOK, Admission, FindingsAssumption, Active
<1>1. ASSUME UNCHANGED <<pc, runStatus, createLock>> PROVE Admission'
  BY <1>1
<1>2. ASSUME NEW r \in Runs, CountRuns(r) PROVE Admission'
  BY <1>2 DEF CountRuns, Goto
<1>3. ASSUME NEW r \in Runs, InsertRun(r) PROVE Admission'
  BY <1>3 DEF InsertRun, Goto, ActiveStatuses
<1>4. ASSUME NEW r \in Runs, StartRun(r) PROVE Admission'
  <2>1. runStatus[r] = "pending"
    BY <1>4 DEF StartRun, RunOK, Flow
  <2>2. Active' = Active
    BY <1>4, <2>1 DEF StartRun, ActiveStatuses
  <2>3. \A s \in Runs : pc'[s] = "admitting" => pc[s] = "admitting"
    BY <1>4 DEF StartRun, Goto
  <2> QED
    BY <1>4, <2>2, <2>3 DEF StartRun
<1>5. ASSUME NEW r \in Runs, createLock' = createLock, Active' \subseteq Active,
             pc' = [pc EXCEPT ![r] = pc'[r]], pc'[r] # "admitting"
      PROVE  Admission'
  BY <1>5
<1>6. ASSUME NEW r \in Runs,
             \/ ReadAssets(r) \/ ReadObservations(r) \/ WriteResolved(r) \/ LoseRun(r)
             \/ \E raising \in SUBSET Detectors : Detect(r, raising)
             \/ \E covered \in SUBSET Detectors : ReadCandidates(r, covered)
      PROVE  Admission'
  <2>1. UNCHANGED <<createLock, runStatus>>
    BY <1>6 DEF ReadAssets, ReadObservations, WriteResolved, LoseRun, Detect, ReadCandidates
  <2>2. PICK p \in {"assets_read", "detecting", "written", "idle", "storing", "read"} :
          pc' = [pc EXCEPT ![r] = p]
    BY <1>6 DEF ReadAssets, ReadObservations, WriteResolved, LoseRun, Detect, ReadCandidates,
                Left, Goto
  <2> QED
    BY <1>5, <2>1, <2>2
<1>7. ASSUME NEW r \in Runs, Publishes(r) \/ FailRun(r) PROVE Admission'
  <2>1. runStatus' = [runStatus EXCEPT ![r] = runStatus'[r]]
        /\ runStatus'[r] \notin ActiveStatuses
    BY <1>7 DEF Publishes, PublishRun, PublishUnanswered, Commit, FailRun, RunResult, ActiveStatuses
  <2>2. PICK p \in {"idle", "unanswered"} :
          pc' = [pc EXCEPT ![r] = p] /\ createLock' = createLock
    BY <1>7 DEF Publishes, PublishRun, PublishUnanswered, FailRun, Left, Goto
  <2> QED
    BY <1>5, <2>1, <2>2
<1>8. CASE Restart
  BY <1>8 DEF Restart, ActiveStatuses
<1>9. ASSUME NEW r \in Runs, (\E i \in Issues : ReadFinding(r, i))
                             \/ \E x \in seen[r] : WriteFinding(r, x)
      PROVE  Admission'
  BY <1>1, <1>9 DEF ReadFinding, WriteFinding
<1>10. ASSUME \/ \E i \in Issues, v \in Verdicts : Publication(i, v)
              \/ \E o \in Operators, i \in Issues : LoadFinding(o, i)
              \/ \E o \in Operators, status \in OPERATOR_STATUSES : SetStatus(o, status)
              \/ \E o \in Operators : GiveUp(o)
              \/ Revoke \/ UNCHANGED vars
       PROVE  Admission'
  <2>1. UNCHANGED <<pc, runStatus, createLock>>
    BY <1>10 DEF Publication, LoadFinding, SetStatus, GiveUp, Revoke, vars, runVars
  <2> QED
    BY <1>1, <2>1
<1> HIDE DEF IInv, TypeOK, Admission
<1> QED
  BY <1>2, <1>3, <1>4, <1>6, <1>7, <1>8, <1>9, <1>10 DEF Next, RunStep, Publishes

\* The run that executes is the only active one.
LEMMA Alone ==
  ASSUME IInv, NEW r \in Runs, NEW s \in Runs, pc[r] \in Executing, pc[s] \in Executing
  PROVE  r = s
  BY DEF IInv, RunOK, Flow, Admission, Active, ActiveStatuses

-----------------------------------------------------------------------------
(* The runs *)

\* A run whose own state is untouched stays right as long as its snapshot is
\* fixed, no finding disappears or gets evidence it does not know, and what
\* operators decided stays theirs to decide.
LEMMA RunKept ==
  ASSUME IInv, TypeOK', NEW r \in Runs, UNCHANGED <<pc[r], runStatus[r], snap[r], outcome[r]>>,
         UNCHANGED <<todo[r], seen[r], draft[r]>>, r \in published' => r \in published,
         Len(observations) <= Len(observations'),
         \A k \in 1..Len(observations) : observations'[k] = observations[k],
         pc[r] \in Executing => \A i \in Issues :
           /\ finding'[i].evidence \subseteq finding[i].evidence
           /\ Stored(i) => finding'[i].status # "absent"
           /\ finding[i].status \in OPERATOR_STATUSES => finding'[i].status \in OPERATOR_STATUSES
  PROVE  RunOK(r)'
<1>1. Flow(r)'
  BY DEF IInv, RunOK, Flow
<1>2. SnapshotCovers(r)'
  <2> SUFFICES ASSUME pc[r] \in {"detecting"} \cup Reconciling
               PROVE  /\ snap[r].count <= Len(observations')
                      /\ \A i \in Issues : finding'[i].evidence \subseteq 1..snap[r].count
    BY DEF SnapshotCovers
  <2>1. snap[r].count <= Len(observations)
        /\ \A i \in Issues : finding[i].evidence \subseteq 1..snap[r].count
    BY DEF IInv, RunOK, SnapshotCovers
  <2>2. snap[r].count \in Nat /\ Len(observations) \in Nat /\ Len(observations') \in Nat
    BY DEF IInv, TypeOK
  <2>3. pc[r] \in Executing
    BY DEF Reconciling, Executing
  <2> QED
    BY <2>1, <2>2, <2>3
<1>3. Reconciled(r)'
  <2> SUFFICES ASSUME pc[r] \in Reconciling PROVE Reconciled(r)'
    BY DEF Reconciled
  <2>1. pc[r] \in Executing /\ pc[r] \in {"detecting"} \cup Reconciling
    BY DEF Reconciling, Executing
  <2>2. snap[r].count \in Nat /\ Len(observations) \in Nat /\ snap[r].count <= Len(observations)
    BY <2>1 DEF IInv, TypeOK, RunOK, SnapshotCovers
  <2>3. \A i \in Issues :
          /\ LatestOf(observations', i, snap[r].count) = LatestOf(observations, i, snap[r].count)
          /\ VerdictOf(observations', i, snap[r].count) =
               VerdictOf(observations, i, snap[r].count)
    <3>1. \A k \in 1..snap[r].count : observations'[k] = observations[k]
      BY <2>2
    <3> DEFINE n == snap[r].count
    <3>2. n \in Nat /\ \A k \in 1..n : observations'[k] = observations[k]
      BY <2>2, <3>1
    <3> HIDE DEF n
    <3>3. ASSUME NEW i
          PROVE  /\ LatestOf(observations', i, n) = LatestOf(observations, i, n)
                 /\ VerdictOf(observations', i, n) = VerdictOf(observations, i, n)
      BY <3>2, SnapshotFixed
    <3> QED
      BY <3>3 DEF n
  <2>4. ASSUME NEW i \in Issues
        PROVE  (Shown(r, i)' <=> Shown(r, i)) /\ (Cleared(r, i) => Cleared(r, i)')
    BY <2>1, <2>3 DEF Shown, Cleared, Stored, Verdict
  <2>5. Reconciled(r)
    BY DEF IInv, RunOK
  <2>6. ASSUME NEW i \in Issues PROVE DraftTrue(r, i)'
    <3>1. DraftTrue(r, i)
      BY <2>5 DEF Reconciled
    <3> QED
      BY <2>1, <2>3, <2>4, <3>1 DEF DraftTrue, Latest
  <2>7. ASSUME NEW x \in seen[r] PROVE SeenTrue(r, x)'
    <3>1. SeenTrue(r, x) /\ x.issue \in Issues
      BY <2>5 DEF Reconciled, IInv, TypeOK
    <3> QED
      BY <2>1, <2>4, <3>1 DEF SeenTrue
  <2> QED
    BY <2>4, <2>5, <2>6, <2>7 DEF Reconciled
<1> QED
  BY <1>1, <1>2, <1>3 DEF RunOK

\* Admission, the snapshot and the detectors keep their own run right.
LEMMA RunReads ==
  ASSUME IInv, TypeOK', NEW r \in Runs,
         \/ CountRuns(r) \/ InsertRun(r) \/ StartRun(r) \/ ReadAssets(r) \/ ReadObservations(r)
         \/ \E raising \in SUBSET Detectors : Detect(r, raising)
  PROVE  RunOK(r)'
<1>1. Flow(r)
  BY DEF IInv, RunOK
<1>2. CASE CountRuns(r) \/ InsertRun(r) \/ StartRun(r) \/ ReadAssets(r)
  <2>1. pc'[r] \notin {"detecting"} \cup Reconciling
        /\ UNCHANGED <<seen, draft, todo>> /\ pc[r] \notin Reconciling
    BY <1>2 DEF CountRuns, InsertRun, StartRun, ReadAssets, Goto, IInv, TypeOK, Reconciling
  <2>2. Flow(r)'
    BY <1>1, <1>2, <2>1
       DEF CountRuns, InsertRun, StartRun, ReadAssets, Goto, IInv, TypeOK, Flow, Reconciling,
           Executing
  <2> QED
    BY <2>1, <2>2 DEF RunOK, SnapshotCovers, Reconciled
<1>3. CASE ReadObservations(r)
  <2>1. /\ pc[r] = "assets_read" /\ pc'[r] = "detecting"
        /\ snap'[r].count = Len(observations)
        /\ UNCHANGED <<observations, finding, seen, draft, todo, published, runStatus>>
    BY <1>3 DEF ReadObservations, Goto, IInv, TypeOK
  <2>2. Flow(r)'
    BY <1>1, <2>1 DEF Flow, Reconciling, Executing
  <2>3. SnapshotCovers(r)'
    BY <2>1 DEF SnapshotCovers, IInv, TypeOK, EvidenceStored
  <2> QED
    BY <2>1, <2>2, <2>3 DEF RunOK, Reconciled, Reconciling
<1>4. ASSUME NEW raising \in SUBSET Detectors, Detect(r, raising) PROVE RunOK(r)'
  <2> DEFINE ok == {d \in Detectors \ raising : Validated(r, d)}
  <2>1. /\ pc[r] = "detecting" /\ pc'[r] = "storing"
        /\ outcome'[r] = [d \in Detectors |-> IF d \in ok THEN "ok" ELSE "failed"]
        /\ todo'[r] = UNION {Claims(r, d) : d \in ok}
        /\ UNCHANGED <<observations, finding, snap, seen, draft, published, runStatus>>
    BY <1>4 DEF Detect, Goto, IInv, TypeOK
  <2>2. seen[r] = {} /\ draft[r] = [i \in Issues |-> NoDraft]
    BY <1>1, <2>1 DEF Flow, Reconciling
  <2>3. Flow(r)'
    BY <1>1, <2>1 DEF Flow, Reconciling, Executing
  <2>4. SnapshotCovers(r)'
    BY <2>1 DEF SnapshotCovers, IInv, RunOK
  <2>5. ASSUME NEW i \in Issues
        PROVE  /\ i \in todo'[r] => Shown(r, i)'
               /\ Shown(r, i)' => i \in todo'[r]
               /\ DraftTrue(r, i)'
    <3>1. DetectorOf[i] \in Detectors
      BY FindingsConstants DEF FindingsAssumption
    <3>2. Shown(r, i)' <=> outcome'[r][DetectorOf[i]] = "ok" /\ Verdict(i, snap[r].count) = "shows"
      BY <2>1 DEF Shown, Verdict
    <3>3. i \in todo'[r] => /\ outcome'[r][DetectorOf[i]] = "ok"
                           /\ Verdict(i, snap[r].count) = "shows"
      <4>1. ASSUME NEW d \in ok, i \in Claims(r, d) PROVE d = DetectorOf[i]
        BY <4>1 DEF Claims
      <4> QED
        BY <2>1, <3>1, <4>1 DEF Claims
    <3>4. ASSUME outcome'[r][DetectorOf[i]] = "ok", Verdict(i, snap[r].count) = "shows"
          PROVE  i \in todo'[r]
      <4>1. DetectorOf[i] \in ok
        BY <2>1, <3>1, <3>4
      <4>2. i \in Claims(r, DetectorOf[i])
        BY <3>4 DEF Claims
      <4> HIDE DEF ok
      <4> QED
        BY <2>1, <4>1, <4>2
    <3> QED
      BY <2>1, <2>2, <3>2, <3>3, <3>4 DEF DraftTrue
  <2>6. Reconciled(r)'
    BY <2>1, <2>2, <2>5 DEF Reconciled
  <2> QED
    BY <2>3, <2>4, <2>6 DEF RunOK
<1> QED
  BY <1>2, <1>3, <1>4

\* A run that ends carries nothing on.
LEMMA RunEnds ==
  ASSUME TypeOK, NEW r \in Runs, NEW where \in {"idle", "unanswered"}, Left(r, where)
  PROVE  RunOK(r)'
<1>1. /\ pc'[r] \in {"idle", "unanswered"} /\ seen'[r] = {} /\ todo'[r] = {}
      /\ draft'[r] = [i \in Issues |-> NoDraft]
  BY DEF Left, Goto, TypeOK
<1> QED
  BY <1>1 DEF RunOK, Flow, SnapshotCovers, Reconciled, Reconciling, Executing

\* The upserts: what is read and written rests on the snapshot, and what was
\* shown is written before the resolution begins.
LEMMA RunUpserts ==
  ASSUME IInv, TypeOK', NEW r \in Runs,
         (\E i \in Issues : ReadFinding(r, i)) \/ \E x \in seen[r] : WriteFinding(r, x)
  PROVE  RunOK(r)'
<1>1. /\ pc[r] = "storing" /\ UNCHANGED <<observations, finding, pc, snap, outcome, runStatus>>
      /\ UNCHANGED published
  BY DEF ReadFinding, WriteFinding
<1>2. Flow(r)' /\ SnapshotCovers(r)'
  BY <1>1 DEF IInv, RunOK, Flow, SnapshotCovers, Reconciling, Executing
<1>3. Reconciled(r) /\ pc[r] \in Reconciling
  BY <1>1 DEF IInv, RunOK, Reconciling
<1>4. \A i \in Issues : Shown(r, i)' <=> Shown(r, i)
  BY <1>1 DEF Shown, Verdict
<1>5. ASSUME NEW i \in Issues, ReadFinding(r, i) PROVE Reconciled(r)'
  <2>1. /\ seen'[r] = {[issue |-> i, status |-> finding[i].status]} /\ i \in todo[r]
        /\ UNCHANGED <<todo, draft>>
    BY <1>5 DEF ReadFinding, IInv, TypeOK
  <2>2. \A x \in seen'[r] : SeenTrue(r, x)'
    BY <1>1, <1>3, <1>4, <2>1 DEF SeenTrue, Reconciled
  <2>3. \A j \in Issues : DraftTrue(r, j)'
    BY <1>1, <1>3, <2>1 DEF Reconciled, DraftTrue, Cleared, Shown, Verdict, Latest, Stored
  <2> QED
    BY <1>1, <1>3, <1>4, <2>1, <2>2, <2>3 DEF Reconciled
<1>6. ASSUME NEW x \in seen[r], WriteFinding(r, x) PROVE Reconciled(r)'
  <2>1. x.issue \in Issues /\ x.status \in FindingStatuses
    BY DEF IInv, TypeOK
  <2>2. /\ draft'[r][x.issue] = Upserted(r, x) /\ seen'[r] = {}
        /\ \A i \in Issues \ {x.issue} : draft'[r][i] = draft[r][i]
        /\ todo'[r] = todo[r] \ {x.issue}
    BY <1>6, <2>1 DEF WriteFinding, IInv, TypeOK
  <2>3. SeenTrue(r, x)
    BY <1>3 DEF Reconciled
  <2>4. DraftTrue(r, x.issue)'
    <3>1. Shown(r, x.issue)' /\ LatestOf(observations', x.issue, snap'[r].count) =
                                  LatestOf(observations, x.issue, snap[r].count)
      BY <1>1, <1>4, <2>1, <2>3 DEF SeenTrue
    <3>2. CASE x.status \in {"absent", "resolved"}
      BY <2>2, <3>1, <3>2 DEF DraftTrue, Upserted, Latest, Keep
    <3>3. CASE x.status \in OPERATOR_STATUSES
      <4>1. finding'[x.issue].status \in OPERATOR_STATUSES
        BY <1>1, <2>3, <3>3 DEF SeenTrue
      <4>2. Upserted(r, x) = [status |-> Keep, resolvedAt |-> FALSE,
                              evidence |-> {LatestOf(observations, x.issue, snap[r].count)}]
        BY <3>3 DEF Upserted, Latest, OPERATOR_STATUSES
      <4> QED
        BY <2>2, <3>1, <4>1, <4>2 DEF DraftTrue, Latest
    <3> QED
      BY <2>1, <3>2, <3>3 DEF FindingStatuses
  <2>5. \A i \in Issues \ {x.issue} : DraftTrue(r, i)'
    BY <1>1, <1>3, <2>2 DEF Reconciled, DraftTrue, Cleared, Shown, Verdict, Latest, Stored
  <2>6. draft'[r][x.issue].evidence # {}
    BY <2>2 DEF Upserted
  <2> QED
    BY <1>1, <1>3, <1>4, <2>2, <2>4, <2>5, <2>6 DEF Reconciled
<1> QED
  BY <1>2, <1>5, <1>6 DEF RunOK

\* The resolution: the candidates are open findings that a successful detector
\* judged and did not reproduce, and they are never ones that were upserted.
LEMMA RunResolves ==
  ASSUME IInv, TypeOK', NEW r \in Runs,
         (\E covered \in SUBSET Detectors : ReadCandidates(r, covered)) \/ WriteResolved(r)
  PROVE  RunOK(r)'
<1>1. /\ pc[r] \in {"storing", "read"} /\ pc'[r] \in {"read", "written"}
      /\ UNCHANGED <<observations, finding, snap, outcome, runStatus, todo, published>>
  BY DEF ReadCandidates, WriteResolved, Goto, IInv, TypeOK
<1>2. todo[r] = {}
  BY DEF ReadCandidates, WriteResolved, IInv, RunOK, Flow
<1>3. Flow(r)' /\ SnapshotCovers(r)'
  BY <1>1, <1>2 DEF IInv, RunOK, Flow, SnapshotCovers, Reconciling, Executing
<1>4. Reconciled(r) /\ pc[r] \in Reconciling
  BY <1>1 DEF IInv, RunOK, Reconciling
<1>5. \A i \in Issues : (Shown(r, i)' <=> Shown(r, i)) /\ (Cleared(r, i)' <=> Cleared(r, i))
  BY <1>1 DEF Shown, Cleared, Verdict, Stored
<1>6. ASSUME NEW covered \in SUBSET Detectors, ReadCandidates(r, covered) PROVE Reconciled(r)'
  <2>1. /\ seen'[r] = Candidates(r, covered) /\ draft' = draft /\ pc'[r] = "read"
        /\ \A d \in covered : outcome[r][d] = "ok"
    BY <1>6 DEF ReadCandidates, Goto, IInv, TypeOK
  <2>2. ASSUME NEW x \in seen'[r] PROVE SeenTrue(r, x)'
    <3>1. PICK i \in UNION {Resolvable(r, d) : d \in covered} :
            x = [issue |-> i, status |-> finding[i].status] /\ finding[i].status = "open"
      BY <2>1 DEF Candidates
    <3>2. Cleared(r, i) /\ i \in Issues
      <4>1. PICK d \in covered : i \in Resolvable(r, d)
        OBVIOUS
      <4> QED
        BY <2>1, <3>1, <4>1 DEF Cleared, Resolvable, Stored
    <3> QED
      BY <1>5, <2>1, <3>1, <3>2 DEF SeenTrue
  <2>3. \A i \in Issues : DraftTrue(r, i)'
    BY <1>1, <1>4, <2>1 DEF Reconciled, DraftTrue, Cleared, Shown, Verdict, Latest, Stored
  <2> QED
    BY <1>1, <1>4, <1>5, <2>1, <2>2, <2>3 DEF Reconciled
<1>7. ASSUME WriteResolved(r) PROVE Reconciled(r)'
  <2>1. pc[r] = "read" /\ seen'[r] = {}
        /\ \A i \in Issues : draft'[r][i] =
             IF \E x \in seen[r] : x.issue = i
             THEN [status |-> "resolved", resolvedAt |-> TRUE, evidence |-> {}]
             ELSE draft[r][i]
    BY <1>7 DEF WriteResolved, IInv, TypeOK
  <2>2. ASSUME NEW i \in Issues
        PROVE  DraftTrue(r, i)' /\ (Shown(r, i)' => draft'[r][i] = draft[r][i])
    <3>1. CASE \E x \in seen[r] : x.issue = i
      <4>1. Cleared(r, i)
        BY <1>4, <2>1, <3>1 DEF Reconciled, SeenTrue
      <4> QED
        BY <1>5, <2>1, <3>1, <4>1 DEF DraftTrue, Shown, Cleared
    <3>2. CASE ~\E x \in seen[r] : x.issue = i
      BY <1>1, <1>4, <2>1, <3>2
         DEF Reconciled, DraftTrue, Cleared, Shown, Verdict, Latest, Stored
    <3> QED
      BY <3>1, <3>2
  <2> QED
    BY <1>1, <1>4, <1>5, <2>1, <2>2 DEF Reconciled
<1> QED
  BY <1>3, <1>6, <1>7 DEF RunOK

\* A publication changes the findings only as the run's drafts say.
LEMMA PublishedRow ==
  ASSUME IInv, NEW r \in Runs, Publishes(r), NEW i \in Issues
  PROVE  /\ finding'[i] = Merged(finding[i], draft[r][i])
         /\ pc[r] = "written" /\ DraftTrue(r, i) /\ SnapshotCovers(r)
         /\ UNCHANGED <<observations, opRow>> /\ published' = published \cup {r}
         /\ draft[r][i] \in Draft /\ finding[i] \in FindingRow
  BY DEF Publishes, PublishRun, PublishUnanswered, Commit, IInv, RunOK, Reconciled, Reconciling,
         TypeOK

\* Steps of a request leave what other requests carry alone.
LEMMA OthersUntouched ==
  ASSUME IInv, NEW r \in Runs, CountRuns(r) \/ RunStep(r) \/ Publishes(r) \/ LoseRun(r),
         NEW s \in Runs, s # r
  PROVE  /\ UNCHANGED <<pc[s], runStatus[s], snap[s], outcome[s]>>
         /\ UNCHANGED <<todo[s], seen[s], draft[s], observations>>
         /\ s \in published' => s \in published
         /\ Publishes(r) \/ UNCHANGED finding
<1> USE DEF IInv, TypeOK, Goto
<1>1. CASE CountRuns(r)
  BY <1>1 DEF CountRuns
<1>2. CASE InsertRun(r)
  BY <1>2 DEF InsertRun
<1>3. CASE StartRun(r)
  BY <1>3 DEF StartRun
<1>4. CASE ReadAssets(r)
  BY <1>4 DEF ReadAssets
<1>5. CASE ReadObservations(r)
  BY <1>5 DEF ReadObservations
<1>6. CASE \E raising \in SUBSET Detectors : Detect(r, raising)
  BY <1>6 DEF Detect
<1>7. CASE WriteResolved(r)
  BY <1>7 DEF WriteResolved
<1>8. CASE Publishes(r)
  BY <1>8 DEF Publishes, PublishRun, PublishUnanswered, Commit, Left
<1>9. CASE FailRun(r)
  BY <1>9 DEF FailRun, Left
<1>10. CASE LoseRun(r)
  BY <1>10 DEF LoseRun, Left
<1>11. CASE \E i \in Issues : ReadFinding(r, i)
  BY <1>11 DEF ReadFinding
<1>12. CASE \E x \in seen[r] : WriteFinding(r, x)
  BY <1>12 DEF WriteFinding
<1>13. CASE \E covered \in SUBSET Detectors : ReadCandidates(r, covered)
  BY <1>13 DEF ReadCandidates
<1> HIDE DEF IInv, TypeOK
<1> QED
  BY <1>1, <1>2, <1>3, <1>4, <1>5, <1>6, <1>7, <1>8, <1>9, <1>10, <1>11, <1>12, <1>13
     DEF RunStep, Publishes

\* Every step keeps every run right.
LEMMA RunsNext == ASSUME IInv, TypeOK', [Next]_vars PROVE \A r \in Runs : RunOK(r)'
<1>1. Len(observations) \in Nat
  BY DEF IInv, TypeOK
<1>2. ASSUME NEW i \in Issues, NEW v \in Verdicts, Publication(i, v)
      PROVE  \A r \in Runs : RunOK(r)'
  <2>1. UNCHANGED <<finding, runStatus, pc, snap, outcome, todo, seen, draft, published>>
    BY <1>2 DEF Publication, runVars
  <2>2. /\ Len(observations') = Len(observations) + 1
        /\ \A k \in 1..Len(observations) : observations'[k] = observations[k]
    <3>1. observations \in Seq([issue : Issues, verdict : Verdicts])
      BY DEF IInv, TypeOK
    <3>2. observations' = Append(observations, [issue |-> i, verdict |-> v])
      BY <1>2 DEF Publication
    <3> QED
      BY <3>1, <3>2
  <2> QED
    BY <1>1, <2>1, <2>2, RunKept DEF Stored
<1>3. ASSUME NEW r \in Runs, CountRuns(r) \/ RunStep(r) \/ Publishes(r) \/ LoseRun(r)
      PROVE  \A s \in Runs : RunOK(s)'
  <2>1. RunOK(r)'
    <3>1. CASE Publishes(r) \/ FailRun(r) \/ LoseRun(r)
      BY <3>1, RunEnds DEF Publishes, PublishRun, PublishUnanswered, FailRun, LoseRun, IInv
    <3> QED
      BY <1>3, <3>1, RunReads, RunUpserts, RunResolves DEF RunStep, Publishes
  <2>2. ASSUME NEW s \in Runs, s # r PROVE RunOK(s)'
    <3>1. /\ UNCHANGED <<pc[s], runStatus[s], snap[s], outcome[s]>>
          /\ UNCHANGED <<todo[s], seen[s], draft[s], observations>>
          /\ s \in published' => s \in published
          /\ Publishes(r) \/ UNCHANGED finding
      BY <1>3, <2>2, OthersUntouched
    <3>2. pc[s] \in Executing => UNCHANGED finding
      <4>1. CASE Publishes(r)
        BY <2>2, <4>1, Alone DEF Publishes, PublishRun, PublishUnanswered, Commit, Executing
      <4> QED
        BY <3>1, <4>1
    <3> QED
      BY <1>1, <3>1, <3>2, RunKept DEF Stored
  <2> QED
    BY <2>1, <2>2
<1>4. ASSUME UNCHANGED <<observations, finding, runStatus, runVars, published>>
      PROVE  \A r \in Runs : RunOK(r)'
  BY <1>1, <1>4, RunKept DEF runVars, Stored
<1>5. ASSUME NEW o \in Operators, NEW status \in OPERATOR_STATUSES, SetStatus(o, status)
      PROVE  \A r \in Runs : RunOK(r)'
  <2>1. UNCHANGED <<observations, runStatus, pc, snap, outcome, todo, seen, draft, published>>
    BY <1>5 DEF SetStatus, runVars
  <2>2. ASSUME NEW i \in Issues
        PROVE  /\ finding'[i].evidence = finding[i].evidence
               /\ finding'[i].status \in {finding[i].status, status}
    <3>1. finding[i] \in FindingRow /\ finding \in [Issues -> FindingRow]
      BY DEF IInv, TypeOK
    <3>2. finding' = [finding EXCEPT ![opRow[o].issue] = Decided(@, opRow[o], status)]
      BY <1>5 DEF SetStatus
    <3> QED
      BY <3>1, <3>2 DEF Decided, FindingRow
  <2> QED
    BY <1>1, <2>1, <2>2, RunKept DEF Stored, OPERATOR_STATUSES
<1>6. CASE Restart
  BY <1>6 DEF Restart, RunOK, Flow, SnapshotCovers, Reconciled, Reconciling, Executing
<1> QED
  BY <1>2, <1>3, <1>4, <1>5, <1>6 DEF Next, Publishes, LoadFinding, GiveUp, Revoke, vars, runVars

-----------------------------------------------------------------------------
(* The findings *)

\* Only a publication, an operator's decision and discovery touch findings or
\* observations.
LEMMA Touches ==
  ASSUME [Next]_vars
  PROVE  \/ UNCHANGED <<observations, finding>>
         \/ \E r \in Runs : Publishes(r)
         \/ \E o \in Operators, status \in OPERATOR_STATUSES : SetStatus(o, status)
         \/ \E i \in Issues, v \in Verdicts : Publication(i, v)
  BY DEF Next, RunStep, Publishes, CountRuns, InsertRun, StartRun, ReadAssets, ReadObservations, Detect,
         WriteResolved, FailRun, LoseRun, ReadFinding, WriteFinding, ReadCandidates, LoadFinding,
         GiveUp, Revoke, Restart, vars

\* An upsert that is published brings an observation that shows the issue.
LEMMA UpsertSupported ==
  ASSUME IInv, NEW r \in Runs, NEW i \in Issues, Shown(r, i), SnapshotCovers(r),
         pc[r] \in Reconciling
  PROVE  /\ Latest(i, snap[r].count) \in 1..snap[r].count
         /\ snap[r].count \in Nat /\ Len(observations) \in Nat
         /\ snap[r].count <= Len(observations)
         /\ observations[Latest(i, snap[r].count)] = [issue |-> i, verdict |-> "shows"]
<1>1. /\ snap[r].count \in Nat /\ snap[r].count <= Len(observations)
      /\ observations \in Seq([issue : Issues, verdict : Verdicts]) /\ Len(observations) \in Nat
  BY DEF IInv, TypeOK, SnapshotCovers
<1>2. VerdictOf(observations, i, snap[r].count) = "shows"
  BY DEF Shown, Verdict
<1> DEFINE n == snap[r].count
           k == LatestOf(observations, i, n)
<1>3. k \in 1..n /\ observations[k].issue = i /\ observations[k].verdict = "shows"
  <2>1. n \in Nat /\ VerdictOf(observations, i, n) = "shows"
    BY <1>1, <1>2
  <2> HIDE DEF n
  <2> QED
    BY <2>1, VerdictGiven
<1>4. observations[k] \in [issue : Issues, verdict : Verdicts]
  <2>1. k \in 1..Len(observations)
    BY <1>1, <1>3
  <2> DEFINE Rows == [issue : Issues, verdict : Verdicts]
  <2>2. observations \in Seq(Rows)
    BY <1>1
  <2> HIDE DEF k, Rows
  <2>3. observations[k] \in Rows
    BY <2>1, <2>2
  <2> QED
    BY <2>3 DEF Rows
<1> QED
  BY <1>1, <1>3, <1>4 DEF Latest

\* A publication keeps evidence under every finding.
LEMMA PublishSupported ==
  ASSUME IInv, NEW r \in Runs, Publishes(r), NEW i \in Issues
  PROVE  /\ finding'[i].evidence \subseteq 1..Len(observations)
         /\ finding'[i].status # "absent" =>
              \E k \in finding'[i].evidence : observations[k] = [issue |-> i, verdict |-> "shows"]
<1>1. /\ finding'[i] = Merged(finding[i], draft[r][i])
      /\ pc[r] = "written" /\ DraftTrue(r, i) /\ SnapshotCovers(r)
      /\ draft[r][i] \in Draft /\ finding[i] \in FindingRow
  BY PublishedRow
<1>2. /\ finding[i].evidence \subseteq 1..Len(observations)
      /\ Stored(i) => \E k \in finding[i].evidence :
                        observations[k] = [issue |-> i, verdict |-> "shows"]
  BY DEF IInv, EvidenceStored, FindingsSupported
<1>3. /\ finding'[i].evidence = finding[i].evidence \cup draft[r][i].evidence
      /\ finding'[i].status = IF draft[r][i].status = Keep THEN finding[i].status
                              ELSE draft[r][i].status
  BY <1>1 DEF Merged, FindingRow, Draft
<1>4. CASE draft[r][i] = NoDraft
  BY <1>2, <1>3, <1>4 DEF NoDraft, Stored
<1>5. CASE Cleared(r, i) /\ draft[r][i].evidence = {}
  BY <1>2, <1>3, <1>5 DEF Cleared
<1>6. CASE Shown(r, i) /\ draft[r][i].evidence = {Latest(i, snap[r].count)}
  <2>1. pc[r] \in Reconciling
    BY <1>1 DEF Reconciling
  <2> QED
    BY <1>1, <1>2, <1>3, <1>6, <2>1, UpsertSupported
<1> QED
  BY <1>1, <1>4, <1>5, <1>6 DEF DraftTrue

\* What an operator writes: evidence stays, and the status is the operator's or
\* the one that was there.
LEMMA DecidedRow ==
  ASSUME IInv, NEW o \in Operators, NEW status \in OPERATOR_STATUSES, SetStatus(o, status),
         NEW i \in Issues
  PROVE  /\ finding'[i] = IF opRow[o].issue = i THEN Decided(finding[i], opRow[o], status)
                          ELSE finding[i]
         /\ finding'[i].evidence = finding[i].evidence
         /\ finding'[i].status \in {finding[i].status, status}
         /\ UNCHANGED <<observations, published, draft>>
         /\ opRow[o] \in Loaded /\ opRow' = [opRow EXCEPT ![o] = Idle]
<1>1. finding[i] \in FindingRow /\ finding \in [Issues -> FindingRow]
  BY DEF IInv, TypeOK
<1>2. finding' = [finding EXCEPT ![opRow[o].issue] = Decided(@, opRow[o], status)]
  BY DEF SetStatus
<1>3. opRow[o] \in Loaded
  BY DEF IInv, TypeOK, SetStatus
<1>4. finding'[i] = IF opRow[o].issue = i THEN Decided(finding[i], opRow[o], status)
                    ELSE finding[i]
  BY <1>1, <1>2
<1>5. Decided(finding[i], opRow[o], status).evidence = finding[i].evidence
      /\ Decided(finding[i], opRow[o], status).status \in {finding[i].status, status}
  BY <1>1 DEF Decided, FindingRow
<1>6. UNCHANGED <<observations, published, draft>> /\ opRow' = [opRow EXCEPT ![o] = Idle]
  BY DEF SetStatus, runVars
<1> QED
  BY <1>3, <1>4, <1>5, <1>6

\* Every step keeps evidence under every stored finding.
LEMMA SupportedNext ==
  ASSUME IInv, TypeOK', [Next]_vars PROVE EvidenceStored' /\ FindingsSupported'
<1>1. CASE UNCHANGED <<observations, finding>>
  BY <1>1 DEF IInv, EvidenceStored, FindingsSupported, Stored
<1>2. ASSUME NEW r \in Runs, Publishes(r) PROVE EvidenceStored' /\ FindingsSupported'
  <2>1. UNCHANGED observations
    BY <1>2 DEF Publishes, PublishRun, PublishUnanswered
  <2> QED
    BY <1>2, <2>1, PublishSupported DEF EvidenceStored, FindingsSupported, Stored
<1>3. ASSUME NEW o \in Operators, NEW status \in OPERATOR_STATUSES, SetStatus(o, status)
      PROVE  EvidenceStored' /\ FindingsSupported'
  <2>1. UNCHANGED observations
    BY <1>3 DEF SetStatus
  <2>2. ASSUME NEW i \in Issues
        PROVE  /\ finding'[i].evidence = finding[i].evidence
               /\ finding'[i].status # "absent" => finding[i].status # "absent"
    <3>1. CASE opRow[o].issue = i
      <4>1. Stored(i)
        BY <1>3, <3>1 DEF IInv, LoadedStored, SetStatus
      <4> QED
        BY <1>3, <4>1, DecidedRow DEF Stored
    <3>2. CASE opRow[o].issue # i
      BY <1>3, <3>2, DecidedRow
    <3> QED
      BY <3>1, <3>2
  <2> QED
    BY <2>1, <2>2 DEF IInv, EvidenceStored, FindingsSupported, Stored
<1>4. ASSUME NEW i \in Issues, NEW v \in Verdicts, Publication(i, v)
      PROVE  EvidenceStored' /\ FindingsSupported'
  <2>1. observations \in Seq([issue : Issues, verdict : Verdicts]) /\ Len(observations) \in Nat
    BY DEF IInv, TypeOK
  <2>2. UNCHANGED finding /\ observations' = Append(observations, [issue |-> i, verdict |-> v])
    BY <1>4 DEF Publication
  <2>3. /\ Len(observations') = Len(observations) + 1
        /\ \A k \in 1..Len(observations) : observations'[k] = observations[k]
    BY <2>1, <2>2
  <2>4. EvidenceStored'
    BY <2>1, <2>2, <2>3 DEF IInv, EvidenceStored
  <2>5. FindingsSupported'
    BY <2>2, <2>3 DEF IInv, EvidenceStored, FindingsSupported, Stored
  <2> QED
    BY <2>4, <2>5
<1> QED
  BY <1>1, <1>2, <1>3, <1>4, Touches

-----------------------------------------------------------------------------
(* The operators *)

\* A row that was loaded stays stored.
LEMMA LoadedNext == ASSUME IInv, TypeOK', [Next]_vars PROVE LoadedStored'
<1>1. ASSUME NEW i \in Issues, Stored(i) PROVE finding'[i].status # "absent"
  <2>1. ASSUME NEW r \in Runs, Publishes(r) PROVE finding'[i].status # "absent"
    <3>1. finding'[i] = Merged(finding[i], draft[r][i]) /\ draft[r][i] \in Draft
          /\ finding[i] \in FindingRow
      BY <2>1, PublishedRow
    <3> QED
      BY <1>1, <3>1 DEF Merged, Draft, FindingRow, Stored
  <2>2. ASSUME NEW o \in Operators, NEW status \in OPERATOR_STATUSES, SetStatus(o, status)
        PROVE  finding'[i].status # "absent"
    BY <1>1, <2>2, DecidedRow DEF Stored, OPERATOR_STATUSES
  <2> QED
    BY <1>1, <2>1, <2>2, Touches DEF Stored, Publication
<1>2. ASSUME NEW o \in Operators, opRow'[o] # Idle
      PROVE  \/ opRow'[o] = opRow[o] /\ opRow[o] \in Loaded
             \/ \E i \in Issues : opRow'[o].issue = i /\ Stored(i)
  <2>1. CASE opRow' = opRow
    BY <1>2, <2>1 DEF IInv, TypeOK
  <2>2. ASSUME NEW p \in Operators, NEW i \in Issues, LoadFinding(p, i)
        PROVE  opRow'[o] = opRow[o] \/ (opRow'[o].issue = i /\ Stored(i))
    BY <2>2 DEF LoadFinding, IInv, TypeOK
  <2>3. ASSUME NEW p \in Operators, opRow' = [opRow EXCEPT ![p] = Idle]
        PROVE  opRow'[o] = opRow[o]
    BY <1>2, <2>3 DEF IInv, TypeOK
  <2>4. \/ opRow' = opRow
        \/ \E p \in Operators, i \in Issues : LoadFinding(p, i)
        \/ \E p \in Operators : opRow' = [opRow EXCEPT ![p] = Idle]
        \/ opRow' = [p \in Operators |-> Idle]
    BY DEF Next, RunStep, CountRuns, InsertRun, StartRun, ReadAssets, ReadObservations, Detect,
           WriteResolved, PublishRun, PublishUnanswered, FailRun, LoseRun, ReadFinding, WriteFinding, ReadCandidates,
           SetStatus, GiveUp, Revoke, Restart, Publication, vars
  <2>5. opRow[o] \in {Idle} \cup Loaded
    BY DEF IInv, TypeOK
  <2> QED
    BY <1>2, <2>1, <2>2, <2>3, <2>4, <2>5
<1> QED
  BY <1>1, <1>2 DEF IInv, LoadedStored, Stored, Loaded

\* With row locks: a thread that is not idle has its row, unchanged since it was
\* loaded, and nobody else has a draft or a copy of it.
LEMMA AloneNext ==
  ASSUME IInv, TypeOK', [Next]_vars, RowLocks PROVE OperatorAlone'
<1> USE DEF IInv, TypeOK, OperatorAlone
<1>1. OperatorAlone
  OBVIOUS
<1>2. ASSUME UNCHANGED <<finding, opRow, draft>> PROVE OperatorAlone'
  BY <1>1, <1>2
<1>3. ASSUME NEW o \in Operators, NEW i \in Issues, LoadFinding(o, i) PROVE OperatorAlone'
  <2>1. /\ opRow' = [opRow EXCEPT ![o] = [issue |-> i, status |-> finding[i].status,
                                          resolvedAt |-> finding[i].resolvedAt]]
        /\ UNCHANGED <<finding, draft>> /\ ~RowLocked(i)
    BY <1>3 DEF LoadFinding, runVars
  <2>2. (\A r \in Runs : draft[r][i] = NoDraft) /\ \A p \in Operators : opRow[p].issue # i
    BY <2>1 DEF RowLocked
  <2>3. \A p \in Operators \ {o} : opRow'[p] = opRow[p]
    BY <2>1
  <2>4. opRow'[o].issue = i /\ opRow'[o].status = finding[i].status
        /\ opRow'[o].resolvedAt = finding[i].resolvedAt
    BY <2>1
  <2> QED
    BY <1>1, <2>1, <2>2, <2>3, <2>4
<1>4. ASSUME NEW o \in Operators, opRow' = [opRow EXCEPT ![o] = Idle], UNCHANGED draft,
             \A p \in Operators \ {o} : opRow[p] # Idle =>
               finding'[opRow[p].issue] = finding[opRow[p].issue]
      PROVE  OperatorAlone'
  <2>1. ASSUME NEW p \in Operators, opRow'[p] # Idle PROVE p # o /\ opRow'[p] = opRow[p]
    BY <1>4, <2>1
  <2>2. ASSUME NEW p \in Operators, opRow'[p] # Idle, NEW q \in Operators \ {p}
        PROVE  opRow'[q].issue # opRow'[p].issue
    <3>1. CASE q = o
      <4>1. opRow'[q].issue = Nobody
        BY <1>4, <3>1 DEF Idle
      <4>2. opRow[p].issue \in Issues
        BY <2>1, <2>2 DEF Loaded
      <4> QED
        BY <2>1, <2>2, <4>1, <4>2, FindingsConstants DEF FindingsAssumption
    <3>2. CASE q # o
      BY <1>1, <1>4, <2>1, <2>2, <3>2
    <3> QED
      BY <3>1, <3>2
  <2> QED
    BY <1>1, <1>4, <2>1, <2>2
<1>5. ASSUME NEW o \in Operators, NEW status \in OPERATOR_STATUSES, SetStatus(o, status)
      PROVE  OperatorAlone'
  <2>1. \A p \in Operators \ {o} : opRow[p] # Idle => opRow[p].issue # opRow[o].issue
    BY <1>1, <1>5 DEF SetStatus
  <2>2. /\ opRow' = [opRow EXCEPT ![o] = Idle] /\ UNCHANGED draft
        /\ finding' = [finding EXCEPT ![opRow[o].issue] = Decided(@, opRow[o], status)]
    BY <1>5 DEF SetStatus, runVars
  <2>3. \A p \in Operators : opRow[p] # Idle => opRow[p].issue \in Issues
    BY DEF Loaded
  <2>4. \A p \in Operators \ {o} : opRow[p] # Idle =>
          finding'[opRow[p].issue] = finding[opRow[p].issue]
    BY <2>1, <2>2, <2>3
  <2> HIDE DEF IInv, TypeOK, OperatorAlone
  <2> QED
    BY <1>4, <2>2, <2>4
<1>6. ASSUME NEW o \in Operators, GiveUp(o) PROVE OperatorAlone'
  BY <1>4, <1>6 DEF GiveUp, runVars
<1>7. ASSUME UNCHANGED opRow,
             \A o \in Operators : opRow[o] # Idle =>
               /\ finding'[opRow[o].issue] = finding[opRow[o].issue]
               /\ \A r \in Runs : draft'[r][opRow[o].issue] = NoDraft
      PROVE  OperatorAlone'
  BY <1>1, <1>7
<1>8. \A o \in Operators : opRow[o] # Idle =>
        /\ opRow[o].issue \in Issues /\ RowLocked(opRow[o].issue)
        /\ \A r \in Runs : draft[r][opRow[o].issue] = NoDraft
  BY <1>1 DEF Loaded, RowLocked
<1>9. ASSUME NEW r \in Runs, Publishes(r) PROVE OperatorAlone'
  <2>1. ASSUME NEW i \in Issues, draft[r][i] = NoDraft PROVE finding'[i] = finding[i]
    <3>1. finding'[i] = Merged(finding[i], NoDraft) /\ finding[i] \in FindingRow
      BY <1>9, <2>1, PublishedRow
    <3> QED
      BY <3>1 DEF Merged, NoDraft, FindingRow
  <2>2. UNCHANGED opRow /\ draft' = [draft EXCEPT ![r] = [i \in Issues |-> NoDraft]]
    BY <1>9 DEF Publishes, PublishRun, PublishUnanswered, Left
  <2>3. \A s \in Runs, i \in Issues : draft[s][i] = NoDraft => draft'[s][i] = NoDraft
    BY <2>2
  <2> QED
    BY <1>7, <1>8, <2>1, <2>2, <2>3
<1>10. ASSUME NEW r \in Runs, FailRun(r) \/ LoseRun(r) PROVE OperatorAlone'
  <2>1. UNCHANGED <<opRow, finding>> /\ draft' = [draft EXCEPT ![r] = [i \in Issues |-> NoDraft]]
    BY <1>10 DEF FailRun, LoseRun, Left
  <2>2. \A s \in Runs, i \in Issues : draft[s][i] = NoDraft => draft'[s][i] = NoDraft
    BY <2>1
  <2> QED
    BY <1>7, <1>8, <2>1, <2>2
<1>11. ASSUME NEW r \in Runs, NEW x \in seen[r], WriteFinding(r, x) PROVE OperatorAlone'
  <2>1. /\ UNCHANGED <<opRow, finding>> /\ ~RowLocked(x.issue)
        /\ draft' = [draft EXCEPT ![r][x.issue] = Upserted(r, x)]
    BY <1>11 DEF WriteFinding
  <2>2. \A s \in Runs, i \in Issues \ {x.issue} : draft'[s][i] = draft[s][i]
    BY <2>1
  <2> QED
    BY <1>7, <1>8, <2>1, <2>2
<1>12. ASSUME NEW r \in Runs, WriteResolved(r) PROVE OperatorAlone'
  <2>1. /\ UNCHANGED <<opRow, finding>> /\ \A x \in seen[r] : ~RowLocked(x.issue)
        /\ \A s \in Runs, i \in Issues : ~(\E x \in seen[r] : x.issue = i) =>
             draft'[s][i] = draft[s][i]
    BY <1>12 DEF WriteResolved
  <2> HIDE DEF IInv, TypeOK, OperatorAlone
  <2>2. ASSUME NEW o \in Operators, opRow[o] # Idle
        PROVE  \A s \in Runs : draft'[s][opRow[o].issue] = NoDraft
    BY <1>8, <2>1, <2>2
  <2> QED
    BY <1>7, <2>1, <2>2
<1>13. CASE Restart
  BY <1>13 DEF Restart
<1>14. CASE \/ \E r \in Runs : \/ CountRuns(r) \/ InsertRun(r) \/ StartRun(r) \/ ReadAssets(r)
                               \/ ReadObservations(r) \/ (\E i \in Issues : ReadFinding(r, i))
                               \/ \E raising \in SUBSET Detectors : Detect(r, raising)
                               \/ \E covered \in SUBSET Detectors : ReadCandidates(r, covered)
            \/ Revoke \/ UNCHANGED vars \/ \E i \in Issues, v \in Verdicts : Publication(i, v)
  BY <1>2, <1>14 DEF CountRuns, InsertRun, StartRun, ReadAssets, ReadObservations, ReadFinding,
     Detect, ReadCandidates, Revoke, Publication, vars, runVars
<1> HIDE DEF IInv, TypeOK, OperatorAlone
<1> QED
  BY <1>3, <1>5, <1>6, <1>9, <1>10, <1>11, <1>12, <1>13, <1>14 DEF Next, RunStep, Publishes

\* With row locks the date of resolution agrees with the status: the columns an
\* operator leaves out are as they were when the row was loaded.
LEMMA DatesNext ==
  ASSUME IInv, [Next]_vars, RowLocks PROVE ResolvedAtAgrees'
<1>1. ResolvedAtAgrees /\ OperatorAlone
  BY DEF IInv
<1>2. ASSUME NEW r \in Runs, Publishes(r), NEW i \in Issues
      PROVE  /\ finding'[i].status = "open" => ~finding'[i].resolvedAt
             /\ finding'[i].status = "resolved" => finding'[i].resolvedAt
  <2>1. /\ finding'[i] = Merged(finding[i], draft[r][i]) /\ DraftTrue(r, i)
        /\ draft[r][i] \in Draft /\ finding[i] \in FindingRow
    BY <1>2, PublishedRow
  <2>2. CASE draft[r][i].status = Keep
    <3>1. finding'[i].status = finding[i].status /\ finding'[i].resolvedAt = finding[i].resolvedAt
      BY <2>1, <2>2 DEF Merged, FindingRow
    <3> QED
      BY <1>1, <3>1 DEF ResolvedAtAgrees
  <2>3. CASE draft[r][i].status # Keep
    <3>1. /\ finding'[i].status = draft[r][i].status
          /\ finding'[i].resolvedAt = draft[r][i].resolvedAt
      BY <2>1, <2>3 DEF Merged
    <3> QED
      BY <2>1, <2>3, <3>1 DEF DraftTrue, NoDraft
  <2> QED
    BY <2>2, <2>3
<1>3. ASSUME NEW o \in Operators, NEW status \in OPERATOR_STATUSES, SetStatus(o, status),
             NEW i \in Issues
      PROVE  /\ finding'[i].status = "open" => ~finding'[i].resolvedAt
             /\ finding'[i].status = "resolved" => finding'[i].resolvedAt
  <2>1. finding'[i] = IF opRow[o].issue = i THEN Decided(finding[i], opRow[o], status)
                      ELSE finding[i]
    BY <1>3, DecidedRow
  <2>2. finding[i] \in FindingRow
    BY DEF IInv, TypeOK
  <2>3. CASE opRow[o].issue = i
    <3>1. opRow[o].status = finding[i].status /\ opRow[o].resolvedAt = finding[i].resolvedAt
      BY <1>1, <1>3, <2>3 DEF OperatorAlone, SetStatus
    <3>2. /\ finding'[i].status = IF status = finding[i].status THEN finding[i].status ELSE status
          /\ finding'[i].resolvedAt = IF status = "open" /\ finding[i].resolvedAt THEN FALSE
                                      ELSE finding[i].resolvedAt
      BY <2>1, <2>2, <2>3, <3>1 DEF Decided, FindingRow
    <3> QED
      BY <1>1, <3>2 DEF ResolvedAtAgrees, OPERATOR_STATUSES
  <2> QED
    BY <1>1, <2>1, <2>3 DEF ResolvedAtAgrees
<1>4. CASE UNCHANGED finding
  BY <1>1, <1>4 DEF ResolvedAtAgrees
<1> QED
  BY <1>2, <1>3, <1>4, Touches DEF ResolvedAtAgrees, Publication

-----------------------------------------------------------------------------
(* The theorems *)

\* The first state has no run, no finding and nobody at work.
LEMMA IInvInit == Init => IInv
<1> SUFFICES ASSUME Init PROVE IInv
  OBVIOUS
<1>1. TypeOK
  BY TypeInit
<1>2. Admission
  BY DEF Init, Admission, Active, ActiveStatuses
<1>3. \A r \in Runs : RunOK(r)
  BY DEF Init, RunOK, Flow, SnapshotCovers, Reconciled, Reconciling, Executing
<1>4. EvidenceStored /\ FindingsSupported /\ LoadedStored /\ OperatorAlone /\ ResolvedAtAgrees
  BY DEF Init, EvidenceStored, FindingsSupported, LoadedStored, OperatorAlone, ResolvedAtAgrees,
         Stored, NoRow
<1> QED
  BY <1>1, <1>2, <1>3, <1>4 DEF IInv

\* No step of a run, an operator, discovery or a restart breaks the invariant.
LEMMA Invariance == Spec => []IInv
<1>1. IInv /\ [Next]_vars => IInv'
  <2> SUFFICES ASSUME IInv, [Next]_vars PROVE IInv'
    OBVIOUS
  <2>1. TypeOK'
    BY TypeNext DEF IInv
  <2> QED
    BY <2>1, AdmissionNext, RunsNext, SupportedNext, LoadedNext, AloneNext, DatesNext DEF IInv
<1> QED
  BY IInvInit, <1>1, PTL DEF Spec

\* At most one detection run of a Dockyard is active, and every stored finding
\* cites an observation that showed its issue, on either database.
THEOREM FindingsSafe == Spec => []FindingsHold
<1>1. IInv => OneActiveRun
  <2> SUFFICES ASSUME IInv PROVE Cardinality(Active) <= 1
    BY DEF OneActiveRun
  <2>1. \A r, s \in Active : r = s
    BY DEF IInv, Admission
  <2>2. CASE Active = {}
    BY <2>2, FS_EmptySet
  <2>3. ASSUME NEW r \in Active PROVE Cardinality(Active) <= 1
    <3>1. Active = {r}
      BY <2>1, <2>3
    <3> QED
      BY <3>1, FS_Singleton
  <2> QED
    BY <2>2, <2>3
<1>2. IInv => FindingsHold
  BY <1>1 DEF IInv, FindingsHold
<1> QED
  BY Invariance, <1>2, PTL

\* On a database with row locks the date of resolution agrees with the status,
\* however upserts, resolutions and operators' decisions interleave.  (Without
\* them TLC finds the interleaving that breaks it.)
THEOREM DatesAgree == ASSUME RowLocks PROVE Spec => []ResolvedAtAgrees
<1>1. IInv => ResolvedAtAgrees
  BY DEF IInv
<1> QED
  BY Invariance, <1>1, PTL

\* A finding appears only by the publication of a run whose snapshot shows it
\* and is resolved only by one whose snapshot clears it, and what a published run reproduced is not left resolved.
THEOREM ResolutionSafe == Spec => ResolvedOnlyWhenCleared
<1>1. IInv /\ [Next]_vars => [ResolvesWhatIsCleared]_vars
  <2> SUFFICES ASSUME IInv, [Next]_vars PROVE ResolvesWhatIsCleared
    OBVIOUS
  <2>1. ASSUME NEW r \in Runs, Publishes(r) PROVE ResolvesWhatIsCleared
    <3>1. r \in published' \ published /\ published' \ published = {r}
      BY <2>1 DEF Publishes, PublishRun, PublishUnanswered, Commit, IInv, RunOK, Flow, Executing
    <3>2. Reconciled(r) /\ SnapshotCovers(r) /\ pc[r] = "written" /\ todo[r] = {}
      BY <2>1 DEF Publishes, PublishRun, PublishUnanswered, Commit, IInv, RunOK, Flow
    <3>3. ASSUME NEW i \in Issues, finding[i].status = "open", finding'[i].status = "resolved"
          PROVE  outcome[r][DetectorOf[i]] = "ok" /\ Verdict(i, snap[r].count) = "clears"
      <4>1. /\ finding'[i] = Merged(finding[i], draft[r][i]) /\ DraftTrue(r, i)
            /\ draft[r][i] \in Draft /\ finding[i] \in FindingRow
        BY <2>1, PublishedRow
      <4>2. Cleared(r, i)
        BY <3>3, <4>1 DEF Merged, DraftTrue, NoDraft, FindingRow, Keep
      <4>3. PICK k \in finding[i].evidence : observations[k] = [issue |-> i, verdict |-> "shows"]
        BY <3>3 DEF IInv, FindingsSupported, Stored
      <4>4. k \in 1..snap[r].count /\ snap[r].count \in Nat
        BY <3>2, <4>3 DEF SnapshotCovers, Reconciling, IInv, TypeOK
      <4>5. Verdict(i, snap[r].count) \in Verdicts
        <5> DEFINE n == snap[r].count
                   l == LatestOf(observations, i, n)
                   Rows == [issue : Issues, verdict : Verdicts]
        <5>1. l \in 1..n
          <6>1. n \in Nat /\ k \in 1..n /\ observations[k].issue = i
            BY <4>3, <4>4
          <6> HIDE DEF n
          <6> QED
            BY <6>1, LatestExists
        <5>2. observations \in Seq(Rows) /\ l \in 1..Len(observations)
          BY <3>2, <4>4, <5>1 DEF SnapshotCovers, Reconciling, IInv, TypeOK
        <5>3. observations[l] \in Rows
          <6> HIDE DEF l, Rows
          <6> QED
            BY <5>2
        <5>4. Verdict(i, n) = observations[l].verdict
          BY <4>4, <5>1 DEF Verdict, VerdictOf
        <5> QED
          BY <5>3, <5>4
      <4> QED
        BY <4>2, <4>5 DEF Cleared, Verdicts
    <3>4. ASSUME NEW i \in Issues, outcome[r][DetectorOf[i]] = "ok",
                 Verdict(i, snap[r].count) = "shows"
          PROVE  finding'[i].status \in OPERATOR_STATUSES
      <4>1. /\ finding'[i] = Merged(finding[i], draft[r][i]) /\ DraftTrue(r, i)
            /\ draft[r][i] \in Draft /\ finding[i] \in FindingRow
        BY <2>1, PublishedRow
      <4>2. draft[r][i].evidence # {}
        BY <3>2, <3>4 DEF Reconciled, Reconciling, Shown
      <4>3. /\ draft[r][i].status \in {"open", Keep}
            /\ draft[r][i].status = Keep => finding[i].status \in OPERATOR_STATUSES
        BY <4>1, <4>2 DEF DraftTrue, NoDraft
      <4> QED
        BY <4>1, <4>3 DEF Merged, FindingRow, OPERATOR_STATUSES
    <3>5. ASSUME NEW i \in Issues, ~Stored(i), finding'[i].status # "absent"
          PROVE  outcome[r][DetectorOf[i]] = "ok" /\ Verdict(i, snap[r].count) = "shows"
      <4>1. /\ finding'[i] = Merged(finding[i], draft[r][i]) /\ DraftTrue(r, i)
            /\ draft[r][i] \in Draft /\ finding[i] \in FindingRow
        BY <2>1, PublishedRow
      <4>2. draft[r][i].status # Keep
        BY <3>5, <4>1 DEF Merged, FindingRow, Stored
      <4> QED
        BY <3>5, <4>1, <4>2 DEF DraftTrue, NoDraft, Cleared, Shown
    <3>6. actorOK
      BY <2>1 DEF Publishes, PublishRun, PublishUnanswered, Commit
    <3> QED
      BY <3>1, <3>3, <3>4, <3>5, <3>6 DEF ResolvesWhatIsCleared, PublishedOn, Stored
  <2>2. ASSUME NEW o \in Operators, NEW status \in OPERATOR_STATUSES, SetStatus(o, status)
        PROVE  ResolvesWhatIsCleared
    <3>1. ASSUME NEW i \in Issues, ~Stored(i) PROVE finding'[i] = finding[i]
      <4>1. opRow[o].issue # i
        BY <2>2, <3>1 DEF IInv, LoadedStored, SetStatus
      <4> QED
        BY <2>2, <4>1, DecidedRow
    <3>2. published' = published /\ \A i \in Issues : finding'[i].status \in {finding[i].status, status}
      BY <2>2, DecidedRow DEF SetStatus
    <3> QED
      BY <3>1, <3>2 DEF ResolvesWhatIsCleared, OPERATOR_STATUSES, Stored
  <2>3. ASSUME UNCHANGED finding, ~\E r \in Runs : Publishes(r)
        PROVE  ResolvesWhatIsCleared
    <3>1. published' \subseteq published
      BY <2>3 DEF Next, RunStep, Publishes, CountRuns, InsertRun, StartRun, ReadAssets, ReadObservations,
             Detect, WriteResolved, FailRun, LoseRun, ReadFinding, WriteFinding, ReadCandidates,
             LoadFinding, SetStatus, GiveUp, Revoke, Restart, Publication, vars
    <3> QED
      BY <2>3, <3>1 DEF ResolvesWhatIsCleared, Stored
  <2> QED
    BY <2>1, <2>2, <2>3, Touches DEF Publication
<1> QED
  BY Invariance, <1>1, PTL DEF Spec, ResolvedOnlyWhenCleared

-----------------------------------------------------------------------------
(* The HTTP checks *)

\* The rules one by one: what is missing from a record, what protects an answer.
LEMMA RuleByRule ==
  ASSUME NEW r
  PROVE  /\ Http!Missing(r, "content-type-options-not-nosniff") <=> r.options # "nosniff"
         /\ Http!Missing(r, "content-security-policy-not-set") <=> r.policy = <<>>
         /\ Http!Missing(r, "frame-protection-not-set")
              <=> ~Http!framing_restricted(r.frame, r.policy)
         /\ Http!Protected("content-type-options-not-nosniff", r) <=> r.options = "nosniff"
         /\ Http!Protected("content-security-policy-not-set", r) <=> r.policy # <<>>
         /\ Http!Protected("plaintext-http", r) <=> Http!RedirectsToHttps(r)
         /\ Http!Protected("hsts-not-set", r) <=> r.hsts = "kept"
         /\ Http!Protected("frame-protection-not-set", r) <=>
              IF Http!Ancestors(r.policy) = "none" THEN r.frame = "deny"
              ELSE Http!Ancestors(r.policy) \in {"ancestors self", "ancestors"}
BY DEF Http!Missing, Http!Protected

\* The first frame-ancestors directive is at k.
FirstAt(policy, k) ==
  /\ k \in DOMAIN policy /\ policy[k] # "other"
  /\ \A j \in 1 .. k - 1 : policy[j] = "other"

\* The directive a browser honours is the first one, which exists unless every
\* directive is another.
LEMMA AncestorsAt ==
  ASSUME NEW policy \in Seq(Http!Directives), NEW k, FirstAt(policy, k)
  PROVE  Http!Ancestors(policy) = policy[k]
<1>1. DOMAIN policy = 1 .. Len(policy) /\ Len(policy) \in Nat OBVIOUS
<1> DEFINE m == CHOOSE m \in DOMAIN policy :
                  policy[m] # "other" /\ \A j \in 1..(m - 1) : policy[j] = "other"
<1>2. /\ m \in DOMAIN policy /\ policy[m] # "other"
      /\ \A j \in 1..(m - 1) : policy[j] = "other"
  BY DEF FirstAt
<1>3. Http!Ancestors(policy) = policy[m]
  BY DEF Http!Ancestors, FirstAt
<1> HIDE DEF m
<1>4. ~(k < m) /\ ~(m < k)
  BY <1>1, <1>2 DEF FirstAt
<1>5. k = m
  BY <1>1, <1>2, <1>4 DEF FirstAt
<1> QED BY <1>3, <1>5

LEMMA AncestorsCases ==
  ASSUME NEW policy \in Seq(Http!Directives)
  PROVE  \/ /\ \A k \in DOMAIN policy : policy[k] = "other"
            /\ Http!Ancestors(policy) = "none"
         \/ \E k \in DOMAIN policy : FirstAt(policy, k)
<1> DEFINE T == {k \in Nat : k \in DOMAIN policy /\ policy[k] # "other"}
<1>1. DOMAIN policy = 1 .. Len(policy) /\ Len(policy) \in Nat OBVIOUS
<1>2. CASE T = {}
  <2>1. \A k \in DOMAIN policy : policy[k] = "other" BY <1>1, <1>2
  <2> QED BY <2>1 DEF Http!Ancestors
<1>3. CASE T # {}
  <2>1. T \subseteq Nat OBVIOUS
  <2> HIDE DEF T
  <2>2. PICK x \in T : \A y \in T : <<y, x>> \notin OpToRel(<, Nat)
    BY <1>3, <2>1, NatLessThanWellFounded, WFMin
  <2>3. ASSUME NEW y \in Nat, y < x PROVE <<y, x>> \in OpToRel(<, Nat)
    BY <2>1, <2>2, <2>3 DEF OpToRel
  <2>4. \A y \in T : ~(y < x) BY <2>1, <2>2, <2>3
  <2>5. x \in DOMAIN policy /\ policy[x] # "other" BY <2>2 DEF T
  <2>6. ASSUME NEW j \in 1 .. x - 1 PROVE policy[j] = "other"
    <3>1. j \in Nat /\ j \in DOMAIN policy /\ j < x BY <1>1, <2>5, <2>6
    <3> QED BY <2>4, <3>1 DEF T
  <2> QED BY <2>5, <2>6 DEF FirstAt
<1> QED BY <1>2, <1>3

\* What the code makes of a whole policy, in terms of the directive a browser honours.
LEMMA FramingByAncestors ==
  ASSUME NEW policy \in Seq(Http!Directives), NEW frame
  PROVE  /\ Http!framing_restricted(frame, policy) <=>
              \/ frame = "deny"
              \/ Http!Ancestors(policy) \in {"ancestors self", "ancestors * self"}
         /\ Http!Ancestors(policy) \in {"none", "ancestors self", "ancestors *",
                                       "ancestors * self", "ancestors"}
<1>1. DOMAIN policy = 1 .. Len(policy) /\ Len(policy) \in Nat OBVIOUS
<1> DEFINE R == {"ancestors self", "ancestors * self"}
<1>2. ASSUME NEW k \in 1 .. Len(policy)
      PROVE  (\A j \in {i \in DOMAIN policy : policy[i] # "other"} : k <= j)
               <=> \A j \in 1 .. k - 1 : policy[j] = "other"
  BY <1>1
<1>3. Http!framing_restricted(frame, policy) <=>
        frame = "deny" \/ \E k \in DOMAIN policy : FirstAt(policy, k) /\ policy[k] \in R
  BY <1>1, <1>2 DEF Http!framing_restricted, FirstAt
<1>4. CASE \A k \in DOMAIN policy : policy[k] = "other"
  <2>1. Http!Ancestors(policy) = "none" BY <1>4 DEF Http!Ancestors
  <2> QED BY <1>3, <1>4, <2>1
<1>5. ASSUME NEW k \in DOMAIN policy, FirstAt(policy, k)
      PROVE  /\ Http!framing_restricted(frame, policy) <=> frame = "deny" \/ Http!Ancestors(policy) \in R
             /\ Http!Ancestors(policy) \in Http!Directives \ {"other"}
  <2>1. \A m \in DOMAIN policy : FirstAt(policy, m) => policy[m] = Http!Ancestors(policy)
    BY AncestorsAt
  <2>2. policy[k] \in Http!Directives \ {"other"} BY <1>1, <1>5 DEF FirstAt
  <2> QED BY <1>3, <1>5, <2>1, <2>2
<1> QED BY <1>4, <1>5, AncestorsCases DEF Http!Directives

\* A cut never brings a restriction in, and takes one away only where the
\* directive reaches the cut.
LEMMA CutPolicy ==
  ASSUME Http!HttpAssumption, NEW policy \in Seq(Http!Directives), NEW c \in Http!Cut(policy)
  PROVE  /\ c \in Seq(Http!Directives)
         /\ c = <<>> <=> policy = <<>>
         /\ Http!Ancestors(c) \in {"ancestors self", "ancestors * self"} =>
              Http!Ancestors(policy) \in {"ancestors self", "ancestors * self"}
         /\ \/ Http!Ancestors(c) = Http!Ancestors(policy)
            \/ Http!Ancestors(policy) = "none"
            \/ /\ Len(policy) > MaxHeaderLength
               /\ \A k \in 1 .. (MaxHeaderLength - 1) : policy[k] = "other"
<1>1. DOMAIN policy = 1 .. Len(policy) /\ Len(policy) \in Nat OBVIOUS
<1>2. MaxHeaderLength \in Nat /\ MaxHeaderLength >= 1 BY DEF Http!HttpAssumption
<1>3. CASE Len(policy) <= MaxHeaderLength BY <1>3 DEF Http!Cut
<1>4. CASE ~(Len(policy) <= MaxHeaderLength)
  <2>1. PICK last \in Http!Shortened(policy[MaxHeaderLength]) :
          c = [k \in 1 .. MaxHeaderLength |-> IF k = MaxHeaderLength THEN last ELSE policy[k]]
    BY <1>4 DEF Http!Cut
  <2>2. /\ DOMAIN c = 1 .. MaxHeaderLength /\ c[MaxHeaderLength] = last
        /\ \A k \in 1 .. MaxHeaderLength : k # MaxHeaderLength => c[k] = policy[k]
    BY <1>2, <2>1
  <2>3. 1 .. MaxHeaderLength \subseteq 1 .. Len(policy) /\ 1 \in 1 .. MaxHeaderLength
    BY <1>1, <1>2, <1>4
  <2>4. c # <<>> /\ policy # <<>>
    <3>1. 1 \in DOMAIN c /\ 1 \in DOMAIN policy BY <1>1, <2>2, <2>3
    <3>2. DOMAIN <<>> = {} OBVIOUS
    <3> QED BY <3>1, <3>2
  <2>5. policy[MaxHeaderLength] \in Http!Directives BY <1>1, <1>2, <1>4
  <2>6. /\ last \in Http!Directives
        /\ last \in {"ancestors self", "ancestors * self"} =>
             policy[MaxHeaderLength] \in {"ancestors self", "ancestors * self"}
    BY <2>1, <2>5 DEF Http!Shortened, Http!Directives
  <2>7. c \in Seq(Http!Directives)
    <3>1. \A k \in 1 .. MaxHeaderLength : c[k] \in Http!Directives
      <4>1. \A k \in 1 .. Len(policy) : policy[k] \in Http!Directives BY <1>1
      <4> QED BY <2>2, <2>3, <2>6, <4>1
    <3>2. c = [k \in 1 .. MaxHeaderLength |-> c[k]] BY <2>1, <2>2
    <3> QED BY <1>2, <3>1, <3>2
  <2>8. ASSUME NEW k \in DOMAIN c, FirstAt(c, k)
        PROVE  /\ Http!Ancestors(c) = c[k]
               /\ k # MaxHeaderLength => Http!Ancestors(policy) = policy[k] /\ policy[k] = c[k]
               /\ k = MaxHeaderLength => \A j \in 1 .. (MaxHeaderLength - 1) : policy[j] = "other"
    <3>1. k \in 1 .. MaxHeaderLength /\ k \in DOMAIN policy BY <1>1, <2>2, <2>3
    <3>2. Http!Ancestors(c) = c[k] BY <2>7, <2>8, AncestorsAt
    <3>3. \A j \in 1 .. k - 1 : j \in 1 .. MaxHeaderLength /\ j # MaxHeaderLength
      BY <1>2, <3>1
    <3>4. \A j \in 1 .. k - 1 : policy[j] = "other" BY <2>2, <2>8, <3>3 DEF FirstAt
    <3>5. ASSUME k # MaxHeaderLength
          PROVE  Http!Ancestors(policy) = policy[k] /\ policy[k] = c[k]
      <4>1. policy[k] = c[k] BY <2>2, <3>1, <3>5
      <4>2. FirstAt(policy, k) BY <2>8, <3>1, <3>4, <4>1 DEF FirstAt
      <4> QED BY <4>1, <4>2, AncestorsAt
    <3> QED BY <3>2, <3>4, <3>5
  <2>9. ASSUME NEW k \in DOMAIN c, FirstAt(c, k), k = MaxHeaderLength,
               c[k] \in {"ancestors self", "ancestors * self"}
        PROVE  Http!Ancestors(policy) = policy[k] /\ policy[k] \in {"ancestors self", "ancestors * self"}
    <3>1. policy[k] \in {"ancestors self", "ancestors * self"} BY <2>2, <2>6, <2>9
    <3>2. k \in DOMAIN policy /\ \A j \in 1 .. k - 1 : policy[j] = "other"
      <4>1. k \in DOMAIN policy BY <1>1, <2>2, <2>3, <2>9
      <4>2. \A j \in 1 .. (MaxHeaderLength - 1) : policy[j] = "other" BY <2>8, <2>9
      <4> QED BY <2>9, <4>1, <4>2
    <3>3. FirstAt(policy, k) BY <3>1, <3>2 DEF FirstAt
    <3> QED BY <3>1, <3>3, AncestorsAt
  <2>10. CASE \A k \in DOMAIN c : c[k] = "other"
    <3>1. Http!Ancestors(c) = "none" BY <2>10 DEF Http!Ancestors
    <3>2. \A k \in 1 .. (MaxHeaderLength - 1) : policy[k] = "other"
      <4>1. \A k \in 1 .. (MaxHeaderLength - 1) : k \in 1 .. MaxHeaderLength /\ k # MaxHeaderLength
        BY <1>2
      <4> QED BY <2>2, <2>10, <4>1
    <3> QED BY <1>1, <1>2, <1>4, <2>4, <2>7, <3>1, <3>2
  <2>11. ASSUME NEW k \in DOMAIN c, FirstAt(c, k)
         PROVE  /\ Http!Ancestors(c) \in {"ancestors self", "ancestors * self"} =>
                     Http!Ancestors(policy) \in {"ancestors self", "ancestors * self"}
                /\ \/ Http!Ancestors(c) = Http!Ancestors(policy)
                   \/ \A j \in 1 .. (MaxHeaderLength - 1) : policy[j] = "other"
    <3>1. CASE k = MaxHeaderLength
      <4>1. Http!Ancestors(c) = c[k] /\ \A j \in 1 .. (MaxHeaderLength - 1) : policy[j] = "other"
        BY <2>8, <2>11, <3>1
      <4>2. c[k] \in {"ancestors self", "ancestors * self"} =>
              Http!Ancestors(policy) \in {"ancestors self", "ancestors * self"}
        BY <2>9, <2>11, <3>1
      <4> QED BY <4>1, <4>2
    <3>2. CASE k # MaxHeaderLength
      <4>1. Http!Ancestors(c) = Http!Ancestors(policy) BY <2>8, <2>11, <3>2
      <4> QED BY <4>1
    <3> QED BY <3>1, <3>2
  <2>12. Len(policy) > MaxHeaderLength BY <1>1, <1>2, <1>4
  <2>13. (\A k \in DOMAIN c : c[k] = "other") \/ \E k \in DOMAIN c : FirstAt(c, k)
    BY <2>7, AncestorsCases, Zenon
  <2>14. CASE \E k \in DOMAIN c : FirstAt(c, k)
    <3>1. PICK k \in DOMAIN c : FirstAt(c, k) BY <2>14
    <3> QED BY <2>4, <2>7, <2>11, <2>12, <3>1
  <2> QED BY <2>10, <2>13, <2>14
<1> QED BY <1>3, <1>4

\* A record has the answer's fields, but for the policy.
LEMMA RecordFields ==
  ASSUME Http!HttpAssumption, NEW answer \in Http!Answers, NEW r \in Http!Recorded(answer)
  PROVE  /\ r.status = answer.status /\ r.location = answer.location /\ r.hsts = answer.hsts
         /\ r.options = answer.options /\ r.frame = answer.frame
         /\ r.policy \in Http!Cut(answer.policy) /\ answer.policy \in Seq(Http!Directives)
         /\ answer.status \in Nat
<1>1. answer.policy \in Seq(Http!Directives) /\ answer.status \in Nat
  <2>1. answer.policy \in Policies /\ answer.status \in StatusCodes BY DEF Http!Answers
  <2>2. Policies \subseteq Seq(Http!Directives) /\ \A s \in StatusCodes : s \in Nat
    BY DEF Http!HttpAssumption
  <2> QED BY <2>1, <2>2
<1>2. PICK policy \in Http!Cut(answer.policy) : r = [answer EXCEPT !.policy = policy]
  BY DEF Http!Recorded
<1> QED BY <1>1, <1>2 DEF Http!Answers

\* What a record lacks the answer lacks, or it is underrated; what a record has
\* the answer has, or it is overrated.
LEMMA RecordJudged ==
  ASSUME Http!HttpAssumption, NEW answer \in Http!Answers, NEW r \in Http!Recorded(answer),
         NEW rule \in Http!_CONTENT_RULES
  PROVE  /\ ~Http!Missing(r, rule) => Http!Protected(rule, answer) \/ Http!Overrated(rule, answer)
         /\ Http!Missing(r, rule) => ~Http!Protected(rule, answer) \/ Http!Underrated(rule, answer)
<1>1. /\ r.options = answer.options /\ r.frame = answer.frame
      /\ r.policy \in Http!Cut(answer.policy) /\ answer.policy \in Seq(Http!Directives)
  BY RecordFields
<1>2. /\ r.policy \in Seq(Http!Directives) /\ (r.policy = <<>> <=> answer.policy = <<>>)
      /\ Http!Ancestors(r.policy) \in {"ancestors self", "ancestors * self"} =>
           Http!Ancestors(answer.policy) \in {"ancestors self", "ancestors * self"}
      /\ \/ Http!Ancestors(r.policy) = Http!Ancestors(answer.policy)
         \/ Http!Ancestors(answer.policy) = "none"
         \/ /\ Len(answer.policy) > MaxHeaderLength
            /\ \A k \in 1 .. (MaxHeaderLength - 1) : answer.policy[k] = "other"
  BY <1>1, CutPolicy
<1>5. CASE rule = "content-type-options-not-nosniff" BY <1>1, <1>5, RuleByRule
<1>6. CASE rule = "content-security-policy-not-set" BY <1>2, <1>6, RuleByRule
<1>7. CASE rule = "frame-protection-not-set"
  <2> DEFINE seenAs == Http!Ancestors(r.policy)
             really == Http!Ancestors(answer.policy)
  <2>1. Http!Missing(r, rule) <=>
          ~(answer.frame = "deny" \/ seenAs \in {"ancestors self", "ancestors * self"})
    BY <1>1, <1>2, <1>7, RuleByRule, FramingByAncestors
  <2>2. really \in {"none", "ancestors self", "ancestors *", "ancestors * self", "ancestors"}
    BY <1>1, FramingByAncestors
  <2>3. Http!Protected(rule, answer) <=>
          IF really = "none" THEN answer.frame = "deny"
          ELSE really \in {"ancestors self", "ancestors"}
    BY <1>7, RuleByRule
  <2>4. Http!Overrated(rule, answer) <=>
          really = "ancestors * self" \/ (really = "ancestors *" /\ answer.frame = "deny")
    BY <1>7 DEF Http!Overrated
  <2>5. Http!Underrated(rule, answer) <=>
          /\ answer.frame # "deny"
          /\ \/ really = "ancestors"
             \/ /\ Len(answer.policy) > MaxHeaderLength
                /\ \A k \in 1 .. (MaxHeaderLength - 1) : answer.policy[k] = "other"
    BY <1>7 DEF Http!Underrated
  <2> HIDE DEF seenAs, really
  <2> QED BY <1>2, <2>1, <2>2, <2>3, <2>4, <2>5 DEF seenAs, really
<1> QED BY <1>5, <1>6, <1>7 DEF Http!_CONTENT_RULES

\* Detector and validation judge a record alike.
LEMMA Agreement ==
  ASSUME NEW r, NEW rule \in Http!RulesOfScheme, scheme \in {"http", "https"}
  PROVE  /\ Http!_judge(rule, r) = "confirmed" <=> rule \in Http!_for_response(r)
         /\ Http!_judge(rule, r) = "indeterminate" <=> rule \in Http!unevaluated(r)
<1>1. CASE rule = "plaintext-http"
  <2>1. scheme = "http" /\ rule \notin Http!_CONTENT_RULES
    BY <1>1 DEF Http!RulesOfScheme, Http!_CONTENT_RULES
  <2>2. Http!_judge(rule, r) = IF Http!RedirectsToHttps(r) THEN "not_reproduced" ELSE "confirmed"
    BY <1>1, <2>1 DEF Http!_judge
  <2>3. rule \in Http!_for_response(r) <=> ~Http!RedirectsToHttps(r)
    BY <1>1, <2>1 DEF Http!_for_response, Http!TransportRules
  <2>4. rule \notin Http!unevaluated(r) BY <2>1 DEF Http!unevaluated
  <2> QED BY <2>2, <2>3, <2>4
<1>2. CASE rule = "hsts-not-set"
  <2>1. scheme = "https" /\ rule \notin Http!_CONTENT_RULES
    BY <1>2 DEF Http!RulesOfScheme, Http!_CONTENT_RULES
  <2>2. Http!_judge(rule, r) = IF r.hsts # "none" THEN "not_reproduced" ELSE "confirmed"
    BY <1>2, <2>1 DEF Http!_judge
  <2>3. rule \in Http!_for_response(r) <=> r.hsts = "none"
    BY <1>2, <2>1 DEF Http!_for_response, Http!TransportRules
  <2>4. rule \notin Http!unevaluated(r) BY <2>1 DEF Http!unevaluated
  <2> QED BY <2>2, <2>3, <2>4
<1>3. CASE rule \in Http!_CONTENT_RULES
  <2>1. rule # "plaintext-http" /\ rule # "hsts-not-set" BY <1>3 DEF Http!_CONTENT_RULES
  <2>2. Http!_judge(rule, r) = IF ~Http!_is_content_response(r.status) THEN "indeterminate"
                               ELSE IF Http!Missing(r, rule) THEN "confirmed"
                               ELSE "not_reproduced"
    BY <1>3, <2>1 DEF Http!_judge
  <2>3. rule \in Http!_for_response(r)
          <=> Http!_is_content_response(r.status) /\ Http!Missing(r, rule)
    BY <1>3, <2>1 DEF Http!_for_response, Http!TransportRules
  <2>4. rule \in Http!unevaluated(r) <=> ~Http!_is_content_response(r.status)
    BY <1>3 DEF Http!unevaluated
  <2> QED BY <2>2, <2>3, <2>4
<1> QED BY <1>1, <1>2, <1>3 DEF Http!RulesOfScheme

\* An assessment opens and resolves findings on evidence.
LEMMA AssessJudges ==
  ASSUME Http!HttpAssumption, Http!IInv, Http!Assess
  PROVE  open' \subseteq Http!RulesOfScheme /\ Http!ResolvesOnEvidence /\ Http!OpensOnAbsence
<1>1. origin \in Http!Answers /\ scheme \in {"http", "https"} /\ open \subseteq Http!RulesOfScheme
  BY DEF Http!IInv, Http!TypeOK, Http!Assess
<1>2. PICK r \in Http!Recorded(origin) :
        open' = Http!_for_response(r) \cup (open \cap Http!unevaluated(r))
  BY DEF Http!Assess
<1>3. /\ r.status = origin.status /\ r.location = origin.location /\ r.hsts = origin.hsts
      /\ origin.status \in Nat
  BY <1>1, RecordFields
<1>4. Http!RedirectsToHttps(r) <=> Http!RedirectsToHttps(origin)
  BY <1>3 DEF Http!RedirectsToHttps
<1>5. \A rule \in Http!_CONTENT_RULES :
        /\ rule # "plaintext-http" /\ rule # "hsts-not-set"
        /\ rule \in Http!_for_response(r)
             <=> Http!_is_content_response(r.status) /\ Http!Missing(r, rule)
        /\ rule \in Http!unevaluated(r) <=> ~Http!_is_content_response(r.status)
  BY DEF Http!_for_response, Http!TransportRules, Http!unevaluated, Http!_CONTENT_RULES
<1>6. Http!_for_response(r) \subseteq Http!RulesOfScheme
  BY <1>1 DEF Http!_for_response, Http!TransportRules, Http!RulesOfScheme
<1>7. ASSUME NEW rule \in open, rule \notin open'
      PROVE  /\ Http!Protected(rule, origin) \/ Http!Overrated(rule, origin)
             /\ rule \in Http!_CONTENT_RULES => origin.status \notin 300..399 \cup 500..599
  <2>1. rule \notin Http!_for_response(r) /\ rule \notin Http!unevaluated(r) BY <1>2, <1>7
  <2>2. CASE rule \in Http!_CONTENT_RULES
    <3>1. Http!_is_content_response(r.status) /\ ~Http!Missing(r, rule) BY <1>5, <2>1, <2>2
    <3>2. Http!Protected(rule, origin) \/ Http!Overrated(rule, origin)
      BY <1>1, <2>2, <3>1, RecordJudged
    <3>3. origin.status \notin 300..399 \cup 500..599
      BY <1>3, <3>1 DEF Http!_is_content_response
    <3> QED BY <3>2, <3>3
  <2>3. CASE rule \notin Http!_CONTENT_RULES
    <3>1. rule = IF scheme = "http" THEN "plaintext-http" ELSE "hsts-not-set"
      BY <1>1, <2>3 DEF Http!RulesOfScheme
    <3>2. CASE scheme = "http"
      <4>1. Http!RedirectsToHttps(r)
        BY <2>1, <3>1, <3>2 DEF Http!_for_response, Http!TransportRules
      <4> QED BY <1>4, <2>3, <3>1, <3>2, <4>1, RuleByRule
    <3>3. CASE scheme # "http"
      <4>1. r.hsts # "none" BY <2>1, <3>1, <3>3 DEF Http!_for_response, Http!TransportRules
      <4>2. origin.hsts \in {"kept", "zero"} BY <1>1, <1>3, <4>1 DEF Http!Answers
      <4> QED BY <2>3, <3>1, <3>3, <4>2, RuleByRule DEF Http!Overrated
    <3> QED BY <3>2, <3>3
  <2> QED BY <2>2, <2>3
<1>8. ASSUME NEW rule \in open', rule \notin open
      PROVE  /\ ~Http!Protected(rule, origin) \/ Http!Underrated(rule, origin)
             /\ rule \in Http!_CONTENT_RULES => origin.status \notin 300..399 \cup 500..599
             /\ rule = "plaintext-http" => scheme = "http"
             /\ rule = "hsts-not-set" => scheme = "https"
  <2>1. rule \in Http!_for_response(r) BY <1>2, <1>8
  <2>2. CASE rule \in Http!_CONTENT_RULES
    <3>1. Http!_is_content_response(r.status) /\ Http!Missing(r, rule) BY <1>5, <2>1, <2>2
    <3>2. origin.status \notin 300..399 \cup 500..599
      BY <1>3, <3>1 DEF Http!_is_content_response
    <3> QED BY <1>1, <1>5, <2>2, <3>1, <3>2, RecordJudged
  <2>3. CASE rule \notin Http!_CONTENT_RULES
    <3>1. rule \in Http!TransportRules(r) BY <2>1, <2>3 DEF Http!_for_response
    <3>2. CASE scheme = "http"
      <4>1. rule = "plaintext-http" /\ ~Http!RedirectsToHttps(r)
        BY <3>1, <3>2 DEF Http!TransportRules
      <4> QED BY <1>4, <2>3, <3>2, <4>1, RuleByRule
    <3>3. CASE scheme = "https"
      <4>1. rule = "hsts-not-set" /\ r.hsts = "none" BY <3>1, <3>3 DEF Http!TransportRules
      <4> QED BY <1>3, <2>3, <3>3, <4>1, RuleByRule
    <3> QED BY <1>1, <3>2, <3>3
  <2> QED BY <2>2, <2>3
<1>9. open' \subseteq Http!RulesOfScheme BY <1>1, <1>2, <1>6
<1> QED BY <1>7, <1>8, <1>9 DEF Http!ResolvesOnEvidence, Http!OpensOnAbsence

\* Every step of the checks keeps the invariant and judges fairly.
LEMMA ChecksNext ==
  ASSUME Http!HttpAssumption, Http!IInv, [Http!Next]_Http!vars
  PROVE  Http!IInv' /\ Http!JudgesFairly
<1>1. /\ origin \in Http!Answers \cup {Unreachable} /\ scheme \in {"http", "https"}
      /\ open \subseteq Http!RulesOfScheme
  BY DEF Http!IInv, Http!TypeOK
<1>2. Http!JudgesAgree BY <1>1, Agreement DEF Http!JudgesAgree
<1>3. /\ scheme' = scheme /\ origin' \in Http!Answers \cup {Unreachable}
      /\ Http!Assess \/ open' = open
  BY <1>1 DEF Http!Next, Http!Assess, Http!Silent, Http!Answering, Http!vars
<1>4. open' \subseteq Http!RulesOfScheme /\ Http!ResolvesOnEvidence /\ Http!OpensOnAbsence
  <2>1. CASE Http!Assess BY <2>1, AssessJudges
  <2>2. CASE open' = open
    BY <1>1, <2>2 DEF Http!ResolvesOnEvidence, Http!OpensOnAbsence
  <2> QED BY <1>3, <2>1, <2>2
<1>5. Http!IInv'
  <2>1. (open \subseteq Http!RulesOfScheme)' BY <1>3, <1>4 DEF Http!RulesOfScheme
  <2>2. Http!TypeOK'
    BY <1>1, <1>3, <1>4 DEF Http!TypeOK, Http!RulesOfScheme, Http!_ALL_RULES, Http!Answers
  <2> QED BY <2>1, <2>2 DEF Http!IInv
<1> QED BY <1>2, <1>4, <1>5 DEF Http!JudgesFairly

\* Whatever an origin answers, and wherever the probe cuts its policy, a finding
\* about its headers is resolved only by a response that protects a browser or is
\* one of the overrated ones, opened only for one that does not or is one of the
\* underrated ones, and judged by a validation as by the detector.
THEOREM ChecksSafe == DetectionSpec => JudgedOnEvidence
<1> DEFINE Inv == part = "http" => Http!IInv
<1> USE HttpConstants
<1>1. DetectionInit => Inv
  BY DEF DetectionInit, Http!Init, Http!IInv, Http!TypeOK
<1>2. ASSUME Inv, [DetectionNext]_allVars
      PROVE  Inv' /\ (part = "http" => Http!JudgesFairly)
  <2>1. part' = part /\ (part = "http" => [Http!Next]_Http!vars)
    BY <1>2 DEF DetectionNext, allVars, httpVars, Http!vars
  <2> QED BY <1>2, <2>1, ChecksNext
<1>3. Inv /\ [DetectionNext]_allVars => Inv' BY <1>2
<1>4. Inv /\ [DetectionNext]_allVars => [part = "http" => Http!JudgesFairly]_allVars BY <1>2
<1> QED BY <1>1, <1>3, <1>4, PTL DEF DetectionSpec, JudgedOnEvidence
=============================================================================
