------------------------------ MODULE Findings ------------------------------
(***************************************************************************)
(* Detection runs and the findings they reconcile: admission under the     *)
(* create lock, the snapshot read in several statements, one isolated      *)
(* outcome per detector, the reconciliation in one open transaction and    *)
(* its publication (detection/runner.py, detection/context.py,             *)
(* findings.py), while discovery publishes observations and operators      *)
(* decide about findings (findings.set_status).                            *)
(*                                                                         *)
(* An issue is a fingerprint: one rule of one detector on one endpoint.    *)
(* An observation concerns one issue and shows it, clears it, or gives no  *)
(* basis to judge it.  A write of an open transaction is a draft: a record *)
(* of the columns the UPDATE sets, with Keep for the ones it leaves out.   *)
(***************************************************************************)
EXTENDS Naturals, FiniteSets, Sequences

CONSTANTS
  Issues,            \* finding fingerprints of one Dockyard
  Detectors,
  DetectorOf,        \* the detector whose rule an issue is about
  Runs,              \* request threads; each serves one detection request after another
  Operators,         \* request threads that update a finding
  RowLocks,          \* PostgreSQL: FOR UPDATE and UPDATE lock rows; else SQLite
  MaxObservations,   \* bound on observations ever recorded
  SnapshotLimit,     \* settings.max_detection_observations
  MaxCrashes,        \* bound on crashes
  MaxLosses,         \* bound on failures that could not be recorded and lost replies
  Nobody

\* What every instance assumes of its constants.
FindingsAssumption ==
  /\ DetectorOf \in [Issues -> Detectors] /\ RowLocks \in BOOLEAN
  /\ {MaxObservations, SnapshotLimit, MaxCrashes, MaxLosses} \subseteq Nat
  /\ Nobody \notin Runs \cup Issues
ASSUME FindingsConstants == FindingsAssumption

VARIABLES
  observations,  \* Observation rows, in id order
  assets,        \* issues whose asset is in the inventory
  finding,       \* Finding rows with their FindingEvidence
  runStatus,     \* DetectionRun.status, "none" while there is no row
  createLock,    \* _CREATE_LOCK
  pc,            \* where each request thread is
  snap,          \* the snapshot each run reasons over
  outcome,       \* per run and detector: "ok", "failed" or "waiting"
  todo,          \* issues the run still has to upsert
  seen,          \* rows the run has read and not yet written
  draft,         \* uncommitted writes of the run's transaction
  published,     \* runs with a committed DETECTION_PUBLISH event
  opRow,         \* the row an operator's thread loaded, [issue, status, resolvedAt]
  actorOK,       \* the requesters may still act
  crashes, losses

runVars == <<pc, snap, outcome, todo, seen, draft>>
faultVars == <<actorOK, crashes, losses>>
vars == <<observations, assets, finding, runStatus, createLock, runVars, published,
          opRow, faultVars>>

-----------------------------------------------------------------------------
Verdicts == {"shows", "clears", "unjudged"}
ActiveStatuses == {"pending", "running"}
RunStatuses == {"none", "completed", "partial", "failed"} \cup ActiveStatuses
OPERATOR_STATUSES == {"open", "suppressed", "accepted"}
OPERATOR_OWNED_STATUSES == {"suppressed", "accepted"}
FindingStatuses == {"absent", "resolved"} \cup OPERATOR_STATUSES
Keep == "keep"

NoRow == [status |-> "absent", resolvedAt |-> FALSE, evidence |-> {}]
NoDraft == [status |-> Keep, resolvedAt |-> FALSE, evidence |-> {}]
NoSnapshot == [assets |-> {}, count |-> 0]
Idle == [issue |-> Nobody]

Stored(i) == finding[i].status # "absent"
Active == {r \in Runs : runStatus[r] \in ActiveStatuses}
LatestOf(obs, i, n) ==
  LET about == {k \in 1..n : obs[k].issue = i}
  IN IF about = {} THEN 0 ELSE CHOOSE k \in about : \A j \in about : j <= k
Latest(i, n) == LatestOf(observations, i, n)
VerdictOf(obs, i, n) ==
  IF LatestOf(obs, i, n) = 0 THEN "none" ELSE obs[LatestOf(obs, i, n)].verdict
Verdict(i, n) == VerdictOf(observations, i, n)

Init ==
  /\ observations = <<>> /\ assets = {}
  /\ finding = [i \in Issues |-> NoRow]
  /\ runStatus = [r \in Runs |-> "none"]
  /\ createLock = Nobody
  /\ pc = [r \in Runs |-> "idle"]
  /\ snap = [r \in Runs |-> NoSnapshot]
  /\ outcome = [r \in Runs |-> [d \in Detectors |-> "waiting"]]
  /\ todo = [r \in Runs |-> {}]
  /\ seen = [r \in Runs |-> {}]
  /\ draft = [r \in Runs |-> [i \in Issues |-> NoDraft]]
  /\ published = {}
  /\ opRow = [o \in Operators |-> Idle]
  /\ actorOK = TRUE /\ crashes = 0 /\ losses = 0

Goto(r, where) == pc' = [pc EXCEPT ![r] = where]
InTransaction == \E r \in Runs, i \in Issues : draft[r][i] # NoDraft
RowLocked(i) == \/ \E r \in Runs : draft[r][i] # NoDraft
                \/ RowLocks /\ \E o \in Operators : opRow[o].issue = i

-----------------------------------------------------------------------------
(* Discovery publishes: an asset and an observation in one commit. *)
Publication(i, v) ==
  /\ Len(observations) < MaxObservations
  /\ RowLocks \/ ~InTransaction
  /\ observations' = Append(observations, [issue |-> i, verdict |-> v])
  /\ assets' = assets \cup {i}
  /\ UNCHANGED <<finding, runStatus, createLock, runVars, published, opRow, faultVars>>

-----------------------------------------------------------------------------
(* create_run: the count and the insert, under _CREATE_LOCK *)

\* Mutant: the active runs are counted before the lock is taken.
CountRunsUnlocked(r) ==
  /\ pc[r] = "idle" /\ runStatus[r] \notin ActiveStatuses /\ actorOK
  /\ Active = {}
  /\ Goto(r, "admitting")
  /\ UNCHANGED <<observations, assets, finding, runStatus, createLock, snap, outcome, todo,
                 seen, draft, published, opRow, faultVars>>

CountRuns(r) ==
  /\ pc[r] = "idle" /\ runStatus[r] \notin ActiveStatuses /\ actorOK
  /\ createLock = Nobody /\ Active = {}
  /\ createLock' = r
  /\ Goto(r, "admitting")
  /\ UNCHANGED <<observations, assets, finding, runStatus, snap, outcome, todo, seen, draft,
                 published, opRow, faultVars>>

InsertRun(r) ==
  /\ pc[r] = "admitting"
  /\ RowLocks \/ ~InTransaction
  /\ runStatus' = [runStatus EXCEPT ![r] = "pending"]
  /\ published' = published \ {r}
  /\ createLock' = IF createLock = r THEN Nobody ELSE createLock
  /\ Goto(r, "created")
  /\ UNCHANGED <<observations, assets, finding, snap, outcome, todo, seen, draft, opRow,
                 faultVars>>

\* execute_run commits the running status before anything is read.
StartRun(r) ==
  /\ pc[r] = "created"
  /\ RowLocks \/ ~InTransaction
  /\ runStatus' = [runStatus EXCEPT ![r] = "running"]
  /\ Goto(r, "running")
  /\ UNCHANGED <<observations, assets, finding, createLock, snap, outcome, todo, seen, draft,
                 published, opRow, faultVars>>

-----------------------------------------------------------------------------
(* build_context: the inventory and the observations are separate statements *)
ReadAssets(r) ==
  /\ pc[r] = "running"
  /\ snap' = [snap EXCEPT ![r].assets = assets]
  /\ Goto(r, "assets_read")
  /\ UNCHANGED <<observations, assets, finding, runStatus, createLock, outcome, todo, seen,
                 draft, published, opRow, faultVars>>

ReadObservations(r) ==
  /\ pc[r] = "assets_read" /\ Len(observations) <= SnapshotLimit
  /\ snap' = [snap EXCEPT ![r].count = Len(observations)]
  /\ Goto(r, "detecting")
  /\ UNCHANGED <<observations, assets, finding, runStatus, createLock, outcome, todo, seen,
                 draft, published, opRow, faultVars>>

\* detect on the snapshot, and what detect together with unevaluated leaves
\* for resolution.
Claims(r, d) ==
  {i \in Issues : DetectorOf[i] = d /\ Verdict(i, snap[r].count) = "shows"}
Resolvable(r, d) ==
  {i \in Issues : /\ DetectorOf[i] = d
                  /\ Verdict(i, snap[r].count) \notin {"shows", "unjudged"}}

\* _check_subject: a claim about an asset the snapshot does not hold fails the
\* detector as a whole.
Validated(r, d) == Claims(r, d) \subseteq snap[r].assets

\* _run_detector for each detector: an exception or refused output is the
\* failure of that detector alone.  Detectors only read the snapshot.
Detect(r, raising) ==
  LET ok == {d \in Detectors \ raising : Validated(r, d)}
  IN /\ pc[r] = "detecting"
     /\ outcome' = [outcome EXCEPT ![r] = [d \in Detectors |-> IF d \in ok THEN "ok" ELSE "failed"]]
     /\ todo' = [todo EXCEPT ![r] = UNION {Claims(r, d) : d \in ok}]
     /\ Goto(r, "storing")
     /\ UNCHANGED <<observations, assets, finding, runStatus, createLock, snap, seen, draft,
                    published, opRow, faultVars>>

-----------------------------------------------------------------------------
(* _store: upsert_finding and attach_evidence, one issue after the other *)
ReadFinding(r, i) ==
  /\ pc[r] = "storing" /\ i \in todo[r] /\ seen[r] = {}
  /\ seen' = [seen EXCEPT ![r] = {[issue |-> i, status |-> finding[i].status]}]
  /\ UNCHANGED <<observations, assets, finding, runStatus, createLock, pc, snap, outcome,
                 todo, draft, published, opRow, faultVars>>

\* A new finding is open, a resolved one is reopened, and the status of any
\* other is not among the columns the UPDATE sets.
Upserted(r, x) ==
  [status |-> IF x.status \in {"absent", "resolved"} THEN "open" ELSE Keep,
   resolvedAt |-> FALSE, evidence |-> {Latest(x.issue, snap[r].count)}]

WriteFinding(r, x) ==
  /\ pc[r] = "storing" /\ x \in seen[r] /\ ~RowLocked(x.issue)
  /\ draft' = [draft EXCEPT ![r][x.issue] = Upserted(r, x)]
  /\ todo' = [todo EXCEPT ![r] = @ \ {x.issue}]
  /\ seen' = [seen EXCEPT ![r] = {}]
  /\ UNCHANGED <<observations, assets, finding, runStatus, createLock, pc, snap, outcome,
                 published, opRow, faultVars>>

-----------------------------------------------------------------------------
(* _resolve and resolve_absent, for the detectors whose coverage is known *)

\* Open findings of a successful detector, evaluated and not reproduced; the
\* ones an operator owns and the resolved ones are left alone.
Candidates(r, covered) ==
  {[issue |-> i, status |-> finding[i].status] :
     i \in {j \in UNION {Resolvable(r, d) : d \in covered} : finding[j].status = "open"}}

ReadCandidates(r, covered) ==
  /\ pc[r] = "storing" /\ todo[r] = {} /\ seen[r] = {}
  /\ \A d \in covered : outcome[r][d] = "ok"
  /\ seen' = [seen EXCEPT ![r] = Candidates(r, covered)]
  /\ Goto(r, "read")
  /\ UNCHANGED <<observations, assets, finding, runStatus, createLock, snap, outcome, todo,
                 draft, published, opRow, faultVars>>

WriteResolved(r) ==
  /\ pc[r] = "read" /\ \A x \in seen[r] : ~RowLocked(x.issue)
  /\ draft' = [draft EXCEPT ![r] =
                 [i \in Issues |-> IF \E x \in seen[r] : x.issue = i
                                   THEN [status |-> "resolved", resolvedAt |-> TRUE,
                                         evidence |-> {}]
                                   ELSE draft[r][i]]]
  /\ seen' = [seen EXCEPT ![r] = {}]
  /\ Goto(r, "written")
  /\ UNCHANGED <<observations, assets, finding, runStatus, createLock, snap, outcome, todo,
                 published, opRow, faultVars>>

-----------------------------------------------------------------------------
(* The end of _perform and the failure paths of execute_run *)
Merged(row, w) ==
  IF w.status = Keep THEN [row EXCEPT !.evidence = @ \cup w.evidence]
  ELSE [status |-> w.status, resolvedAt |-> w.resolvedAt, evidence |-> row.evidence \cup w.evidence]

RunResult(r) ==
  LET failed == {d \in Detectors : outcome[r][d] = "failed"}
  IN IF failed = {} THEN "completed" ELSE IF failed = Detectors THEN "failed" ELSE "partial"

\* The transaction is over and the thread goes on to where.
Left(r, where) ==
  /\ draft' = [draft EXCEPT ![r] = [i \in Issues |-> NoDraft]]
  /\ seen' = [seen EXCEPT ![r] = {}] /\ todo' = [todo EXCEPT ![r] = {}]
  /\ snap' = [snap EXCEPT ![r] = NoSnapshot]
  /\ outcome' = [outcome EXCEPT ![r] = [d \in Detectors |-> "waiting"]]
  /\ Goto(r, where)

\* The evidence files are written, the authority is read again, and findings,
\* run and audit event are committed together.
Commit(r) ==
  /\ pc[r] = "written" /\ actorOK
  /\ finding' = [i \in Issues |-> Merged(finding[i], draft[r][i])]
  /\ runStatus' = [runStatus EXCEPT ![r] = RunResult(r)]
  /\ published' = published \cup {r}

PublishRun(r) ==
  /\ Commit(r) /\ Left(r, "idle")
  /\ UNCHANGED <<observations, assets, createLock, opRow, faultVars>>

\* The commit takes effect and its reply is lost: an exception of _perform.
PublishUnanswered(r) ==
  /\ losses < MaxLosses /\ losses' = losses + 1
  /\ Commit(r) /\ Left(r, "unanswered")
  /\ UNCHANGED <<observations, assets, createLock, opRow, actorOK, crashes>>

\* Mutant: the failure is committed without rolling back what was reconciled.
FailRunKeeping(r) ==
  /\ pc[r] \in {"running", "assets_read", "detecting", "storing", "read", "written", "unanswered"}
  /\ RowLocks \/ ~(\E s \in Runs \ {r}, i \in Issues : draft[s][i] # NoDraft)
  /\ finding' = [i \in Issues |-> Merged(finding[i], draft[r][i])]
  /\ runStatus' = [runStatus EXCEPT ![r] = "failed"]
  /\ Left(r, "idle")
  /\ UNCHANGED <<observations, assets, createLock, published, opRow, faultVars>>

\* SnapshotLimitExceeded, AuthorizationDenied or any other exception: roll back
\* what is not committed and commit the failure.
FailRun(r) ==
  /\ pc[r] \in {"running", "assets_read", "detecting", "storing", "read", "written", "unanswered"}
  /\ RowLocks \/ ~(\E s \in Runs \ {r}, i \in Issues : draft[s][i] # NoDraft)
  /\ runStatus' = [runStatus EXCEPT ![r] = "failed"]
  /\ Left(r, "idle")
  /\ UNCHANGED <<observations, assets, finding, createLock, published, opRow, faultVars>>

\* An exception outside the try, or the failure itself could not be committed:
\* the row stays as it is.
LoseRun(r) ==
  /\ losses < MaxLosses
  /\ pc[r] \in {"created", "running", "assets_read", "detecting", "storing", "read",
                "written", "unanswered"}
  /\ losses' = losses + 1
  /\ Left(r, "idle")
  /\ UNCHANGED <<observations, assets, finding, runStatus, createLock, published, opRow, actorOK,
                 crashes>>

-----------------------------------------------------------------------------
(* set_status: load, with FOR UPDATE where rows have locks, then write back *)
LoadFinding(o, i) ==
  /\ opRow[o] = Idle /\ Stored(i) /\ actorOK
  /\ RowLocks => ~RowLocked(i)
  /\ opRow' = [opRow EXCEPT ![o] = [issue |-> i, status |-> finding[i].status,
                                    resolvedAt |-> finding[i].resolvedAt]]
  /\ UNCHANGED <<observations, assets, finding, runStatus, createLock, runVars, published,
                 faultVars>>

\* Only the columns that differ from the loaded row are written.
Decided(row, x, status) ==
  [row EXCEPT !.status = IF status = x.status THEN @ ELSE status,
              !.resolvedAt = IF status = "open" /\ x.resolvedAt THEN FALSE ELSE @]

SetStatus(o, status) ==
  LET x == opRow[o]
  IN /\ x # Idle /\ actorOK
     /\ RowLocks \/ ~InTransaction
     /\ finding' = [finding EXCEPT ![x.issue] = Decided(@, x, status)]
     /\ opRow' = [opRow EXCEPT ![o] = Idle]
     /\ UNCHANGED <<observations, assets, runStatus, createLock, runVars, published, faultVars>>

GiveUp(o) ==
  /\ opRow[o] # Idle
  /\ opRow' = [opRow EXCEPT ![o] = Idle]
  /\ UNCHANGED <<observations, assets, finding, runStatus, createLock, runVars, published,
                 faultVars>>

-----------------------------------------------------------------------------
Revoke ==
  /\ actorOK /\ actorOK' = FALSE
  /\ UNCHANGED <<observations, assets, finding, runStatus, createLock, runVars, published, opRow,
                 crashes, losses>>

\* The process dies; at startup recover_interrupted_runs ends every active run
\* before a request is served.
Restart ==
  /\ crashes < MaxCrashes /\ crashes' = crashes + 1
  /\ runStatus' = [r \in Runs |-> IF runStatus[r] \in ActiveStatuses THEN "failed"
                                  ELSE runStatus[r]]
  /\ createLock' = Nobody
  /\ pc' = [r \in Runs |-> "idle"]
  /\ snap' = [r \in Runs |-> NoSnapshot]
  /\ outcome' = [r \in Runs |-> [d \in Detectors |-> "waiting"]]
  /\ todo' = [r \in Runs |-> {}] /\ seen' = [r \in Runs |-> {}]
  /\ draft' = [r \in Runs |-> [i \in Issues |-> NoDraft]]
  /\ opRow' = [o \in Operators |-> Idle]
  /\ UNCHANGED <<observations, assets, finding, published, actorOK, losses>>

\* Reads and reconciles until the run ends.
RunStep(r) ==
  \/ InsertRun(r) \/ StartRun(r) \/ ReadAssets(r) \/ ReadObservations(r)
  \/ \E raising \in SUBSET Detectors : Detect(r, raising)
  \/ WriteResolved(r) \/ PublishRun(r) \/ FailRun(r)
  \/ \E i \in Issues : ReadFinding(r, i)
  \/ \E x \in seen[r] : WriteFinding(r, x)
  \/ \E covered \in SUBSET Detectors : ReadCandidates(r, covered)

Next ==
  \/ \E i \in Issues, v \in Verdicts : Publication(i, v)
  \/ \E r \in Runs : CountRuns(r) \/ RunStep(r) \/ PublishUnanswered(r) \/ LoseRun(r)
  \/ \E o \in Operators, i \in Issues : LoadFinding(o, i)
  \/ \E o \in Operators, status \in OPERATOR_STATUSES : SetStatus(o, status)
  \/ \E o \in Operators : GiveUp(o)
  \/ Revoke \/ Restart

Spec == Init /\ [][Next]_vars

\* Request threads are not preempted forever and a transaction does not stay
\* open; nothing is assumed of operators, discovery or restarts.
Fairness ==
  /\ \A r \in Runs : WF_vars(RunStep(r))
  /\ \A o \in Operators : WF_vars(GiveUp(o))

LiveSpec == Spec /\ Fairness

-----------------------------------------------------------------------------
Executing == {"running", "assets_read", "detecting", "storing", "read", "written"}
Reconciling == {"storing", "read", "written"}
FindingRow == [status : FindingStatuses, resolvedAt : BOOLEAN, evidence : SUBSET Nat]
Draft == [status : {Keep, "open", "resolved"}, resolvedAt : BOOLEAN, evidence : SUBSET Nat]
Loaded == [issue : Issues, status : FindingStatuses, resolvedAt : BOOLEAN]

\* The shapes of the rows and of what the threads carry.
TypeOK ==
  /\ observations \in Seq([issue : Issues, verdict : Verdicts])
  /\ assets \subseteq Issues
  /\ finding \in [Issues -> FindingRow]
  /\ runStatus \in [Runs -> RunStatuses]
  /\ createLock \in Runs \cup {Nobody}
  /\ pc \in [Runs -> {"idle", "admitting", "created", "unanswered"} \cup Executing]
  /\ snap \in [Runs -> [assets : SUBSET Issues, count : Nat]]
  /\ outcome \in [Runs -> [Detectors -> {"ok", "failed", "waiting"}]]
  /\ todo \in [Runs -> SUBSET Issues]
  /\ seen \in [Runs -> SUBSET [issue : Issues, status : FindingStatuses]]
  /\ draft \in [Runs -> [Issues -> Draft]]
  /\ published \subseteq Runs
  /\ opRow \in [Operators -> {Idle} \cup Loaded]

\* "A second detection run on the same Dockyard while one is in flight is
\* refused rather than interleaved": the count and the insert are one.
OneActiveRun == Cardinality(Active) <= 1

\* Every stored finding cites an observation that showed the issue, so that a
\* report can carry its evidence (_check_evidence, attach_evidence).
FindingsSupported ==
  \A i \in Issues : Stored(i) =>
    \E k \in finding[i].evidence : observations[k] = [issue |-> i, verdict |-> "shows"]

\* resolved_at is set exactly while a finding that no operator owns is
\* resolved, however upserts, resolutions and decisions interleave.
ResolvedAtAgrees ==
  \A i \in Issues :
    /\ finding[i].status = "open" => ~finding[i].resolvedAt
    /\ finding[i].status = "resolved" => finding[i].resolvedAt

\* Detection keeps the store coherent: one run at a time and evidence under
\* every finding.
FindingsHold == OneActiveRun /\ FindingsSupported

\* The commit of a run that records it as published, with authority, in which the
\* issue's own detector succeeded on a snapshot whose newest observation says v.
PublishedOn(i, v) ==
  \E r \in published' \ published :
    actorOK /\ outcome[r][DetectorOf[i]] = "ok" /\ Verdict(i, snap[r].count) = v

\* A finding appears only by the publication of a run that its detector showed
\* it in and is resolved only by one that cleared it, so that a run that fails
\* before that commit leaves nothing behind; and what a published run
\* reproduced is not left resolved.
ResolvesWhatIsCleared ==
  /\ \A i \in Issues :
       /\ ~Stored(i) /\ Stored(i)' => PublishedOn(i, "shows")
       /\ finding[i].status = "open" /\ finding'[i].status = "resolved" =>
            PublishedOn(i, "clears")
  /\ \A r \in published' \ published, i \in Issues :
       outcome[r][DetectorOf[i]] = "ok" /\ Verdict(i, snap[r].count) = "shows" =>
         finding'[i].status \in OPERATOR_STATUSES
ResolvedOnlyWhenCleared == [][ResolvesWhatIsCleared]_vars

\* "Findings an operator suppressed or accepted are left alone": only an
\* operator takes a finding out of a status an operator gave it.
KeepsDecisions ==
  \A i \in Issues :
    finding[i].status \in OPERATOR_OWNED_STATUSES /\ finding'[i].status # finding[i].status =>
      \E o \in Operators : opRow[o] # Idle /\ opRow'[o] = Idle
OperatorDecisionKept == [][KeepsDecisions]_vars

\* The active runs that no request works on any more.
Orphans == {r \in Active : pc[r] = "idle"}

-----------------------------------------------------------------------------
(* The inductive invariant of the proofs *)

\* Whoever counted still holds the lock and nothing was admitted since; one
\* run is active at a time.
Admission ==
  /\ \A r, s \in Active : r = s
  /\ \A r \in Runs : pc[r] = "admitting" => createLock = r /\ Active = {}

\* Where a request is decides the status of its row, that it is not published
\* yet, and that it has nothing uncommitted outside its transaction.
Flow(r) ==
  /\ pc[r] = "created" => runStatus[r] = "pending"
  /\ pc[r] \in Executing => runStatus[r] = "running"
  /\ pc[r] \in {"created"} \cup Executing => r \notin published
  /\ pc[r] \notin Reconciling => seen[r] = {} /\ draft[r] = [i \in Issues |-> NoDraft]
  /\ pc[r] # "storing" => todo[r] = {}

\* The evidence of a finding was recorded before the snapshot of any run that
\* judges it: no other run publishes meanwhile.
SnapshotCovers(r) ==
  pc[r] \in {"detecting"} \cup Reconciling =>
    /\ snap[r].count <= Len(observations)
    /\ \A i \in Issues : finding[i].evidence \subseteq 1..snap[r].count

Shown(r, i) ==
  outcome[r][DetectorOf[i]] = "ok" /\ Verdict(i, snap[r].count) = "shows"
Cleared(r, i) ==
  /\ outcome[r][DetectorOf[i]] = "ok" /\ Verdict(i, snap[r].count) \notin {"shows", "unjudged"}
  /\ Stored(i)

\* What a run has read was true of the row and, but for an operator's
\* decisions, still is.
SeenTrue(r, x) ==
  /\ pc[r] = "storing" =>
       /\ Shown(r, x.issue)
       /\ x.status \in OPERATOR_STATUSES => finding[x.issue].status \in OPERATOR_STATUSES
  /\ pc[r] = "read" => Cleared(r, x.issue)

\* A draft is nothing, the resolution of a finding that was cleared, or the
\* upsert of one that was shown.
DraftTrue(r, i) ==
  LET w == draft[r][i]
  IN \/ w = NoDraft
     \/ w = [status |-> "resolved", resolvedAt |-> TRUE, evidence |-> {}] /\ Cleared(r, i)
     \/ /\ w.status \in {"open", Keep} /\ ~w.resolvedAt
        /\ w.evidence = {Latest(i, snap[r].count)} /\ Shown(r, i)
        /\ w.status = Keep => finding[i].status \in OPERATOR_STATUSES

\* Each step of the reconciliation finds the work that is left to do.
Reconciled(r) ==
  pc[r] \in Reconciling =>
    /\ \A x \in seen[r] : SeenTrue(r, x)
    /\ \A i \in Issues :
         /\ i \in todo[r] => Shown(r, i)
         /\ DraftTrue(r, i)
         /\ Shown(r, i) => i \in todo[r] \/ draft[r][i].evidence # {}

RunOK(r) == Flow(r) /\ SnapshotCovers(r) /\ Reconciled(r)

\* With row locks, an operator's thread has its row to itself.
OperatorAlone ==
  \A o \in Operators : opRow[o] # Idle =>
    LET x == opRow[o]
    IN /\ x.status = finding[x.issue].status /\ x.resolvedAt = finding[x.issue].resolvedAt
       /\ \A r \in Runs : draft[r][x.issue] = NoDraft
       /\ \A p \in Operators \ {o} : opRow[p].issue # x.issue

\* Evidence is recorded before a finding refers to it.
EvidenceStored == \A i \in Issues : finding[i].evidence \subseteq 1..Len(observations)

\* A thread loads a finding that is stored, and no finding is ever deleted.
LoadedStored == \A o \in Operators : opRow[o] # Idle => Stored(opRow[o].issue)

IInv ==
  /\ TypeOK /\ Admission /\ (\A r \in Runs : RunOK(r))
  /\ EvidenceStored /\ FindingsSupported /\ LoadedStored
  /\ RowLocks => OperatorAlone /\ ResolvedAtAgrees
=============================================================================
