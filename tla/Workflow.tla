------------------------------ MODULE Workflow ------------------------------
(* The workflow components together: detection and its findings, validation, *)
(* intelligence, correlation, reports and lab grants.                        *)
(* They share no state, so interleaving them adds no behaviour to any of     *)
(* them: part is the one that moves, the others stay in their initial state. *)
EXTENDS Integers, FiniteSets, Sequences

CONSTANTS
  Parts, Threads, Nobody, Disabled, MaxCrashes, MaxLosses,
  Issues, Detectors, DetectorOf, Operators, RowLocks, MaxObservations, SnapshotLimit,
  ValidationLimit, MaxScope,
  Providers, Reviewed, MaxRetained, MaxChanges,
  Webs, Hosts, AddressOf, Linked, SubjectOf, Mapped, MaxEdges, MaxGraphs,
  Discoveries, MaxReports, MaxEvidence, MaxPowerLosses, MaxAckLosses,
  Capabilities, Checks, Durations, MaxGrants, CandidateLimit, LabTime

VARIABLES part,
  observations, assets, finding, runStatus, detLock, detPc, snap, outcome, todo, seen, draft,
  detPublished, opRow, detActorOK, detCrashes, detLosses,
  valRuns, valPc, valJob, allowed, inScope, open, valActorOK, valChanges, valCrashes, valLosses,
  advRuns, advLock, advPc, advJob, packet, using, provider, prompt, correlated, supported,
  advActorOK, advChanges, restarts, advLosses,
  inventory, responses, stored, corRuns, corPc, corJob, read, corActorOK, corCrashes, corLosses,
  db, intact, history, report, exports, repLock, repPc, repJob, view, content, repPublished,
  served, repActorOK, faults,
  grants, labLock, labPc, labJob, labEnabled, labActorOK, verdict, floor, labClock, labRestarts

detVars == <<observations, assets, finding, runStatus, detLock, detPc, snap, outcome, todo, seen,
             draft, detPublished, opRow, detActorOK, detCrashes, detLosses>>
valVars == <<valRuns, valPc, valJob, allowed, inScope, open, valActorOK, valChanges, valCrashes,
             valLosses>>
advVars == <<advRuns, advLock, advPc, advJob, packet, using, provider, prompt, correlated,
             supported, advActorOK, advChanges, restarts, advLosses>>
corVars == <<inventory, responses, stored, corRuns, corPc, corJob, read, corActorOK, corCrashes,
             corLosses>>
repVars == <<db, intact, history, report, exports, repLock, repPc, repJob, view, content,
             repPublished, served, repActorOK, faults>>
labVars == <<grants, labLock, labPc, labJob, labEnabled, labActorOK, verdict, floor, labClock,
             labRestarts>>
vars == <<part, detVars, valVars, advVars, corVars, repVars, labVars>>

Detection == INSTANCE Findings WITH
  Runs <- Threads, createLock <- detLock, pc <- detPc, published <- detPublished,
  actorOK <- detActorOK, crashes <- detCrashes, losses <- detLosses

Validation == INSTANCE ValidationRuns WITH
  Limit <- ValidationLimit, runs <- valRuns, pc <- valPc, job <- valJob,
  actorOK <- valActorOK, changes <- valChanges, crashes <- valCrashes, losses <- valLosses

Advice == INSTANCE IntelligenceRuns WITH
  FindingIds <- Reviewed, Limit <- MaxRetained, MaxRestarts <- MaxCrashes, runs <- advRuns,
  createLock <- advLock, pc <- advPc, job <- advJob, actorOK <- advActorOK,
  changes <- advChanges, losses <- advLosses

Correlation == INSTANCE CorrelationRuns WITH
  FindingIds <- Linked, MaxRuns <- MaxGraphs, runs <- corRuns, pc <- corPc, job <- corJob,
  actorOK <- corActorOK, crashes <- corCrashes, losses <- corLosses

Reporting == INSTANCE ReportRuns WITH
  Limit <- MaxReports, lock <- repLock, pc <- repPc, job <- repJob,
  published <- repPublished, actorOK <- repActorOK

Lab == INSTANCE LabGrants WITH
  Runs <- Checks, Limit <- MaxGrants, MaxTime <- LabTime, MaxRestarts <- MaxCrashes,
  lock <- labLock, pc <- labPc, job <- labJob, enabled <- labEnabled, actorOK <- labActorOK,
  clock <- labClock, restarts <- labRestarts

ASSUME WorkflowAssumptions ==
  /\ Detection!FindingsAssumption /\ Validation!ValidationAssumption
  /\ Advice!IntelligenceAssumption /\ Correlation!CorrelationAssumption
  /\ Reporting!ReportAssumption /\ Lab!LabAssumption

Init ==
  /\ part \in Parts
  /\ Detection!Init /\ Validation!Init /\ Advice!Init /\ Correlation!Init
  /\ Reporting!Init /\ Lab!Init
  /\ part # "validation" => inScope
  /\ part # "lab" => labEnabled
  /\ part # "advice" => provider = Disabled /\ correlated = {}

Next ==
  \/ part = "detection" /\ Detection!Next
     /\ UNCHANGED <<part, valVars, advVars, corVars, repVars, labVars>>
  \/ part = "validation" /\ Validation!Next
     /\ UNCHANGED <<part, detVars, advVars, corVars, repVars, labVars>>
  \/ part = "advice" /\ Advice!Next
     /\ UNCHANGED <<part, detVars, valVars, corVars, repVars, labVars>>
  \/ part = "correlation" /\ Correlation!Next
     /\ UNCHANGED <<part, detVars, valVars, advVars, repVars, labVars>>
  \/ part = "reporting" /\ Reporting!Next
     /\ UNCHANGED <<part, detVars, valVars, advVars, corVars, labVars>>
  \/ part = "lab" /\ Lab!Next
     /\ UNCHANGED <<part, detVars, valVars, advVars, corVars, repVars>>

Spec == Init /\ [][Next]_vars

\* The fairness of the part that moves: each thread's own steps, and an
\* operator's request does not keep its row lock for good.
Moves(t) ==
  \/ part = "detection" /\ Detection!RunStep(t)
     /\ UNCHANGED <<part, valVars, advVars, corVars, repVars, labVars>>
  \/ part = "validation" /\ Validation!ThreadStep(t)
     /\ UNCHANGED <<part, detVars, advVars, corVars, repVars, labVars>>
  \/ part = "advice" /\ Advice!ThreadStep(t)
     /\ UNCHANGED <<part, detVars, valVars, corVars, repVars, labVars>>
  \/ part = "correlation" /\ Correlation!ThreadStep(t)
     /\ UNCHANGED <<part, detVars, valVars, advVars, repVars, labVars>>
  \/ part = "reporting" /\ Reporting!ReportStep(t)
     /\ UNCHANGED <<part, detVars, valVars, advVars, corVars, labVars>>

GivesUp(o) == part = "detection" /\ Detection!GiveUp(o)
              /\ UNCHANGED <<part, valVars, advVars, corVars, repVars, labVars>>

LiveSpec == /\ Spec /\ \A o \in Operators : WF_vars(GivesUp(o))
            /\ \A t \in Threads : WF_vars(Moves(t))

-----------------------------------------------------------------------------
(* What is checked.  The components' modules define and explain the parts.   *)

\* A validation row says what happened, and every contact was decided, approved
\* and recorded.
ValidationHonest == part = "validation" => Validation!ValidationHonest

\* Both approval workflows implement ApprovalGate: one approval, one contact.
ApprovedOnce == Validation!ApprovedOnce /\ Advice!ApprovedOnce

\* What was sent is the reviewed packet to the reviewed provider, stored advice
\* is about that packet, and the limits are exact.
IntelligenceHolds == part = "advice" => Advice!IntelligenceHolds

\* A completed graph has everything stored when its run began and nothing that
\* is not stored when it ends, whatever is published between its reads, and
\* gives the reason of every correlation it shows.
GraphsHold == part = "correlation" => Correlation!GraphsHold

\* A completed report shows one state of the database with all its evidence, a
\* failed one leaves no file, and only what was published is served.
ReportsHold == part = "reporting" => Reporting!ReportsHold

\* A capability has one active grant, so that revoking it ends the permission.
LabHolds == part = "lab" => Lab!LabHolds

\* A run under way: with two threads no component has more than two at once.
InFlight(k) ==
  \/ part = "detection" /\ k = 1 /\ Detection!Active # {}
  \/ part = "validation" /\ Validation!InFlight(k)
  \/ part = "advice" /\ Advice!InFlight(k)
  \/ part = "correlation" /\ Correlation!InFlight(k)
  \/ part = "reporting" /\ Reporting!InFlight(k)

\* A row left active by an exception outside every handler: there are never more
\* of them than such exceptions.
Left(k, orphans, losses) == k \in orphans /\ Cardinality(orphans) <= losses
Forgotten(k) ==
  \/ part = "detection" /\ \E r \in Threads : Left(r, Detection!Orphans, detLosses)
  \/ part = "validation" /\ Left(k, Validation!Orphans, valLosses)
  \/ part = "advice" /\ Left(k, Advice!Orphans, advLosses)
  \/ part = "correlation" /\ Left(k, Correlation!Orphans, corLosses)
  \/ part = "reporting" /\ Left(k, Reporting!Orphans, faults.loss)

\* Every run that was admitted ends, by itself or at the next startup, whatever
\* fails or crashes; only an exception that no handler of the request catches
\* leaves its row active, and it leaves no other.
AdmittedRunsEnd == \A k \in 1..2 : InFlight(k) ~> ~InFlight(k) \/ Forgotten(k)
=============================================================================
