----------------------------- MODULE ReportRuns -----------------------------
(***************************************************************************)
(* Reports and DockPacks of one Dockyard (reporting/runner.py): admission  *)
(* under the create lock, the capture inside one isolated transaction, the *)
(* verification of every evidence file, the export files, publication,     *)
(* download, and recovery, while discovery and detection publish, the      *)
(* process crashes and the disk loses files that were never flushed.       *)
(*                                                                         *)
(* A discovery is one evidence record; a claim is a finding that cites it. *)
(***************************************************************************)
EXTENDS Naturals, FiniteSets

CONSTANTS
  Threads,         \* concurrent API requests
  Discoveries,     \* discovery runs, each with one evidence record
  Limit,           \* settings.max_report_runs_per_dockyard
  MaxEvidence,     \* settings.max_report_evidence_files
  MaxCrashes,      \* bound on process crashes
  MaxPowerLosses,  \* bound on power losses
  MaxAckLosses,    \* bound on statements that fail after a commit succeeded
  MaxLosses,       \* bound on exceptions that no handler records
  Nobody

\* What every instance assumes of its constants.
ReportAssumption ==
  /\ {Limit, MaxEvidence, MaxCrashes, MaxPowerLosses, MaxAckLosses, MaxLosses} \subseteq Nat
  /\ Nobody \notin Threads

VARIABLES
  db,        \* committed source state: [active, refs, claims]
  intact,    \* discoveries whose evidence file still has its hash
  history,   \* source states the database has had
  report,    \* ReportRun rows: [status, content]
  exports,   \* export directory of each report: "none", "partial" or "complete"
  lock,      \* _CREATE_LOCK
  pc, job,   \* where each thread is, and the row it works on
  view,      \* the snapshot of a thread's transaction
  content,   \* what a thread has captured
  published, \* reports with a committed REPORT_PUBLISH event
  served,    \* reports admitted for download
  actorOK, faults

sourceVars == <<db, intact, history>>
threadVars == <<lock, pc, job, view, content>>
rowVars == <<report, exports, published, served>>
vars == <<sourceVars, rowVars, threadVars, actorOK, faults>>

-----------------------------------------------------------------------------
NoSource == [active |-> {}, refs |-> {}, claims |-> {}]
NoContent == [refs |-> {}, claims |-> {}, files |-> {}]
NoReport == [status |-> "none", content |-> NoContent]
StateOf(x) == [refs |-> x.refs, claims |-> x.claims]
Reports == 1 .. (Limit + 1)
Rows == {r \in Reports : report[r].status # "none"}

Init ==
  /\ db = NoSource /\ intact = {} /\ history = {StateOf(NoSource)}
  /\ report = [r \in Reports |-> NoReport]
  /\ exports = [r \in Reports |-> "none"]
  /\ lock = Nobody
  /\ pc = [t \in Threads |-> "idle"] /\ job = [t \in Threads |-> Nobody]
  /\ view = [t \in Threads |-> NoSource] /\ content = [t \in Threads |-> NoContent]
  /\ published = {} /\ served = {}
  /\ actorOK = TRUE
  /\ faults = [crash |-> 0, power |-> 0, ack |-> 0, loss |-> 0]

Goto(t, where) == pc' = [pc EXCEPT ![t] = where]
Fault(kind, bound) == faults[kind] < bound /\ faults' = [faults EXCEPT ![kind] = @ + 1]
Ended(t) ==
  /\ Goto(t, "idle") /\ job' = [job EXCEPT ![t] = Nobody]
  /\ view' = [view EXCEPT ![t] = NoSource] /\ content' = [content EXCEPT ![t] = NoContent]
  /\ lock' = IF lock = t THEN Nobody ELSE lock

-----------------------------------------------------------------------------
(* The sources: a discovery runs and publishes, a detection adds claims *)
Commit(next) == db' = next /\ history' = history \cup {StateOf(next)}

StartDiscovery(d) ==
  /\ d \notin db.refs \cup db.active
  /\ Commit([db EXCEPT !.active = @ \cup {d}])
  /\ UNCHANGED <<intact, rowVars, threadVars, actorOK, faults>>

PublishDiscovery(d) ==
  /\ d \in db.active
  /\ Commit([db EXCEPT !.active = @ \ {d}, !.refs = @ \cup {d}])
  /\ intact' = intact \cup {d}
  /\ UNCHANGED <<rowVars, threadVars, actorOK, faults>>

PublishFinding(d) ==
  /\ d \in db.refs \ db.claims
  /\ Commit([db EXCEPT !.claims = @ \cup {d}])
  /\ UNCHANGED <<intact, rowVars, threadVars, actorOK, faults>>

-----------------------------------------------------------------------------
(* start_report *)

ReportRoom == Cardinality(Rows) < Limit

Admit(t) ==
  /\ pc[t] = "idle" /\ lock = Nobody /\ actorOK
  /\ ReportRoom /\ db.active = {} /\ db.refs # {}
  /\ lock' = t
  /\ Goto(t, "admitted")
  /\ UNCHANGED <<sourceVars, rowVars, job, view, content, actorOK, faults>>

\* The running row and its event.
InsertRun(t) ==
  /\ pc[t] = "admitted" /\ actorOK
  /\ LET r == Cardinality(Rows) + 1
     IN /\ report' = [report EXCEPT ![r].status = "running"]
        /\ job' = [job EXCEPT ![t] = r]
  /\ Goto(t, "inserted")
  /\ UNCHANGED <<sourceVars, exports, published, served, lock, view, content, actorOK, faults>>

\* REPEATABLE READ, or BEGIN IMMEDIATE: one database state for every query.
BeginCapture(t) ==
  /\ pc[t] = "inserted"
  /\ view' = [view EXCEPT ![t] = db]
  /\ Goto(t, "capturing")
  /\ UNCHANGED <<sourceVars, rowVars, lock, job, content, actorOK, faults>>

\* Mutant: every statement sees what is committed when it starts.
VisibleNow(t) == db

Visible(t) == view[t]

\* _verify_artifacts: every referenced file still has its retained hash.
Verified(refs) == refs \subseteq intact

\* _reject_active_sources, _artifact_references, _verify_artifacts.
CaptureFiles(t) ==
  LET refs == Visible(t).refs
  IN /\ pc[t] = "capturing"
     /\ Visible(t).active = {} /\ refs # {} /\ Cardinality(refs) <= MaxEvidence
     /\ Verified(refs)
     /\ content' = [content EXCEPT ![t].refs = refs, ![t].files = refs \cap intact]
     /\ Goto(t, "files")
     /\ UNCHANGED <<sourceVars, rowVars, lock, job, view, actorOK, faults>>

\* _enrich_manifest: a claim without its evidence in the pack ends the report.
Enrichable(claims, refs) == claims \subseteq refs

\* _snapshot and _enrich_manifest, then the end of the transaction.
CaptureRows(t) ==
  /\ pc[t] = "files"
  /\ Enrichable(Visible(t).claims, content[t].refs)
  /\ content' = [content EXCEPT ![t].claims = Visible(t).claims]
  /\ Goto(t, "captured")
  /\ UNCHANGED <<sourceVars, rowVars, lock, job, view, actorOK, faults>>

\* The snapshot, both reports, the manifest and the DockPack, file by file.
WriteExports(t) ==
  /\ \/ pc[t] = "captured" /\ exports' = [exports EXCEPT ![job[t]] = "partial"]
        /\ Goto(t, "writing")
     \/ pc[t] = "writing" /\ exports' = [exports EXCEPT ![job[t]] = "complete"]
        /\ Goto(t, "written")
  /\ UNCHANGED <<sourceVars, report, published, served, lock, job, view, content, actorOK,
                 faults>>

\* The hashes, the completed status, the actor again and the event.
Publish(t) ==
  /\ pc[t] = "written" /\ actorOK
  /\ report' = [report EXCEPT ![job[t]] = [status |-> "completed", content |-> content[t]]]
  /\ published' = published \cup {job[t]}
  /\ Goto(t, "published")
  /\ UNCHANGED <<sourceVars, exports, served, lock, job, view, content, actorOK, faults>>

Return(t) ==
  /\ pc[t] = "published"
  /\ Ended(t)
  /\ UNCHANGED <<sourceVars, rowVars, actorOK, faults>>

\* A request refused before its row exists leaves nothing.
Refuse(t) ==
  /\ pc[t] = "admitted" /\ ~actorOK
  /\ Ended(t)
  /\ UNCHANGED <<sourceVars, rowVars, actorOK, faults>>

\* _remove_partial_report
Removed(r) == [exports EXCEPT ![r] = "none"]

\* Any exception from the capture on: roll back and remove the directory.
Abort(t) ==
  /\ pc[t] \in {"capturing", "files", "captured", "writing", "written"}
  /\ exports' = Removed(job[t])
  /\ Goto(t, "failing")
  /\ UNCHANGED <<sourceVars, report, published, served, lock, job, view, content, actorOK,
                 faults>>

\* The refresh after the publishing commit fails: the same handler runs.
AbortAfterCommit(t) ==
  /\ pc[t] = "published" /\ Fault("ack", MaxAckLosses)
  /\ exports' = Removed(job[t])
  /\ Goto(t, "failing")
  /\ UNCHANGED <<sourceVars, report, published, served, lock, job, view, content, actorOK>>

RecordFailure(t) ==
  /\ pc[t] = "failing"
  /\ report' = [report EXCEPT ![job[t]] = [status |-> "failed", content |-> NoContent]]
  /\ Ended(t)
  /\ UNCHANGED <<sourceVars, exports, published, served, actorOK, faults>>

\* An exception outside the try, from the refresh after the insertion or from
\* the start of the capturing transaction, or a failure that cannot be
\* committed: the request ends and the row keeps its status.
Lose(t) ==
  /\ pc[t] \in {"inserted", "failing"} /\ Fault("loss", MaxLosses)
  /\ Ended(t)
  /\ UNCHANGED <<sourceVars, rowVars, actorOK>>

-----------------------------------------------------------------------------
\* artifact_path: a completed report whose file still has its hash.
Available(r) == report[r].status = "completed" /\ exports[r] = "complete"

\* authorized_artifact
Export(r) ==
  /\ actorOK /\ Available(r)
  /\ served' = served \cup {r}
  /\ UNCHANGED <<sourceVars, report, exports, published, threadVars, actorOK, faults>>

RecoveredExports(r) == IF report[r].status = "running" THEN "none" ELSE exports[r]

\* The process stops; recover_interrupted_runs runs before the next request.
\* Losing power can also lose files that were written and never flushed.
Stop(lostEvidence, lostExports) ==
  /\ exports' = [r \in Reports |-> IF r \in lostExports THEN "none" ELSE RecoveredExports(r)]
  /\ intact' = intact \ lostEvidence
  /\ report' = [r \in Reports |-> IF report[r].status = "running"
                                  THEN [status |-> "failed", content |-> NoContent]
                                  ELSE report[r]]
  /\ Commit([db EXCEPT !.active = {}])
  /\ lock' = Nobody
  /\ pc' = [t \in Threads |-> "idle"] /\ job' = [t \in Threads |-> Nobody]
  /\ view' = [t \in Threads |-> NoSource] /\ content' = [t \in Threads |-> NoContent]
  /\ UNCHANGED <<published, served, actorOK>>

Crash == Fault("crash", MaxCrashes) /\ Stop({}, {})
PowerLoss == /\ Fault("power", MaxPowerLosses)
             /\ \E evidence \in SUBSET intact, lost \in SUBSET Reports : Stop(evidence, lost)

Revoke == actorOK /\ actorOK' = FALSE /\ UNCHANGED <<sourceVars, rowVars, threadVars, faults>>

ReportStep(t) ==
  \/ InsertRun(t) \/ BeginCapture(t) \/ CaptureFiles(t) \/ CaptureRows(t) \/ WriteExports(t)
  \/ Publish(t) \/ Return(t) \/ Refuse(t) \/ Abort(t) \/ RecordFailure(t)

Next ==
  \/ \E d \in Discoveries : StartDiscovery(d) \/ PublishDiscovery(d) \/ PublishFinding(d)
  \/ \E t \in Threads : Admit(t) \/ ReportStep(t) \/ AbortAfterCommit(t) \/ Lose(t)
  \/ \E r \in Reports : Export(r)
  \/ Crash \/ PowerLoss \/ Revoke

Spec == Init /\ [][Next]_vars

\* The request that reports keeps running; sources and operators need not.
Fairness == \A t \in Threads : WF_vars(ReportStep(t))

LiveSpec == Spec /\ Fairness

-----------------------------------------------------------------------------
\* Shapes, one reporter at a time, and content only in completed reports.
TypeOK ==
  /\ intact \subseteq Discoveries /\ db.claims \subseteq db.refs
  /\ \A r \in Reports : /\ report[r].status \in {"none", "running", "completed", "failed"}
                        /\ report[r].status # "completed" => report[r].content = NoContent
  /\ \A t \in Threads : pc[t] # "idle" <=> lock = t

\* "All source queries share one database snapshot": what a completed report
\* says of evidence and findings was true of the database at one moment.
ReportIsOneState ==
  \A r \in Reports : report[r].status = "completed" => StateOf(report[r].content) \in history

\* "Fails closed rather than silently omitting": a pack holds verified bytes of
\* every reference, within the limit, and the evidence of every claim.
PackComplete ==
  \A r \in Reports : report[r].status = "completed" =>
    /\ report[r].content.files = report[r].content.refs
    /\ report[r].content.claims \subseteq report[r].content.refs
    /\ Cardinality(report[r].content.refs) <= MaxEvidence

\* A failed report leaves no export behind, and the rows stay within the limit.
FailureLeavesNothing ==
  /\ \A r \in Reports : report[r].status = "failed" => exports[r] = "none"
  /\ Cardinality(Rows) <= Limit

\* Only a report that was published with its audit event is ever served.
ServedWasPublished == served \subseteq published

\* A completed report is one whole, verified database state.
ReportsWhole == ReportIsOneState /\ PackComplete

\* What failed is gone and what is served was published.
ExportsHold == FailureLeavesNothing /\ ServedWasPublished

\* Both: the rows, the exports and what was served tell the same story.
ReportsHold == ReportsWhole /\ ExportsHold

\* A report under way, and those that no request works on any more.
InFlight(r) == report[r].status = "running"
Orphans == {r \in Reports : InFlight(r) /\ \A t \in Threads : job[t] # r}

-----------------------------------------------------------------------------
(* The inductive invariant *)

Source == [active : SUBSET Discoveries, refs : SUBSET Discoveries, claims : SUBSET Discoveries]
Content == [refs : SUBSET Discoveries, claims : SUBSET Discoveries, files : SUBSET Discoveries]
Statuses == {"none", "running", "completed", "failed"}
Capturing == {"capturing", "files", "captured", "writing", "written"}
Locations == {"idle", "admitted", "inserted", "published", "failing"} \cup Capturing

Typed ==
  /\ db \in Source /\ report \in [Reports -> [status : Statuses, content : Content]]
  /\ exports \in [Reports -> {"none", "partial", "complete"}]
  /\ lock \in Threads \cup {Nobody} /\ pc \in [Threads -> Locations]
  /\ job \in [Threads -> Reports \cup {Nobody}]
  /\ view \in [Threads -> Source] /\ content \in [Threads -> Content]

\* Identifiers are given in order, so that a new row is a new row.
RowsInOrder == \E n \in 0..Limit : Rows = 1..n

Whole(pack) == /\ pack.files = pack.refs /\ pack.claims \subseteq pack.refs
               /\ Cardinality(pack.refs) <= MaxEvidence
RowHonest(r) ==
  /\ report[r].status = "completed" =>
       r \in published /\ StateOf(report[r].content) \in history /\ Whole(report[r].content)
  /\ report[r].status = "failed" => exports[r] = "none"

\* How far a report's request is, its row, and what it captured until then.
AtWork(t) ==
  /\ pc[t] = "admitted" => ReportRoom
  /\ pc[t] \notin {"idle", "admitted"} => job[t] \in Rows
  /\ pc[t] \in Capturing \cup {"inserted"} => report[job[t]].status = "running"
  /\ pc[t] = "failing" => exports[job[t]] = "none"
  /\ pc[t] \in Capturing => StateOf(view[t]) \in history
  /\ pc[t] \in Capturing \ {"capturing"} =>
       /\ content[t].refs = view[t].refs /\ content[t].files = content[t].refs
       /\ Cardinality(content[t].refs) <= MaxEvidence
  /\ pc[t] \in {"captured", "writing", "written"} =>
       content[t].claims = view[t].claims /\ content[t].claims \subseteq content[t].refs

IInv ==
  /\ Typed /\ TypeOK /\ RowsInOrder /\ served \subseteq published /\ StateOf(db) \in history
  /\ \A r \in Reports : RowHonest(r)
  /\ \A t \in Threads : AtWork(t)
=============================================================================
