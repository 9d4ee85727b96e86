---------------------------- MODULE DiscoveryRuns ----------------------------
(***************************************************************************)
(* The life of a discovery run: admission by the request handler           *)
(* (api.start_discovery, runner.create_run), execution on the application- *)
(* owned thread pool (runner.execute_run), scope changes made meanwhile    *)
(* (services.add_scope_entry, remove_scope_entry), the drain at shutdown   *)
(* and the recovery at startup.  A run identifier stands for one request,  *)
(* the handler thread that serves it and the worker thread that executes   *)
(* it; pc[r] is where that thread is.                                      *)
(***************************************************************************)
EXTENDS DockGuard, Naturals, FiniteSets

CONSTANTS
  Runs,           \* run identifiers
  Yards,          \* Dockyards
  Requests,       \* [yard, target, profile] records a client may post
  Entries,        \* scope rules an operator may add
  Answers,        \* what one DNS lookup may return, {} for a failed one
  MaxConcurrent,  \* settings.max_concurrent_runs, also the pool's size
  MaxRuns,        \* settings.max_discovery_runs_per_dockyard
  MaxEntries,     \* settings.max_scope_entries
  MaxCrashes,     \* bound on process crashes
  AckLoss,        \* a commit may take effect and still raise (lost reply)
  Nobody          \* a lock nobody holds

ASSUME RunsAssumption == IsFiniteSet(Runs) /\ Nobody \notin Runs
ASSUME BoundsAssumption ==
  /\ MaxConcurrent \in Nat \ {0} /\ MaxRuns \in Nat /\ MaxEntries \in Nat
  /\ MaxCrashes \in Nat /\ AckLoss \in BOOLEAN
ASSUME RequestsAssumption ==
  \A q \in Requests : /\ q.yard \in Yards /\ q.profile \in {"safe", "http", "lab"}
                       /\ WellFormed(q.target)
ASSUME EntriesAssumption ==
  \A x \in Entries : WellFormed(x.target) /\ AcceptableScopeValue(x.target, {})
ASSUME AnswersAssumption == {} \in Answers

VARIABLES
  request,        \* what is asked under each run identifier, an input
  scope,          \* ScopeEntry rows of each Dockyard
  status,         \* DiscoveryRun.status, "none" while there is no row
  audit,          \* committed audit events about each run
  files,          \* evidence files written for each run
  contacted,      \* the adapter was started for the run
  pc, eval,       \* each thread's position and the evaluation it works from
  actorOK,        \* the requester may still run workflows
  grant,          \* the Dockyard has an active, unexpired lab authorization
  admissionLock, scopeLock,
  process, crashes

database == <<scope, status, audit, actorOK, grant>>
vars == <<request, scope, status, audit, files, contacted, pc, eval, actorOK,
          grant, admissionLock, scopeLock, process, crashes>>

-----------------------------------------------------------------------------
ActiveStatuses == {"pending", "running"}
TerminalStatuses == {"completed", "denied", "failed"}
EvidenceFiles == 3                    \* raw output, normalized.json, metadata.json
AuditKinds == {"request_admitted", "request_denied", "execute_admitted",
               "execute_denied", "lab_allowed", "lab_denied"}

HandlerPC == {"arrived", "admitting", "denying", "admitted"}
ClaimedPC == {"claimed", "authorized", "evaluated", "gated", "cleared",
              "inflight", "returned", "publishing"}
WorkerPC == ClaimedPC \cup {"queued", "failing", "detached"}
\* The thread ended and left its row active: after the admission was committed,
\* at the claim, or because the failure could not be written.
ForgottenPC == {"orphaned", "abandoned", "lost"}
EndedPC == {"idle", "done"} \cup ForgottenPC

Evaluations == [decision : Decisions, resolved : SUBSET UNION Answers,
                excluded : SUBSET {x.target : x \in Entries}]

ActiveRuns == {r \in Runs : status[r] \in ActiveStatuses}
History(d) == {r \in Runs : status[r] # "none" /\ request[r].yard = d}
Rules(r) == scope[request[r].yard]
Target(r) == request[r].target
IsLab(r) == request[r].profile = "lab"
Alive == process \in {"serving", "closing"}

Supports(r) == (request[r].profile = "http") = (Target(r).kind = "url")

\* Only the lab profile is single_host_only.
SingleHostDenial(r, e) ==
  /\ IsLab(r)
  /\ \/ IsNetwork(Target(r))
     \/ IsNamed(Target(r)) /\ Cardinality(e.resolved) # 1

Init ==
  /\ request \in [Runs -> Requests]
  /\ scope = [d \in Yards |-> {}]
  /\ status = [r \in Runs |-> "none"]
  /\ audit = [r \in Runs |-> {}]
  /\ files = [r \in Runs |-> 0]
  /\ contacted = [r \in Runs |-> FALSE]
  /\ pc = [r \in Runs |-> "idle"]
  /\ eval = [r \in Runs |-> Refused("unresolved")]
  /\ actorOK = TRUE
  /\ grant = [d \in Yards |-> FALSE]
  /\ admissionLock = Nobody
  /\ scopeLock = Nobody
  /\ process = "serving"
  /\ crashes = 0

-----------------------------------------------------------------------------
(* The request handler: api.start_discovery and runner.create_run *)

\* request_discovery_runtime: a closed pool answers 503 before anything else.
Arrive(r) ==
  /\ process = "serving" /\ pc[r] = "idle"
  /\ pc' = [pc EXCEPT ![r] = "arrived"]
  /\ UNCHANGED <<request, files, contacted, eval, admissionLock, scopeLock,
                 process, crashes, database>>

\* Mutant: the history limit is off by one.
RejectedOffByOne(r, e) ==
  \/ ~actorOK
  \/ Cardinality(History(request[r].yard)) > MaxRuns
  \/ Allowed(e) /\ ~IsLab(r) /\ (~Supports(r) \/ Cardinality(ActiveRuns) >= MaxConcurrent)

\* AuthorizationDenied, the history cap, and the limits that reject a request
\* of an ordinary profile but record one of a lab profile as denied.
Rejected(r, e) ==
  \/ ~actorOK
  \/ Cardinality(History(request[r].yard)) >= MaxRuns
  \/ Allowed(e) /\ ~IsLab(r) /\ (~Supports(r) \/ Cardinality(ActiveRuns) >= MaxConcurrent)

Admissible(r, e) ==
  /\ Allowed(e) /\ Supports(r) /\ ~SingleHostDenial(r, e)
  /\ Cardinality(ActiveRuns) < MaxConcurrent

\* Mutant: the counts are read without the admission lock.
CheckRequestUnlocked(r, answer) ==
  LET e == Evaluate(Target(r), Rules(r), answer)
  IN /\ Alive /\ pc[r] = "arrived"
     /\ pc' = [pc EXCEPT ![r] = IF Rejected(r, e) THEN "idle"
                                ELSE IF Admissible(r, e) THEN "admitting" ELSE "denying"]
     /\ UNCHANGED <<request, files, contacted, eval, admissionLock, scopeLock, process,
                    crashes, database>>

\* The reads of _create_run, made holding _admission_lock.
CheckRequest(r, answer) ==
  LET e == Evaluate(Target(r), Rules(r), answer)
  IN /\ Alive /\ pc[r] = "arrived" /\ admissionLock = Nobody
     /\ IF Rejected(r, e)
        THEN pc' = [pc EXCEPT ![r] = "idle"] /\ UNCHANGED admissionLock
        ELSE /\ pc' = [pc EXCEPT ![r] = IF Admissible(r, e) THEN "admitting"
                                        ELSE "denying"]
             /\ admissionLock' = r
     /\ UNCHANGED <<request, files, contacted, eval, scopeLock, process, crashes, database>>

\* The row, the lab decision and the audit receipt are one transaction.
CommitAdmission(r) ==
  LET refused == IsLab(r) /\ ~grant[request[r].yard]
  IN /\ Alive /\ pc[r] = "admitting"
     /\ status' = [status EXCEPT ![r] = IF refused THEN "denied" ELSE "pending"]
     /\ audit' = [audit EXCEPT ![r] = @ \cup
          (IF refused THEN {"lab_denied", "request_denied"}
           ELSE {"request_admitted"} \cup (IF IsLab(r) THEN {"lab_allowed"} ELSE {}))]
     /\ pc' = [pc EXCEPT ![r] = IF refused THEN "done" ELSE "admitted"]
     /\ admissionLock' = Nobody
     /\ UNCHANGED <<request, scope, files, contacted, eval, actorOK, grant, scopeLock,
                    process, crashes>>

CommitDenial(r) ==
  /\ Alive /\ pc[r] = "denying"
  /\ status' = [status EXCEPT ![r] = "denied"]
  /\ audit' = [audit EXCEPT ![r] = @ \cup {"request_denied"} \cup
       (IF IsLab(r) THEN {"lab_denied"} ELSE {})]
  /\ pc' = [pc EXCEPT ![r] = "done"]
  /\ admissionLock' = Nobody
  /\ UNCHANGED <<request, scope, files, contacted, eval, actorOK, grant, scopeLock,
                 process, crashes>>

\* An exception inside _create_run rolls the whole admission back.
AdmissionRaises(r) ==
  /\ Alive /\ pc[r] \in {"admitting", "denying"}
  /\ pc' = [pc EXCEPT ![r] = "idle"]
  /\ admissionLock' = Nobody
  /\ UNCHANGED <<request, files, contacted, eval, scopeLock, process, crashes, database>>

\* The refresh after the commit or the handler before the submission raises: the
\* handler only catches refusals, so the row stays pending without a thread.
HandlerRaises(r) ==
  /\ Alive /\ pc[r] = "admitted"
  /\ pc' = [pc EXCEPT ![r] = "orphaned"]
  /\ UNCHANGED <<request, files, contacted, eval, admissionLock, scopeLock, process,
                 crashes, database>>

Submit(r) ==
  /\ process = "serving" /\ pc[r] = "admitted"
  /\ pc' = [pc EXCEPT ![r] = "queued"]
  /\ UNCHANGED <<request, files, contacted, eval, admissionLock, scopeLock,
                 process, crashes, database>>

\* Mutant: the handler answers 503 and forgets the row it admitted.
SubmitRefusedForgets(r) ==
  /\ process = "closing" /\ pc[r] = "admitted"
  /\ pc' = [pc EXCEPT ![r] = "done"]
  /\ UNCHANGED <<request, files, contacted, eval, admissionLock, scopeLock, process,
                 crashes, database>>

\* DiscoveryUnavailable: the handler itself records the failure, or cannot.
SubmitRefused(r) ==
  /\ process = "closing" /\ pc[r] = "admitted"
  /\ \/ /\ status' = [status EXCEPT ![r] = "failed"]
        /\ pc' = [pc EXCEPT ![r] = "done"]
     \/ /\ pc' = [pc EXCEPT ![r] = "lost"]
        /\ UNCHANGED status
  /\ UNCHANGED <<request, scope, audit, files, contacted, eval, actorOK, grant,
                 admissionLock, scopeLock, process, crashes>>

-----------------------------------------------------------------------------
(* The worker: runner.execute_run *)

\* Where a thread may be after a commit that ends its run.
AfterCommit == IF AckLoss THEN {"done", "failing"} ELSE {"done"}

Step(r, from, to) == Alive /\ pc[r] = from /\ pc' = [pc EXCEPT ![r] = to]

\* A committed denial ends the run; kinds are the audit events in that commit.
Deny(r, kinds) ==
  /\ status' = [status EXCEPT ![r] = "denied"]
  /\ audit' = [audit EXCEPT ![r] = @ \cup kinds]
  /\ \E where \in AfterCommit : pc' = [pc EXCEPT ![r] = where]
  /\ UNCHANGED <<request, scope, files, contacted, actorOK, grant, admissionLock,
                 process, crashes>>

\* Compare-and-set pending -> running on one of the pool's threads.
Claim(r) ==
  /\ Step(r, "queued", "claimed")
  /\ Cardinality({x \in Runs : pc[x] \in WorkerPC \ {"queued"}}) < MaxConcurrent
  /\ status[r] = "pending"
  /\ status' = [status EXCEPT ![r] = "running"]
  /\ UNCHANGED <<request, scope, audit, files, contacted, eval, actorOK, grant,
                 admissionLock, scopeLock, process, crashes>>

\* Opening the session or reading the row raises: execute_run detaches.
OpenRaises(r) ==
  /\ Step(r, "queued", "detached")
  /\ UNCHANGED <<request, files, contacted, eval, admissionLock, scopeLock,
                 process, crashes, database>>

\* The claim itself raises: owns_claim is still False, so nothing but a
\* rollback follows and execute_run sees no exception.
ClaimRaises(r) ==
  /\ Step(r, "queued", "abandoned")
  /\ \/ UNCHANGED status
     \/ AckLoss /\ status' = [status EXCEPT ![r] = "running"]
  /\ UNCHANGED <<request, scope, audit, files, contacted, eval, actorOK, grant,
                 admissionLock, scopeLock, process, crashes>>

Authorized(r) == "request_admitted" \in audit[r] /\ actorOK

AuthorizeClaim(r) ==
  /\ Alive /\ pc[r] = "claimed"
  /\ IF Authorized(r)
     THEN /\ pc' = [pc EXCEPT ![r] = "authorized"]
          /\ UNCHANGED <<request, files, contacted, admissionLock, process, crashes, database>>
     ELSE Deny(r, {"execute_denied"})
  /\ UNCHANGED <<eval, scopeLock>>

\* A fresh lookup and the current scope; the lab profile's one-host limit.
EvaluateScope(r, answer) ==
  LET e == Evaluate(Target(r), Rules(r), answer)
  IN /\ Alive /\ pc[r] = "authorized"
     /\ eval' = [eval EXCEPT ![r] = e]
     /\ IF Allowed(e) /\ ~SingleHostDenial(r, e)
        THEN /\ pc' = [pc EXCEPT ![r] = "evaluated"]
             /\ UNCHANGED <<request, files, contacted, admissionLock, process, crashes, database>>
        ELSE Deny(r, IF IsLab(r) THEN {"lab_denied"} ELSE {})
     /\ UNCHANGED scopeLock

CheckCapability(r) ==
  /\ Alive /\ pc[r] = "evaluated"
  /\ IF IsLab(r) /\ ~grant[request[r].yard]
     THEN Deny(r, {"lab_denied"})
     ELSE /\ pc' = [pc EXCEPT ![r] = "gated"]
          /\ UNCHANGED <<request, files, contacted, admissionLock, process, crashes, database>>
  /\ UNCHANGED <<eval, scopeLock>>

\* The last check before contact, committed together with the audit events.
AuthorizeContact(r) ==
  /\ Alive /\ pc[r] = "gated"
  /\ IF status[r] # "running"
     THEN /\ pc' = [pc EXCEPT ![r] = "done"]
          /\ UNCHANGED <<request, files, contacted, admissionLock, process, crashes, database>>
     ELSE IF ~Authorized(r)
     THEN Deny(r, {"execute_denied"} \cup (IF IsLab(r) THEN {"lab_allowed"} ELSE {}))
     ELSE /\ pc' = [pc EXCEPT ![r] = "cleared"]
          /\ audit' = [audit EXCEPT ![r] = @ \cup {"execute_admitted"} \cup
               (IF IsLab(r) THEN {"lab_allowed"} ELSE {})]
          /\ UNCHANGED <<request, scope, status, files, contacted, actorOK, grant,
                         admissionLock, process, crashes>>
  /\ UNCHANGED <<eval, scopeLock>>

\* Mutant: the adapter starts before the final authorization is committed.
ContactEarly(r) ==
  /\ Step(r, "gated", "inflight")
  /\ contacted' = [contacted EXCEPT ![r] = TRUE]
  /\ UNCHANGED <<request, files, eval, admissionLock, scopeLock, process, crashes, database>>

\* nmap does not accept a URL among its --exclude values: that run raises.
AcceptedExclusions(r) == \A x \in eval[r].excluded : x.kind # "url"

Contact(r) ==
  /\ Step(r, "cleared", "inflight")
  /\ AcceptedExclusions(r)
  /\ contacted' = [contacted EXCEPT ![r] = TRUE]
  /\ UNCHANGED <<request, files, eval, admissionLock, scopeLock, process, crashes, database>>

AdapterReturns(r) ==
  /\ Step(r, "inflight", "returned")
  /\ UNCHANGED <<request, files, contacted, eval, admissionLock, scopeLock,
                 process, crashes, database>>

\* Mutant: only the decision is compared, not the excluded networks.
DecisionStillAllowed(r) == Allowed(Evaluate(Target(r), Rules(r), eval[r].resolved))

\* The scanned addresses, pinned, against the scope as it is now.
StillInScope(r) ==
  LET recheck == Evaluate(Target(r), Rules(r), eval[r].resolved)
  IN  Allowed(recheck) /\ recheck.excluded \subseteq eval[r].excluded

Recheck(r) ==
  /\ Alive /\ pc[r] = "returned" /\ scopeLock = Nobody
  /\ IF StillInScope(r)
     THEN /\ pc' = [pc EXCEPT ![r] = "publishing"]
          /\ scopeLock' = r
          /\ UNCHANGED <<request, files, contacted, admissionLock, process, crashes, database>>
     ELSE Deny(r, {}) /\ UNCHANGED scopeLock
  /\ UNCHANGED eval

\* Mutant: a file that was written is written again.
StoreFileAgain(r) ==
  /\ Step(r, "publishing", "publishing")
  /\ files' = [files EXCEPT ![r] = @ + 1]
  /\ UNCHANGED <<request, contacted, eval, admissionLock, scopeLock, process,
                 crashes, database>>

StoreFile(r) ==
  /\ Step(r, "publishing", "publishing")
  /\ files[r] < EvidenceFiles
  /\ files' = [files EXCEPT ![r] = @ + 1]
  /\ UNCHANGED <<request, contacted, eval, admissionLock, scopeLock, process,
                 crashes, database>>

\* Mutant: the status is committed before the evidence is written.
PublishEarly(r) ==
  /\ Alive /\ pc[r] = "publishing"
  /\ status' = [status EXCEPT ![r] = "completed"]
  /\ pc' = [pc EXCEPT ![r] = "done"]
  /\ scopeLock' = Nobody
  /\ UNCHANGED <<request, scope, audit, files, contacted, eval, actorOK, grant,
                 admissionLock, process, crashes>>

\* Inventory, observations, evidence rows and the status are one transaction.
Publish(r) ==
  /\ Alive /\ pc[r] = "publishing" /\ files[r] = EvidenceFiles
  /\ status' = [status EXCEPT ![r] = "completed"]
  /\ \E where \in AfterCommit : pc' = [pc EXCEPT ![r] = where]
  /\ scopeLock' = Nobody
  /\ UNCHANGED <<request, scope, audit, files, contacted, eval, actorOK, grant,
                 admissionLock, process, crashes>>

\* Mutant: an exception while publishing leaves the scope lock held.
RaiseKeepsLock(r) ==
  /\ Alive /\ pc[r] \in ClaimedPC
  /\ pc' = [pc EXCEPT ![r] = "failing"]
  /\ UNCHANGED <<request, files, contacted, eval, admissionLock, scopeLock, process,
                 crashes, database>>

\* AdapterError, or any exception after the claim; a held lock is released.
Raise(r) ==
  /\ Alive /\ pc[r] \in ClaimedPC
  /\ pc' = [pc EXCEPT ![r] = "failing"]
  /\ scopeLock' = IF scopeLock = r THEN Nobody ELSE scopeLock
  /\ UNCHANGED <<request, files, contacted, eval, admissionLock, process, crashes, database>>

\* _fail overwrites whatever the status is, or raises itself.
Fail(r) ==
  /\ Alive /\ pc[r] = "failing"
  /\ \/ /\ status' = [status EXCEPT ![r] = "failed"]
        /\ pc' = [pc EXCEPT ![r] = "done"]
     \/ /\ pc' = [pc EXCEPT ![r] = "detached"]
        /\ UNCHANGED status
  /\ UNCHANGED <<request, scope, audit, files, contacted, eval, actorOK, grant,
                 admissionLock, scopeLock, process, crashes>>

\* Mutant: the thread ends as if it had recorded the failure.
FailDetachedForgets(r) ==
  /\ Alive /\ pc[r] = "detached"
  /\ pc' = [pc EXCEPT ![r] = "done"]
  /\ UNCHANGED <<request, files, contacted, eval, admissionLock, scopeLock, process,
                 crashes, database>>

\* _fail_detached only touches an active row, from a fresh session, or raises.
FailDetached(r) ==
  /\ Alive /\ pc[r] = "detached"
  /\ \/ /\ status' = [status EXCEPT ![r] = IF @ \in ActiveStatuses THEN "failed" ELSE @]
        /\ pc' = [pc EXCEPT ![r] = "done"]
     \/ /\ pc' = [pc EXCEPT ![r] = "lost"]
        /\ UNCHANGED status
  /\ UNCHANGED <<request, scope, audit, files, contacted, eval, actorOK, grant,
                 admissionLock, scopeLock, process, crashes>>

-----------------------------------------------------------------------------
(* Scope changes, the requester's authority and the lab authorization *)

AddScope(d, entry) ==
  /\ Alive /\ scopeLock = Nobody
  /\ entry \notin scope[d] /\ Cardinality(scope[d]) < MaxEntries
  /\ scope' = [scope EXCEPT ![d] = @ \cup {entry}]
  /\ UNCHANGED <<request, status, audit, files, contacted, pc, eval, actorOK, grant,
                 admissionLock, scopeLock, process, crashes>>

RemoveScope(d, entry) ==
  /\ Alive /\ scopeLock = Nobody
  /\ entry \in scope[d]
  /\ scope' = [scope EXCEPT ![d] = @ \ {entry}]
  /\ UNCHANGED <<request, status, audit, files, contacted, pc, eval, actorOK, grant,
                 admissionLock, scopeLock, process, crashes>>

\* A role, membership or account change of the requester.
ChangeAuthority ==
  /\ Alive
  /\ actorOK' = ~actorOK
  /\ UNCHANGED <<request, scope, status, audit, files, contacted, pc, eval, grant,
                 admissionLock, scopeLock, process, crashes>>

\* A lab authorization is created, or is revoked or expires.
ChangeGrant(d) ==
  /\ Alive
  /\ grant' = [grant EXCEPT ![d] = ~@]
  /\ UNCHANGED <<request, scope, status, audit, files, contacted, pc, eval, actorOK,
                 admissionLock, scopeLock, process, crashes>>

-----------------------------------------------------------------------------
(* The lifespan: main.build_lifespan and DiscoveryRuntime.close *)

\* Threads and their locks vanish with the process.
Vanish ==
  /\ pc' = [r \in Runs |-> IF status[r] = "none" THEN "idle" ELSE "done"]
  /\ admissionLock' = Nobody
  /\ scopeLock' = Nobody
  /\ process' = "down"

BeginClose ==
  /\ process = "serving"
  /\ process' = "closing"
  /\ UNCHANGED <<request, files, contacted, pc, eval, admissionLock, scopeLock,
                 crashes, database>>

\* executor.shutdown(wait=True): every accepted run finishes first.
Drained == \A r \in Runs : pc[r] \notin WorkerPC

Stop ==
  /\ process = "closing" /\ Drained
  /\ Vanish
  /\ UNCHANGED <<request, files, contacted, eval, crashes, database>>

Crash ==
  /\ process # "down" /\ crashes < MaxCrashes
  /\ Vanish
  /\ crashes' = crashes + 1
  /\ UNCHANGED <<request, files, contacted, eval, database>>

Start ==
  /\ process = "down"
  /\ process' = "recovering"
  /\ UNCHANGED <<request, files, contacted, pc, eval, admissionLock, scopeLock,
                 crashes, database>>

\* Mutant: the recovery does not look at the status.
RecoverRunEvery(r) ==
  /\ process = "recovering" /\ status[r] # "none"
  /\ status' = [status EXCEPT ![r] = "failed"]
  /\ UNCHANGED <<request, scope, audit, files, contacted, pc, eval, actorOK, grant,
                 admissionLock, scopeLock, process, crashes>>

\* recover_interrupted_runs commits run by run, before traffic is served.
RecoverRun(r) ==
  /\ process = "recovering" /\ status[r] \in ActiveStatuses
  /\ status' = [status EXCEPT ![r] = "failed"]
  /\ UNCHANGED <<request, scope, audit, files, contacted, pc, eval, actorOK, grant,
                 admissionLock, scopeLock, process, crashes>>

\* Mutant: requests are served before the recovery has run.
ServeEarly ==
  /\ process = "recovering"
  /\ process' = "serving"
  /\ UNCHANGED <<request, files, contacted, pc, eval, admissionLock, scopeLock,
                 crashes, database>>

Serve ==
  /\ process = "recovering" /\ ActiveRuns = {}
  /\ process' = "serving"
  /\ UNCHANGED <<request, files, contacted, pc, eval, admissionLock, scopeLock,
                 crashes, database>>

-----------------------------------------------------------------------------
HandlerProgress(r) ==
  \/ \E answer \in Answers : CheckRequest(r, answer)
  \/ CommitAdmission(r) \/ CommitDenial(r)
  \/ Submit(r) \/ SubmitRefused(r)

HandlerStep(r) == HandlerProgress(r) \/ AdmissionRaises(r) \/ HandlerRaises(r)

WorkerProgress(r) ==
  \/ Claim(r) \/ AuthorizeClaim(r)
  \/ \E answer \in Answers : EvaluateScope(r, answer)
  \/ CheckCapability(r) \/ AuthorizeContact(r) \/ Contact(r) \/ AdapterReturns(r)
  \/ Recheck(r) \/ StoreFile(r) \/ Publish(r)
  \/ Fail(r) \/ FailDetached(r)

WorkerStep(r) == WorkerProgress(r) \/ OpenRaises(r) \/ ClaimRaises(r) \/ Raise(r)

Operate ==
  \/ \E d \in Yards, entry \in Entries : AddScope(d, entry) \/ RemoveScope(d, entry)
  \/ ChangeAuthority
  \/ \E d \in Yards : ChangeGrant(d)

StartUp == Start \/ Serve \/ \E r \in Runs : RecoverRun(r)

Next ==
  \/ \E r \in Runs : Arrive(r) \/ HandlerStep(r) \/ WorkerStep(r)
  \/ Operate
  \/ BeginClose \/ Stop \/ Crash \/ StartUp

Spec == Init /\ [][Next]_vars

\* A thread that can go on does, an adapter that was handed a URL exclusion
\* raises, and a stopping process that has drained ends and is started again by
\* its supervisor.  No other exception is owed: a thread that waits, waits.
Fairness ==
  /\ \A r \in Runs :
       /\ WF_vars(HandlerProgress(r))
       /\ WF_vars(WorkerProgress(r) \/ (Raise(r) /\ pc[r] = "cleared" /\ ~AcceptedExclusions(r)))
  /\ WF_vars(Stop) /\ WF_vars(StartUp)

FairSpec == Spec /\ Fairness

-----------------------------------------------------------------------------
(* Properties *)

\* Every variable keeps its type: a status is one the code knows, a lock is
\* free or held by one run's thread, an evaluation has DockGuard's shape.
TypeOK ==
  /\ request \in [Runs -> Requests]
  /\ scope \in [Yards -> SUBSET Entries]
  /\ status \in [Runs -> ActiveStatuses \cup TerminalStatuses \cup {"none"}]
  /\ audit \in [Runs -> SUBSET AuditKinds]
  /\ files \in [Runs -> 0..EvidenceFiles]
  /\ contacted \in [Runs -> BOOLEAN]
  /\ pc \in [Runs -> HandlerPC \cup WorkerPC \cup EndedPC]
  /\ eval \in [Runs -> Evaluations]
  /\ actorOK \in BOOLEAN
  /\ grant \in [Yards -> BOOLEAN]
  /\ admissionLock \in Runs \cup {Nobody}
  /\ scopeLock \in Runs \cup {Nobody}
  /\ process \in {"serving", "closing", "recovering", "down"}
  /\ crashes \in 0..MaxCrashes

\* create_run's count-then-insert never admits more runs at once than
\* max_concurrent_runs, whatever the handlers and workers interleave.
ActiveCap == Cardinality(ActiveRuns) <= MaxConcurrent

\* No Dockyard ever retains more rows, denied ones included, than the fixed
\* history limit that create_run counts under the admission lock.
HistoryCap == \A d \in Yards : Cardinality(History(d)) <= MaxRuns

\* Results become visible only while the scope in force allows every address
\* the adapter was sent to: an include still covers the target, no address or
\* network exclusion meets what was scanned, and nothing hard-denied was
\* scanned, although the scope may change at any moment before (_perform).
PublishedInScope ==
  [][\A r \in Runs : status[r] # "completed" /\ status'[r] = "completed" =>
       LET reach == Reach(Target(r), eval[r])
       IN /\ FirstMatch(Target(r), Includes(Rules(r)))
          /\ \A x \in Excludes(Rules(r)) :
               x.target.kind # "url" => reach \cap x.target.net = {}
          /\ reach # {} /\ reach \cap HardAddrs = {}
          /\ IsNamed(Target(r)) => reach \cap BadAddrs = {}]_vars

\* A run is contacted only after its admission receipt and its execution
\* authorization (and for the lab profile its lab decision) are committed, so
\* a crash never leaves a contact that the audit trail does not account for.
ContactAudited ==
  \A r \in Runs : contacted[r] =>
    /\ {"request_admitted", "execute_admitted"} \subseteq audit[r]
    /\ IsLab(r) => "lab_allowed" \in audit[r]

\* A completed run was really executed and all its evidence files are on
\* disk, whatever failed or crashed between the writes and the commit.
CompletedHasEvidence ==
  \A r \in Runs : status[r] = "completed" => contacted[r] /\ files[r] = EvidenceFiles

\* A row is active only while some thread still answers for it or the startup
\* recovery has yet to come.  An exception can forget a run in three places only
\* (after the admission commit, at the claim, when its failure cannot be
\* written), and a run forgotten before its claim has contacted nothing.
ActiveRunOwned ==
  \A r \in Runs : status[r] \in ActiveStatuses =>
    \/ pc[r] \in {"admitted"} \cup WorkerPC
    \/ pc[r] \in {"orphaned", "abandoned"} /\ ~contacted[r]
    \/ pc[r] = "lost"
    \/ ~Alive

\* The state of a run that ended is final: no late failure report, recovery
\* or second writer replaces it.  (AckLoss = FALSE: a commit that raises did
\* not take effect.)
TerminalFinal ==
  [][\A r \in Runs : status[r] \in TerminalStatuses => status'[r] = status[r]]_vars

\* An error after the final commit leaves the run completed (the name of a
\* test of execute_run), the error of a commit whose reply is lost included.
CompletedRunStays ==
  [][\A r \in Runs : status[r] = "completed" => status'[r] = "completed"]_vars

\* Every admitted run ends, or an exception at one of the three places that
\* forget a run left it to the next startup.
RunSettles ==
  \A r \in Runs : status[r] \in ActiveStatuses ~>
    status[r] \in TerminalStatuses \/ pc[r] \in ForgottenPC

\* Whatever a restart interrupted is terminal before requests are served.
RestartRecovers == process = "down" ~> (process = "serving" /\ ActiveRuns = {})

\* Closing the pool ends: queued and running work drains, no lock blocks it.
CloseDrains == process = "closing" ~> process = "down"

\* A failure before the claim fails the run (the name of a test of
\* execute_run): no thread ends and leaves its unclaimed row pending.
UnclaimedRunFails == \A r \in Runs : pc[r] = "abandoned" => status[r] \in TerminalStatuses

-----------------------------------------------------------------------------
(* The inductive invariant of the proofs *)

\* Where a thread is decides the status of its row.
Flow ==
  \A r \in Runs :
    /\ pc[r] \in {"idle", "arrived", "admitting", "denying"} => status[r] = "none"
    /\ pc[r] \in {"admitted", "orphaned", "queued"} => status[r] = "pending"
    /\ pc[r] \in ClaimedPC => status[r] = "running"
    /\ pc[r] = "failing" => IF AckLoss THEN status[r] # "none" ELSE status[r] = "running"
    /\ pc[r] \in {"detached", "lost", "abandoned", "done"} => status[r] # "none"
    /\ pc[r] = "done" /\ Alive => status[r] \in TerminalStatuses
    /\ ~Alive => pc[r] \in {"idle", "done"}

\* The handler that holds the admission lock still has the room it counted.
Room ==
  \A r \in Runs : pc[r] \in {"admitting", "denying"} =>
    /\ admissionLock = r
    /\ Cardinality(History(request[r].yard)) < MaxRuns
    /\ pc[r] = "admitting" => Cardinality(ActiveRuns) < MaxConcurrent

\* What is on record before each step of an execution.
Accounted ==
  \A r \in Runs :
    /\ pc[r] \in {"admitted", "queued"} \cup ClaimedPC => "request_admitted" \in audit[r]
    /\ pc[r] \in {"cleared", "inflight", "returned", "publishing"} =>
         /\ "execute_admitted" \in audit[r]
         /\ IsLab(r) => "lab_allowed" \in audit[r]
    /\ pc[r] \in {"inflight", "returned", "publishing"} => contacted[r]
    /\ pc[r] \in HandlerPC \cup {"idle", "orphaned", "queued", "abandoned"} => ~contacted[r]
    /\ pc[r] \in {"claimed", "authorized", "evaluated", "gated", "cleared"} => ~contacted[r]

\* An execution has something to reach; one that publishes holds the scope
\* lock, and the scope still allows what it scanned.
Publishing ==
  \A r \in Runs :
    /\ pc[r] \in ClaimedPC \ {"claimed", "authorized"} => Reach(Target(r), eval[r]) # {}
    /\ pc[r] = "publishing" => scopeLock = r /\ StillInScope(r)

IInv ==
  /\ TypeOK /\ Flow /\ Room /\ ActiveCap /\ HistoryCap
  /\ Accounted /\ ContactAudited /\ CompletedHasEvidence /\ Publishing
=============================================================================
