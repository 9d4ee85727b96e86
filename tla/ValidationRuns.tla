--------------------------- MODULE ValidationRuns ---------------------------
(***************************************************************************)
(* Validation requests of one Dockyard (validation/runner.py): a request   *)
(* is stored with DockGuard's decision, a second request approves it with  *)
(* a conditional update, and the one origin is probed after that commit.   *)
(* Each thread serves one HTTP request after another; a step runs from one *)
(* read or commit of the database to the next.                             *)
(***************************************************************************)
EXTENDS Naturals, Sequences, FiniteSets

CONSTANTS
  Threads,      \* concurrent API requests
  Limit,        \* settings.max_validation_runs_per_dockyard
  MaxScope,     \* bound on scope and finding changes
  MaxCrashes,   \* bound on crashes
  MaxLosses     \* bound on commits that fail

\* What every instance assumes of its constants.
ValidationAssumption ==
  /\ IsFiniteSet(Threads) /\ Limit \in Nat \ {0}
  /\ {MaxScope, MaxCrashes, MaxLosses} \subseteq Nat

VARIABLES
  runs,       \* ValidationRun rows in id order, with their audit events
  pc,         \* where each thread is
  job,        \* the row a thread works on, 0 for none
  allowed,    \* the DockGuard decision a thread took
  inScope,    \* DockGuard allows the origin now
  open,       \* the finding is open and its origin known
  actorOK,    \* the operator may run workflows
  changes, crashes, losses

threadVars == <<pc, job, allowed>>
envVars == <<inScope, open, actorOK>>
vars == <<runs, threadVars, envVars, changes, crashes, losses>>

-----------------------------------------------------------------------------
Statuses == {"pending_approval", "running", "completed", "denied", "failed"}
Outcomes == {"confirmed", "not_reproduced", "indeterminate"}
Locations == {"idle", "admitted", "loaded", "claimed", "probed", "stored"}

\* A row, with the committed events about it and how often its origin was
\* contacted.
ValidationRun == [status : Statuses, outcome : Outcomes \cup {"none"}, evidence : BOOLEAN,
                  approvals : Nat, probes : Nat]
Row(status) == [status |-> status, outcome |-> "none", evidence |-> FALSE,
                approvals |-> 0, probes |-> 0]

Init ==
  /\ runs = <<>>
  /\ pc = [t \in Threads |-> "idle"]
  /\ job = [t \in Threads |-> 0]
  /\ allowed = [t \in Threads |-> FALSE]
  /\ inScope \in BOOLEAN /\ open = TRUE /\ actorOK = TRUE
  /\ changes = 0 /\ crashes = 0 /\ losses = 0

Goto(t, where) == pc' = [pc EXCEPT ![t] = where]
Done(t) == /\ Goto(t, "idle")
           /\ job' = [job EXCEPT ![t] = 0]
           /\ allowed' = [allowed EXCEPT ![t] = FALSE]
Evaluated(t) == allowed' = [allowed EXCEPT ![t] = inScope]

-----------------------------------------------------------------------------
(* create_run *)

_within_validation_limit == Len(runs) < Limit

\* The actor, the finding, the limit and DockGuard, with no lock kept.
Admit(t) ==
  /\ pc[t] = "idle" /\ actorOK /\ open /\ _within_validation_limit
  /\ Evaluated(t)
  /\ Goto(t, "admitted")
  /\ UNCHANGED <<runs, job, envVars, changes, crashes, losses>>

\* The actor again, the row and its event, in one commit.
InsertRun(t) ==
  /\ pc[t] = "admitted" /\ actorOK
  /\ runs' = Append(runs, Row(IF allowed[t] THEN "pending_approval" ELSE "denied"))
  /\ Done(t)
  /\ UNCHANGED <<envVars, changes, crashes, losses>>

-----------------------------------------------------------------------------
(* approve_run *)

Load(t, i) ==
  /\ pc[t] = "idle" /\ actorOK
  /\ i \in DOMAIN runs /\ runs[i].status = "pending_approval"
  /\ Evaluated(t)
  /\ job' = [job EXCEPT ![t] = i]
  /\ Goto(t, "loaded")
  /\ UNCHANGED <<runs, envVars, changes, crashes, losses>>

\* Mutant: the update has no condition on the status.
ClaimBlind(t) ==
  /\ pc[t] = "loaded" /\ actorOK
  /\ runs' = [runs EXCEPT ![job[t]].status = IF allowed[t] THEN "running" ELSE "denied",
                          ![job[t]].approvals = @ + 1]
  /\ IF allowed[t] THEN Goto(t, "claimed") /\ UNCHANGED <<job, allowed>> ELSE Done(t)
  /\ UNCHANGED <<envVars, changes, crashes, losses>>

\* UPDATE ... WHERE status = 'pending_approval', the actor again, the event and
\* the commit; the decision is the one taken when the row was loaded.
Claim(t) ==
  /\ pc[t] = "loaded" /\ actorOK
  /\ runs[job[t]].status = "pending_approval"
  /\ runs' = [runs EXCEPT ![job[t]].status = IF allowed[t] THEN "running" ELSE "denied",
                          ![job[t]].approvals = @ + 1]
  /\ IF allowed[t] THEN Goto(t, "claimed") /\ UNCHANGED <<job, allowed>> ELSE Done(t)
  /\ UNCHANGED <<envVars, changes, crashes, losses>>

\* ValidationRejected or AuthorizationDenied: the transaction is rolled back.
Reject(t) ==
  /\ \/ pc[t] = "admitted" /\ ~actorOK
     \/ pc[t] = "loaded" /\ (~actorOK \/ runs[job[t]].status # "pending_approval")
  /\ Done(t)
  /\ UNCHANGED <<runs, envVars, changes, crashes, losses>>

\* _validate: the bounded probe of the origin, at the addresses of the decision.
Probe(t) ==
  /\ pc[t] = "claimed"
  /\ runs' = [runs EXCEPT ![job[t]].probes = @ + 1]
  /\ Goto(t, "probed")
  /\ UNCHANGED <<job, allowed, envVars, changes, crashes, losses>>

\* _store_evidence writes the files and commits their hashes on its own.
StoreEvidence(t) ==
  /\ pc[t] = "probed"
  /\ runs' = [runs EXCEPT ![job[t]].evidence = TRUE]
  /\ Goto(t, "stored")
  /\ UNCHANGED <<job, allowed, envVars, changes, crashes, losses>>

\* Mutant: the conclusion is stored before its evidence.
CompleteEarly(t, outcome) ==
  /\ pc[t] \in {"probed", "stored"}
  /\ runs' = [runs EXCEPT ![job[t]].status = "completed", ![job[t]].outcome = outcome]
  /\ Done(t)
  /\ UNCHANGED <<envVars, changes, crashes, losses>>

Complete(t, outcome) ==
  /\ pc[t] = "stored"
  /\ runs' = [runs EXCEPT ![job[t]].status = "completed", ![job[t]].outcome = outcome]
  /\ Done(t)
  /\ UNCHANGED <<envVars, changes, crashes, losses>>

\* The probe or an evidence file fails: recorded, and never a conclusion.
Fail(t) ==
  /\ pc[t] \in {"claimed", "probed"}
  /\ runs' = [runs EXCEPT ![job[t]].status = "failed"]
  /\ Done(t)
  /\ UNCHANGED <<envVars, changes, crashes, losses>>

\* A commit fails: the request ends in an error and the row stays as it was.
Lose(t) ==
  /\ losses < MaxLosses /\ losses' = losses + 1
  /\ pc[t] # "idle"
  /\ Done(t)
  /\ UNCHANGED <<runs, envVars, changes, crashes>>

-----------------------------------------------------------------------------
(* recover_interrupted_runs, and what other requests change meanwhile *)

Recovered(row) == IF row.status = "running" THEN [row EXCEPT !.status = "failed"] ELSE row

Restart ==
  /\ crashes < MaxCrashes /\ crashes' = crashes + 1
  /\ runs' = [i \in DOMAIN runs |-> Recovered(runs[i])]
  /\ pc' = [t \in Threads |-> "idle"]
  /\ job' = [t \in Threads |-> 0]
  /\ allowed' = [t \in Threads |-> FALSE]
  /\ UNCHANGED <<envVars, changes, losses>>

ChangeScope ==
  /\ changes < MaxScope /\ changes' = changes + 1
  /\ \/ inScope' = ~inScope /\ UNCHANGED open
     \/ open' = ~open /\ UNCHANGED inScope
  /\ UNCHANGED <<runs, threadVars, actorOK, crashes, losses>>

Revoke ==
  /\ actorOK /\ actorOK' = FALSE
  /\ UNCHANGED <<runs, threadVars, inScope, open, changes, crashes, losses>>

ThreadStep(t) ==
  \/ InsertRun(t) \/ Claim(t) \/ Reject(t) \/ Probe(t) \/ StoreEvidence(t) \/ Fail(t)
  \/ \E outcome \in Outcomes : Complete(t, outcome)

Next ==
  \/ \E t \in Threads : Admit(t) \/ ThreadStep(t) \/ Lose(t)
  \/ \E t \in Threads, i \in DOMAIN runs : Load(t, i)
  \/ Restart \/ ChangeScope \/ Revoke

Spec == Init /\ [][Next]_vars

\* A request that was admitted keeps running: probe and DNS have timeouts.
Fairness == \A t \in Threads : WF_vars(ThreadStep(t))

LiveSpec == Spec /\ Fairness

-----------------------------------------------------------------------------
\* The rows, and a row to work on exactly while an approval is under way.
TypeOK ==
  /\ runs \in Seq(ValidationRun)
  /\ pc \in [Threads -> Locations] /\ allowed \in [Threads -> BOOLEAN]
  /\ \A t \in Threads : IF pc[t] \in {"idle", "admitted"} THEN job[t] = 0
                        ELSE job[t] \in DOMAIN runs

\* A denied request proves that the recheck did not reach its target, and a
\* failed one never carries a conclusion; a conclusion has committed evidence.
RowsAreHonest ==
  \A i \in DOMAIN runs :
    /\ runs[i].status \in {"denied", "pending_approval"} => runs[i].probes = 0
    /\ runs[i].status = "failed" => runs[i].outcome = "none"
    /\ runs[i].outcome # "none" => runs[i].evidence /\ runs[i].probes = 1

\* The origin is only contacted after the approval and its audit event were
\* committed together, and one approval contacts it once.
ContactAudited == \A i \in DOMAIN runs : runs[i].probes <= runs[i].approvals

\* What a retained request tells an operator about contact with its target is
\* true.
ValidationHonest == RowsAreHonest /\ ContactAudited

\* The two-step promise: approved at most once, contacted at most once, never
\* reopened by a restart.
Requests == 1 .. (Limit + Cardinality(Threads))
PhaseOf(status) ==
  CASE status = "pending_approval" -> "pending"
    [] status = "denied" -> "refused"
    [] status = "running" -> "approved"
    [] OTHER -> "closed"
GatePhase(i) == IF i \in DOMAIN runs THEN PhaseOf(runs[i].status) ELSE "none"
Contacts(i) == IF i \in DOMAIN runs THEN runs[i].probes ELSE 0
Gate == INSTANCE ApprovalGate WITH
          phase <- [i \in Requests |-> GatePhase(i)],
          contacts <- [i \in Requests |-> Contacts(i)]
ApprovedOnce == Gate!Spec

\* An approved probe, and those that no request works on any more.
Working == {"claimed", "probed", "stored"}
InFlight(i) == GatePhase(i) = "approved"
Orphans == {i \in Requests : InFlight(i) /\ \A t \in Threads : pc[t] \in Working => job[t] # i}

-----------------------------------------------------------------------------
(* The inductive invariant *)

\* The requests counted before the limit was last reached.
Admitted == {t \in Threads : pc[t] = "admitted"}
SlackBounded == Len(runs) + Cardinality(Admitted) <= Limit + Cardinality(Threads) - 1

\* What each status says of the row.
RowHonest(row) ==
  /\ row.status = "pending_approval" => row.approvals = 0 /\ row.probes = 0
  /\ row.status = "denied" => row.probes = 0
  /\ row.status = "running" => row.approvals = 1
  /\ row.status = "completed" => row.evidence /\ row.probes = 1
  /\ row.status # "completed" => row.outcome = "none"
  /\ row.probes <= row.approvals /\ row.probes <= 1

\* The thread past its claim is the only one at its row, and the row shows how
\* far it is.
OneWorker ==
  \A t \in Threads : pc[t] \in Working =>
    /\ runs[job[t]].status = "running"
    /\ runs[job[t]].probes = IF pc[t] = "claimed" THEN 0 ELSE 1
    /\ pc[t] = "stored" => runs[job[t]].evidence
    /\ \A u \in Threads : pc[u] \in Working /\ job[u] = job[t] => u = t

IInv ==
  /\ TypeOK /\ job \in [Threads -> Nat]
  /\ SlackBounded /\ OneWorker
  /\ \A i \in DOMAIN runs : RowHonest(runs[i])
=============================================================================
