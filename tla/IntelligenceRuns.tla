-------------------------- MODULE IntelligenceRuns --------------------------
(***************************************************************************)
(* Advice runs of one Dockyard (intelligence/runner.py, providers.py): a   *)
(* packet is frozen under the create lock, a second request approves it    *)
(* and discloses it to the configured provider once, and the answer is     *)
(* kept only when it stays inside the packet.                              *)
(*                                                                         *)
(* A finding stands for itself and for its evidence hash; a packet is the  *)
(* set of findings it holds.  The provider's identity and the prompt       *)
(* version are process configuration: they change with a restart only.     *)
(***************************************************************************)
EXTENDS Naturals, Sequences, FiniteSets, Functions

CONSTANTS
  Threads,      \* concurrent API requests
  Providers,    \* identities: provider, model, destination, external
  Disabled,     \* no usable provider configured
  FindingIds,
  Limit,        \* settings.max_intelligence_runs_per_dockyard
  MaxChanges,   \* bound on changes to the findings and their correlation
  MaxRestarts,  \* bound on restarts
  MaxLosses,    \* bound on commits that fail
  Nobody

\* What every instance assumes of its constants.
IntelligenceAssumption ==
  /\ {Limit, MaxChanges, MaxRestarts, MaxLosses} \subseteq Nat
  /\ Disabled \notin Providers /\ Nobody \notin Threads

VARIABLES
  runs,        \* IntelligenceRun rows in id order, with their audit events
  createLock,  \* _CREATE_LOCK
  pc, job,     \* where each thread is, and the row it works on
  packet,      \* the packet a thread has read
  using,       \* the provider object a thread holds
  provider,    \* get_provider() of this process
  prompt,      \* PROMPT_VERSION of this process
  correlated,  \* findings in the newest completed correlation graph
  supported,   \* findings that are open or accepted and have evidence
  actorOK, changes, restarts, losses

threadVars == <<pc, job, packet, using>>
storeVars == <<correlated, supported, actorOK>>
vars == <<runs, createLock, threadVars, provider, prompt, storeVars, changes, restarts, losses>>

-----------------------------------------------------------------------------
Statuses == {"pending_approval", "running", "completed", "failed"}
ACTIVE_STATUSES == {"pending_approval", "running"}

\* One priority of the advice: the finding it is about, the evidence it cites.
Priorities == FindingIds \X FindingIds
Advice == UNION {[1..n -> Priorities] : n \in 1..2}

IntelligenceRun ==
  [status : Statuses, provider : Providers, prompt : Nat, packet : SUBSET FindingIds,
   sentTo : Providers \cup {Disabled}, approvals : Nat, contacts : Nat,
   output : SUBSET Priorities]

Active == {i \in DOMAIN runs : runs[i].status \in ACTIVE_STATUSES}

Init ==
  /\ runs = <<>> /\ createLock = Nobody
  /\ pc = [t \in Threads |-> "idle"] /\ job = [t \in Threads |-> 0]
  /\ packet = [t \in Threads |-> {}] /\ using = [t \in Threads |-> Disabled]
  /\ provider \in Providers \cup {Disabled} /\ prompt = 1
  /\ correlated \in SUBSET FindingIds /\ supported = FindingIds
  /\ actorOK = TRUE /\ changes = 0 /\ restarts = 0 /\ losses = 0

Goto(t, where) == pc' = [pc EXCEPT ![t] = where]
Done(t) ==
  /\ Goto(t, "idle") /\ job' = [job EXCEPT ![t] = 0]
  /\ packet' = [packet EXCEPT ![t] = {}] /\ using' = [using EXCEPT ![t] = Disabled]
Released(t) == createLock' = IF createLock = t THEN Nobody ELSE createLock

-----------------------------------------------------------------------------
(* create_run *)

\* The findings of the graph that are still active and have evidence.
_packet == correlated \cap supported

\* Under the lock: the actor, the provider, both counts and the packet.
Reserve(t) ==
  /\ pc[t] = "idle" /\ actorOK /\ createLock = Nobody
  /\ provider # Disabled /\ Active = {} /\ Len(runs) < Limit /\ _packet # {}
  /\ createLock' = t
  /\ packet' = [packet EXCEPT ![t] = _packet]
  /\ using' = [using EXCEPT ![t] = provider]
  /\ Goto(t, "reserved")
  /\ UNCHANGED <<runs, job, provider, prompt, storeVars, changes, restarts, losses>>

\* Still under the lock: the packet file, the actor again, row and event.
InsertRun(t) ==
  /\ pc[t] = "reserved" /\ actorOK
  /\ runs' = Append(runs, [status |-> "pending_approval", provider |-> using[t],
                           prompt |-> prompt, packet |-> packet[t], sentTo |-> Disabled,
                           approvals |-> 0, contacts |-> 0, output |-> {}])
  /\ Released(t) /\ Done(t)
  /\ UNCHANGED <<provider, prompt, storeVars, changes, restarts, losses>>

-----------------------------------------------------------------------------
(* approve_run *)

\* Mutant: the provider in use now is not compared with the one reviewed.
ApprovableAnyProvider(row) ==
  row.status = "pending_approval" /\ row.prompt = prompt /\ provider # Disabled

Approvable(row) ==
  row.status = "pending_approval" /\ row.prompt = prompt /\ provider = row.provider

\* The retained packet is verified against its hash; a damaged one is refused.
Load(t, i) ==
  /\ pc[t] = "idle" /\ actorOK /\ Approvable(runs[i])
  /\ job' = [job EXCEPT ![t] = i]
  /\ using' = [using EXCEPT ![t] = provider]
  /\ Goto(t, "loaded")
  /\ UNCHANGED <<runs, createLock, packet, provider, prompt, storeVars, changes, restarts,
                 losses>>

\* The conditional update, the actor again and the event, in one commit.
Claim(t) ==
  /\ pc[t] = "loaded" /\ actorOK /\ runs[job[t]].status = "pending_approval"
  /\ runs' = [runs EXCEPT ![job[t]].status = "running", ![job[t]].approvals = @ + 1]
  /\ Goto(t, "claimed")
  /\ UNCHANGED <<createLock, job, packet, using, provider, prompt, storeVars, changes, restarts,
                 losses>>

\* A request that is refused after its first checks is rolled back.
Reject(t) ==
  /\ \/ pc[t] = "reserved" /\ ~actorOK
     \/ pc[t] = "loaded" /\ (~actorOK \/ runs[job[t]].status # "pending_approval")
  /\ Released(t) /\ Done(t)
  /\ UNCHANGED <<runs, provider, prompt, storeVars, changes, restarts, losses>>

\* provider.analyze: one request with one deadline, never repeated.
Analyze(t) ==
  /\ pc[t] = "claimed"
  /\ runs' = [runs EXCEPT ![job[t]].contacts = @ + 1, ![job[t]].sentTo = using[t]]
  /\ Goto(t, "answered")
  /\ UNCHANGED <<createLock, job, packet, using, provider, prompt, storeVars, changes, restarts,
                 losses>>

\* No finding twice, and only findings and evidence of the approved packet.
_validate_advice(row, advice) ==
  /\ \A j, k \in DOMAIN advice : j # k => advice[j][1] # advice[k][1]
  /\ \A k \in DOMAIN advice : advice[k][1] \in row.packet /\ advice[k][2] = advice[k][1]

\* Files and row, in one commit.
Complete(t, advice) ==
  /\ pc[t] = "answered" /\ _validate_advice(runs[job[t]], advice)
  /\ runs' = [runs EXCEPT ![job[t]].status = "completed",
                          ![job[t]].output = Range(advice)]
  /\ Done(t)
  /\ UNCHANGED <<createLock, provider, prompt, storeVars, changes, restarts, losses>>

\* ProviderError, refused advice or any other exception.
Fail(t) ==
  /\ pc[t] \in {"claimed", "answered"}
  /\ runs' = [runs EXCEPT ![job[t]].status = "failed"]
  /\ Done(t)
  /\ UNCHANGED <<createLock, provider, prompt, storeVars, changes, restarts, losses>>

\* A commit fails: the request ends in an error and the row stays as it was.
Lose(t) ==
  /\ losses < MaxLosses /\ losses' = losses + 1
  /\ pc[t] # "idle"
  /\ Released(t) /\ Done(t)
  /\ UNCHANGED <<runs, provider, prompt, storeVars, changes, restarts>>

-----------------------------------------------------------------------------
\* recover_interrupted_runs: pending packets stay, running ones fail.
Recovered(row) == IF row.status = "running" THEN [row EXCEPT !.status = "failed"] ELSE row

\* A crash or an upgrade; the configuration may be another one afterwards.
Restart(p, v) ==
  /\ restarts < MaxRestarts /\ restarts' = restarts + 1
  /\ provider' = p /\ prompt' = v
  /\ runs' = [i \in DOMAIN runs |-> Recovered(runs[i])]
  /\ createLock' = Nobody
  /\ pc' = [t \in Threads |-> "idle"] /\ job' = [t \in Threads |-> 0]
  /\ packet' = [t \in Threads |-> {}] /\ using' = [t \in Threads |-> Disabled]
  /\ UNCHANGED <<storeVars, changes, losses>>

\* Correlation, detection, an operator or an administrator acts meanwhile.
Change ==
  /\ changes < MaxChanges /\ changes' = changes + 1
  /\ \/ correlated' \in SUBSET FindingIds /\ UNCHANGED <<supported, actorOK>>
     \/ supported' \in SUBSET FindingIds /\ UNCHANGED <<correlated, actorOK>>
     \/ actorOK' = FALSE /\ UNCHANGED <<correlated, supported>>
  /\ UNCHANGED <<runs, createLock, threadVars, provider, prompt, restarts, losses>>

ThreadStep(t) ==
  \/ InsertRun(t) \/ Claim(t) \/ Reject(t) \/ Analyze(t) \/ Fail(t)
  \/ \E advice \in Advice : Complete(t, advice)

Next ==
  \/ \E t \in Threads : Reserve(t) \/ ThreadStep(t) \/ Lose(t)
  \/ \E t \in Threads, i \in DOMAIN runs : Load(t, i)
  \/ \E p \in Providers \cup {Disabled}, v \in {prompt, prompt + 1} : Restart(p, v)
  \/ Change

Spec == Init /\ [][Next]_vars

\* Every request thread keeps running: the provider call has one total deadline.
Fairness == \A t \in Threads : WF_vars(ThreadStep(t))

LiveSpec == Spec /\ Fairness

-----------------------------------------------------------------------------
\* The rows, and the create lock held exactly by the thread that reserves.
TypeOK ==
  /\ runs \in Seq(IntelligenceRun)
  /\ \A t \in Threads : pc[t] = "reserved" <=> createLock = t
  /\ \A t \in Threads : pc[t] \in {"loaded", "claimed", "answered"} <=> job[t] \in DOMAIN runs

\* "Serializing this short reservation makes the active and retained-run bounds
\* exact": one active run, and never more rows than the limit.
ExactBounds == Cardinality(Active) <= 1 /\ Len(runs) <= Limit

\* A packet is only ever disclosed to the provider, model and destination the
\* operator reviewed, after one committed approval event.
DisclosedAsReviewed ==
  \A i \in DOMAIN runs :
    runs[i].contacts > 0 => runs[i].sentTo = runs[i].provider /\ runs[i].approvals = 1

\* Retained advice is about findings and evidence of the packet the operator
\* approved, one priority per finding, and exists only for completed runs.
AdviceGrounded ==
  \A i \in DOMAIN runs :
    /\ runs[i].output # {} <=> runs[i].status = "completed"
    /\ \A p \in runs[i].output : p[1] \in runs[i].packet /\ p[2] = p[1]
    /\ \A p, q \in runs[i].output : p[1] = q[1] => p = q

\* Nothing is disclosed, retained or admitted beyond what was reviewed.
IntelligenceHolds == ExactBounds /\ DisclosedAsReviewed /\ AdviceGrounded

\* The two-step promise: one approval, one disclosure, never reopened.
Requests == 1 .. Limit
PhaseOf(status) ==
  CASE status = "pending_approval" -> "pending"
    [] status = "running" -> "approved"
    [] OTHER -> "closed"
GatePhase(i) == IF i \in DOMAIN runs THEN PhaseOf(runs[i].status) ELSE "none"
Contacts(i) == IF i \in DOMAIN runs THEN runs[i].contacts ELSE 0
Gate == INSTANCE ApprovalGate WITH
          phase <- [i \in Requests |-> GatePhase(i)],
          contacts <- [i \in Requests |-> Contacts(i)]
ApprovedOnce == Gate!Spec

\* An approved run, and those that no request works on any more.
Working == {"claimed", "answered"}
InFlight(i) == GatePhase(i) = "approved"
Orphans == {i \in Requests : InFlight(i) /\ \A t \in Threads : pc[t] \in Working => job[t] # i}

-----------------------------------------------------------------------------
(* The inductive invariant *)

Locations == {"idle", "reserved", "loaded", "claimed", "answered"}
ThreadsTyped ==
  /\ pc \in [Threads -> Locations] /\ job \in [Threads -> Nat]
  /\ packet \in [Threads -> SUBSET FindingIds]
  /\ using \in [Threads -> Providers \cup {Disabled}]
  /\ createLock \in Threads \cup {Nobody}
  /\ \A t \in Threads : pc[t] \in {"idle", "reserved"} => job[t] = 0

ConfigTyped ==
  /\ provider \in Providers \cup {Disabled} /\ prompt \in Nat
  /\ correlated \subseteq FindingIds /\ supported \subseteq FindingIds

\* While a request holds the lock nothing it counted changes.
ReservationHolds ==
  /\ \A t \in Threads : pc[t] = "reserved" => /\ using[t] \in Providers
                                              /\ Active = {} /\ Len(runs) < Limit
  /\ Len(runs) <= Limit
  /\ \A i, j \in Active : i = j

\* What each status says of the row.
RowHonest(row) ==
  /\ row.status = "pending_approval" => row.approvals = 0 /\ row.contacts = 0
  /\ row.status = "running" => row.approvals = 1
  /\ row.contacts <= 1
  /\ row.contacts > 0 => row.sentTo = row.provider /\ row.approvals = 1
  /\ row.output # {} <=> row.status = "completed"
  /\ \A p \in row.output : p[1] \in row.packet /\ p[2] = p[1]
  /\ \A p, q \in row.output : p[1] = q[1] => p = q

\* A thread that approves holds the reviewed provider; past its claim it is the
\* only one at its row, and the row shows how far it is.
OneWorker ==
  \A t \in Threads :
    /\ pc[t] \in Working \cup {"loaded"} => using[t] = runs[job[t]].provider
    /\ pc[t] \in Working => /\ runs[job[t]].status = "running"
                            /\ runs[job[t]].contacts = IF pc[t] = "claimed" THEN 0 ELSE 1
                            /\ \A u \in Threads : pc[u] \in Working /\ job[u] = job[t] => u = t

IInv ==
  /\ TypeOK /\ ThreadsTyped /\ ConfigTyped /\ ReservationHolds /\ OneWorker
  /\ \A i \in DOMAIN runs : RowHonest(runs[i])
=============================================================================
