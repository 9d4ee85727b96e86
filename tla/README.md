# RedDock in TLA+

RedDock is a self-hosted application for authorised network assessment: an
operator records the scope of an engagement in a *Dockyard*, RedDock runs
bounded discovery tools inside that scope, and keeps what they found together
with the evidence. This directory models the parts of the backend whose
correctness depends on the order of events, model-checks them with TLC on small
instances and proves the main properties with TLAPS for every instance.

Paths below are relative to `src/backend/app/` unless they start with `src/`.

## 1. The system

### Components, state and operations

| Component | State | Operations | What makes it hard |
|---|---|---|---|
| DockGuard (`dockguard.py`, `targets.py`) | none | `evaluate`, `normalize_scope_value` | two universes (names, address space), exclusions that overlap a requested network, DNS answers that differ between lookups |
| Discovery runs (`discovery/runner.py`, `api.start_discovery`) | `DiscoveryRun` rows, a thread pool, an admission lock | create, submit, execute, fail, recover | request threads, workers, scope changes and shutdown interleave; every step may raise |
| Scope (`services.py`) | `ScopeEntry` rows, a mutation lock | add, remove | changes while a tool runs |
| Lab authorizations (`lab.py`) | `LabAuthorization`, `LabAuditEvent` rows | create (supersedes), check, deny, revoke, expire | expiry and revocation between check and use |
| Workflow authorization (`workflow_authorization.py`, `authorization.py`) | memberships and roles | re-read the actor | authority lost between admission and execution |
| Security audit (`security_audit.py`) | append-only events | append | must be in the same commit as what it records |
| Evidence (`evidence.py`) | files per run | write raw, normalized, metadata | files and rows are not one transaction |
| Lifespan (`main.py`, `instance_lock.py`, `database.py`) | process state, instance lock | start, recover, serve, close | crash at any point |
| Offline restore (`backup.py`) | live paths, rollback copies, staging, marker | restore, recover | two paths that cannot be replaced together; kills anywhere |
| Backup creation (`backup.py`) | an archive | create, verify | consistency of the database and evidence snapshot |
| Detection and findings (`detection/`, `findings.py`) | runs, findings, occurrences | run, reconcile, set status | repeated and overlapping runs, operator decisions that must survive |
| Validation (`validation/runner.py`) | `ValidationRun` rows | request, approve, probe, recover | approval claimed twice; limit counted without a lock |
| Correlation, intelligence, reporting | run rows, packets, graphs, exports | start, approve, complete, recover, download | the same, plus one consistent snapshot for a report and a provider that changes after the review |
| Browser sessions (`session_auth.py`) | session families | issue, use, touch, rotate, log out, revoke, purge | races between rotation, replay of an old token, revocation and expiry |
| Login (`authentication.py`, `oidc.py`) | login attempts, the provider's key cache | begin, complete, load keys | callbacks are links: repeated, late, in another browser; withdrawn keys |
| Team administration (`team_administration.py`) | memberships | provision, change, transfer ownership | exactly one owner under concurrent changes |
| Rate limits (`rate_limits.py`) | shared buckets | consume, purge | atomicity at the limit, late clock values |
| Local operator (`local_security.py`) | a token file, a marker, sessions in memory, throttles | create, load, unlock, verify | a kill between token and marker; the file changes under a running process |

Components interact through the database (every workflow reads scope and
authority again before it acts), through two process-wide locks (admission and
scope mutation), through the thread pool that the lifespan owns, and through the
data directory's instance lock, which the application and the offline tools
exclude each other with.

### What must be true

* DockGuard: an allowed decision leaves something to contact, none of it hard
  denied or excluded.
* Discovery: bounded concurrency and history; nothing is contacted before its
  authorization is on record; nothing is published outside the scope in force;
  a row that is active has somebody who will end it, but for the named places where
  an exception forgets it; a state that is final stays.
* Restore and backups: the application sees a database with its own evidence or
  nothing; neither the previous nor the restored pair is ever lost; an archive
  under its final name is one verified pair.
* Detection: findings rest on recorded evidence and are resolved only by an
  observation that clears them, never by a failure; detection and validation read a
  response alike, and where a browser reads it differently is named.
* Workflows with approval: one approval, one contact, and what leaves is what
  was reviewed. Graphs leave out nothing that was there when they began and
  invent nothing; a report is one state of
  the database with all its evidence. A lab capability has one grant in force,
  so that revoking it means something.
* Identity: a session family has one live generation and stays closed once
  closed; a login leaves no more sessions than the cap; a disabled member is out; there is one active owner; a callback signs
  in one browser once; withdrawn keys are forgotten; limits hold although
  workers are late; the local token is never silently replaced.

The hazards these properties answer are listed, with their lines, in
`PROJECT.json`; a hazard with a note and no property is one the model shows
and no property excludes.

## 2. The modules

| Module | Content |
|---|---|
| `DockGuard`, `DockGuardProofs` | the scope decision as operators; what an allowed decision means, for every rule set |
| `DiscoveryRuns`, `DiscoveryProofs` | the life of a discovery run, composed with scope changes, authority, lab grants and the lifespan; its inductive invariant and safety theorems |
| `Restore`, `RestoreProofs` | restore, rollback, recovery and the startup check; its inductive invariant and safety theorems |
| `Backups` | the create command on the same directory |
| `DataDirectory` | `Restore` and `Backups` together; `RestoreProofs` also has its theorems |
| `Findings` | detection runs, the findings table and operators' decisions |
| `HttpChecks` | the HTTP header detector, the record of the probe and the validation judge |
| `Detection`, `FindingsProofs` | the two in one specification; the invariants and theorems of both |
| `ApprovalGate` | abstract: a request is asked for, answered once, contacted at most once, closed |
| `ValidationRuns`, `IntelligenceRuns`, `ApprovalProofs` | the two workflows with a separate approval; their safety, and that each implements `ApprovalGate` |
| `CorrelationRuns` | derived graphs |
| `ReportRuns` | reports: snapshot, exports, downloads, recovery |
| `LabGrants` | lab authorizations with time |
| `Workflow`, `WorkflowProofs` | the five workflows in one specification; the safety of lab grants, reports and graphs |
| `Authorization` | roles and permissions |
| `TeamAdministration` | members, ownership, the sessions and audit events of a change |
| `BrowserSessions`, `SessionProofs` | session families; their invariant and safety theorems |
| `LoginAttempts` | OIDC logins from challenge to session |
| `ProviderKeys` | the provider's key cache |
| `RateLimits` | the durable limiter |
| `LocalOperator` | the token of a local installation, its sessions and throttles |
| `Identity`, `IdentityProofs` | the six identity components in one specification; the safety of the team, the keys, the logins and the audit of burnt attempts, the local operator and the limiter |
| `MCDiscovery`, `MCRestore`, `MCDetection`, `MCWorkflow`, `MCIdentity` | instances for TLC, with their `.cfg` files |

`MCDiscovery` is one component with its environment. `DataDirectory` composes
`Restore` and `Backups`, which share the live paths and contend for the instance
lock; `MCRestore` gives it two versions. `Detection`, `Workflow` and `Identity` hold several components that
share no state: interleaving them would add no behaviour to any of them, so
`part` is chosen at the start, that component moves and the others stay in
their initial state. What they do share in the program (a member's status, the
scope, a finding) is an environment action of each. `MCDetection`, `MCWorkflow` and
`MCIdentity` only give the constants of these three their values and a symmetry; the
theorems are about the three themselves.

Operators introduced by a comment that starts with "Mutant" are deliberate
faults. No specification uses them: `PROJECT.json` names, for each property, the
definition that one of them replaces and the property that must then fail.

### DockGuard

A normalized target is a record `[kind, host, net]`; `net` is the set of
addresses of `Target.network()`. Sets of addresses stand for networks of both
families: `subnet_of` is inclusion, `overlaps` a non-empty intersection, and
addresses of different families are different elements, which is what the
version tests are for. `Hole` and `FullyExcluded` state what `_subtract`
computes prefix by prefix. `answer` is what the resolver returned, with `{}` for
a failed lookup; `BadAddrs` are answers that do not parse or are IPv4-mapped.
`Reach` is what an adapter may contact: the resolved addresses of a name, the
address of a literal target, or the network minus the values passed to
`--exclude`.

### DiscoveryRuns

A run identifier stands for one request, the handler thread that serves it and
the worker that executes it. The code's positions map to `pc[r]`:

| `pc` | Where the thread is |
|---|---|
| `idle`, `arrived` | before the request, past `request_discovery_runtime` |
| `admitting`, `denying` | in `_create_run`, checks done, holding `_admission_lock` |
| `admitted` | row committed, before `submit_run` |
| `queued` | in the pool's queue |
| `claimed` ... `cleared` | between the claim, the authorization, DockGuard, the lab gate and the final authorization commit of `_perform` |
| `inflight`, `returned` | inside and after `adapter.run` |
| `publishing` | holding the scope mutation lock after the recheck |
| `failing`, `detached` | in `_fail`, in `_fail_detached` |
| `done` | the thread ended |
| `orphaned`, `abandoned`, `lost` | the thread ended and its row is still active: the handler raised after the admission commit (`HandlerRaises`), the claim raised, or a failure could not be recorded |

A transaction is one step, from its last relevant read to its commit; reads of
other transactions are steps of their own, so that anything may happen between
them. `request` is an input: it is chosen at the start and never changes. A
rejected request may be posted again. `actorOK` is the requester's authority;
whoever changes scope or a lab grant is somebody else whose authority is not
modelled. `grant[d]` is whether an active, unexpired lab authorization exists.
`files[r]` counts the evidence files (one raw artifact, `normalized.json`,
`metadata.json`) that `_store_evidence` writes before the commit. `AckLoss` lets
a commit take effect and still raise, as a lost database connection does. The
pool has `MaxConcurrent` threads, as in the code.

`Contact` requires that no excluded value is a URL: the nmap adapter passes the
stored values to `--exclude`, and nmap refuses a URL there, so the run raises
(`Raise` is enabled in that state too).

Start, `RecoverRun` for each row, `Serve` are the lifespan's order. A crash
removes threads and locks and keeps rows and files.

### Restore

The data directory holds two live paths, two rollback copies, a staging
directory and a marker. A content is a version (from `Versions`), `Torn` or
`Absent`; a pair is whole when the evidence is that of the database, or absent.
`Unsound` versions are those that `_validate_live_data` refuses, for example
because an evidence file was lost before. Each rename or unlink with its
directory flush is a step; `shutil.rmtree` takes two. `FailUnmarked`,
`FailMarked` and `FailCommitted` are the branches of the exception handler;
`Kill` ends the tool at any step and also stands for an error inside the
rollback or the cleanup, which ends the tool as well. `owner` is the instance
lock, which the application and the tools contend for. `prior` is a history
variable.

### Backups

`shot` is a history variable: the pair that was live when the command took the
lock. The command copies the database, then the evidence, so the claim that an
archive is that pair rests on the lock. `Bare` versions refer to no evidence,
and `Later` says whose references another version's evidence also satisfies: a
verification cannot tell such pairs apart. The restore marker is not looked at,
as in the code. `Interfere` is another program at the output name.

### Findings and HttpChecks

An issue stands for one fingerprint of one detector. An observation shows it,
clears it or leaves it unjudged; which of the three is what `HttpChecks` models
in detail for the HTTP rules. The snapshot is two reads, assets and then
observations, and discovery may publish between them. Reading a finding and
writing it are two steps of a run's transaction, and `draft` holds what is not
committed; `RowLocks` says that the database locks a written row, as PostgreSQL
does. `set_status` takes the row lock before it reads. On SQLite, the default
database, there is no such lock, and the run uses that case. The commit of a
publication may take effect and raise (`PublishUnanswered`): `FailRun` then marks
a run failed whose findings are there.

`HttpChecks` has one origin and its answers: a status on each side of every
boundary, and header values that protect or only look like it. The probe keeps 255
characters of a header: of a longer policy `Recorded` keeps the directives that begin
before the cut, and the last of them may lose sources or its name (`Shortened`).
`Protected` is the reference: how a browser reads the whole answer. It is not how
the detector reads it: `Overrated` are the answers the detector takes for protected
and a browser does not (`max-age=0`, a wildcard among the frame ancestors, a wildcard
beside `X-Frame-Options`), `Underrated` those it takes for unprotected (an empty list
of ancestors, a policy cut before its directive ended).

### The workflows

`ValidationRuns` and `IntelligenceRuns` have the same shape: a request row, an
approval that evaluates and then claims with `UPDATE ... WHERE status =
'pending_approval'`, contact, result, and a recovery that fails running rows and
keeps pending ones. Evaluation, claim, contact, evidence and completion are
separate steps, so scope, provider, packet and authority may change between
them. `approvals` and `contacts` or `probes` are history counters. `GatePhase` maps
a row to `ApprovalGate`'s phase; the abstract specification is a property of the run.

`CorrelationRuns` reads assets, then findings with their evidence, derives the
graph from both and publishes it in one commit. `base` is a history field of a row:
what was stored when it was inserted. The refresh after the admission, the commit
that starts the run and the commit of a failure are outside every handler (`Lose`).
`ReportRuns` has the snapshot
transaction (`Visible` is what it sees), the verification of every artifact, the
exports on disk, and the cleanup after a failure; an exception between the insertion
and the `try` leaves the row running (`Lose`); a power loss may take any file
that was not flushed. `LabGrants` has the process lock around create and revoke,
the supersession of active rows, expiry by the clock, and runs that cite a grant.

### Identity

`BrowserSessions`: a token is `<<family, generation>>`. Each call reads the clock
(`Stamp`), then runs its transaction, or two when a touch lost its update
(`Reread`); the clock goes on between the two, because the code reads it before it
waits for the row. `TeamAdministration`: requests
wait for the organization lock and re-read the actor under it; logins of the same
members go on meanwhile. `LoginAttempts`: an attempt stands for its state, browser
token, nonce and verifier; a callback is any drawn state with any issued code in
any browser. `ProviderKeys`: the cache lock, the fetch and its failure, and the
clock values it stores. `RateLimits`: one transaction of the global and the
subject bucket of one action, with a clock value up to `Lag` old. A decision on another
action deletes expired rows of this one too, its global row included, under none of its
locks (`PurgeElsewhere`); `spent` is the history of consumed attempts. `LocalOperator`:
opening, writing and marking the token are separate steps; whoever owns the volume may
change the file at any time. `Only` stands for the comprehensions that keep some
sessions of the table in their order.

## 3. The runs

| Run | Instance | Shows |
|---|---|---|
| `discovery_contention` | 3 runs, 1 slot, 2 history places, safe and lab profiles, 1 crash; or 1 run on every kind of target with 2 includes and 3 overlapping exclusions, at most 4 at once, and 6 DNS answers; symmetric in the runs | caps, audit trail, evidence, ownership of active rows, final states; results are published only inside the scope in force |
| `discovery_liveness` | 2 runs, 2 threads, 1 crash, fairness | runs end but for those forgotten in three named places, restart recovers, close drains |
| `restore` | 2 versions, one unsound, 3 faults, 2 backups, 1 backup fault, fairness | one pair for the application, no pair lost, whole at the end; recovery of sound data finishes; archives are one verified pair |
| `detection` | 2 issues of 2 detectors, 2 requests, 1 operator, 3 observations, no row locks, 1 lost commit or reply; the HTTP checks on both schemes, policies within and across the cut | findings supported, resolved only when cleared, judges that agree |
| `approvals` | 2 concurrent requests per workflow, 1 crash, 1 lost commit, 2 providers, 2 discoveries, 3 linked findings, 3 lab grants | honest validation rows, approved disclosure, faithful and explained graphs, whole reports, one grant in force, the approval gate |
| `workflow_liveness` | the five workflows, 2 requests, 1 crash, 1 exception that no handler records, fairness | a run that was admitted ends, or that exception was its own |
| `identity` | 2 families of 1 member; 3 subjects for 2 places; 5 clients over a window boundary; 2 keys; 2 attempts in 2 browsers; 2 tokens with 2 kills | the identity properties above |
| `discovery_unclaimed` | 1 run | *violation*: a claim that raises leaves a pending row with nobody behind it |
| `discovery_ackloss` | 1 run, `AckLoss` | *violation*: a lost commit reply turns a completed run into a failed one |
| `restore_stuck` | the previous version unsound, 1 fault, fairness | *violation*: recover can never finish |
| `findings_decision` | 1 run, 1 operator | *violation*: a run overwrites an operator's decision |
| `session_cap` | 2 families of 1 member with room for 1 | *violation*: a request that waited brings an idle session back beside the login that took its place |

Why these bounds suffice. Admission conflicts need two requests and a third to
find the place taken, hence three runs for one slot and two places. Each crash
resets every thread, so a second one repeats the first from a reachable state.
The scope recheck concerns one run at a time because the lock excludes other
publications; what matters there is the variety of rules and answers: an
exclusion inside the network, one that covers several addresses, a URL
exclusion, answers that are excluded, hard denied, malformed or partly so.
Three faults allow a failed restore, a failed rollback and a killed recovery in
one behaviour; a second backup meets the output and the leftovers of the first.
A finding needs three observations to open, resolve and reopen. Four instances keep
questions apart with a state constraint (`Focus` in the MC modules): competing runs
under one rule or one run under every scope; operators' decisions or commits that go
wrong; one large graph with a fault or two small ones at once; overlapping session
requests until the first deadline and single ones after it. The theorems need none of
these. The workflows'
conflicts are between two requests: two that count, two that claim, one that
reads while the other publishes; limits are chosen so that the second request
meets them (one retained validation, five edges, two reports). Session families
conflict in pairs as well, with room for one active session and one renewal; the
clock passes the touch, rotation, idle and absolute times. The limiter's global limit of two and
a lag allow four live rows, so five clients are one more than the table may show; a
third window is beyond this clock and is what the theorem adds. Two kills allow one between
the token and its marker and one after. The safety results that section 4 proves
do not rest on these bounds.

Fairness. A handler or worker thread that can take its next step takes it, and
the adapter has a deadline; exceptions are never owed (except nmap's refusal of
a URL exclusion), so a thread that waits for a lock is not rescued by a failure
that need not happen. `Stop` and the startup steps are weakly fair because the
lifespan runs to its end and a supervisor restarts the service.
No fairness is assumed of clients, operators, faults or the closing itself. In
`Restore` and `Backups`, a running tool goes on and the operator runs recover
while startup is refused; nobody is obliged to begin a restore or a backup. In
the workflows, each request thread takes its next step (the probe and the model
provider have deadlines) and an operator's request does not keep its row lock for good.
A row that an exception outside every handler has left stays active until the next
restart, which nobody is obliged to make; `AdmittedRunsEnd` allows it only where such
an exception happened (`Forgotten`), and `RunSettles` only in the three places above.

### Findings

1. `_execute_run` treats an exception of the claim as if the claim belonged to
   somebody else. The row stays pending and counts against
   `max_concurrent_runs` until a restart (`discovery/runner.py:347`).
2. `_fail` overwrites any status. When the final commit takes effect but
   raises, published results belong to a run that says `failed`
   (`discovery/runner.py:692`). `_fail_detached` shows the missing condition.
3. The rollback validates the data it has put back before it removes the
   marker. If the previous data never was valid, the marker stays for good
   (`backup.py:1584`) and startup, restore and recover all refuse.
4. `resolve_absent` reads its candidates and writes `resolved` by key. An
   operator who suppresses or accepts one of them in between loses that decision
   (`findings.py:174`), against the function's own docstring.
5. Session operations judge rows by a time read before they waited for them
   (`session_auth.py:126`). A touch stamped before its session went idle commits after
   a login that no longer counted it: one session more than the cap can authenticate.

The models show some smaller disagreements that have no run of their own,
because the properties were stated as the code can keep them:

* Validation is "bounded to 500 retained requests per Dockyard"
  (`src/ARCHITECTURE.md:481`); the count (`validation/runner.py:108`) has no lock, so
  concurrent requests pass the bound. With a limit of one the instance of `approvals`
  retains two; no property claims a bound.
* "DockGuard runs at both steps and again immediately before the one origin is
  contacted" (`validation/runner.py:6`): there is one evaluation per step, the
  second before the claim; scope may change between the claim and the probe.
* A correlation run is "one immutable stored-state snapshot"
  (`src/ARCHITECTURE.md:123`, also line 340): its reads are separate statements, so a
  finding published between them is in the graph with its subject edge and the asset of
  that edge is not. What does hold is that a graph lies between what was stored at its
  beginning and at its end (`GraphsFaithful`). Two runs may be active at once as well
  (`correlation/runner.py:50`), and the later row may hold the older graph.
* "The newest are read, so a long history stays bounded"
  (`src/ARCHITECTURE.md:500`): a Dockyard with more observations than the limit
  has every detection run refused.
* "The response ... carried neither an X-Frame-Options header nor a
  Content-Security-Policy frame-ancestors directive" (`detection/detectors/http_headers.py:307`):
  the detector reads the record, which holds the first 255 characters of the policy
  (`discovery/http_probe.py:288`). A longer policy whose directive comes later, or is cut
  in the middle, is reported, and a validation confirms it. An empty `frame-ancestors`,
  which forbids all framing, is reported too (`Underrated`).
* A header that protects nothing resolves a finding: `Strict-Transport-Security:
  max-age=0`, which withdraws the protection, a wildcard among other frame ancestors,
  and `X-Frame-Options: DENY` beside a wildcard, which browsers let the policy
  override (`Overrated`, `detection/detectors/http_headers.py:49`).
* "Reopening clears `resolved_at`, because a finding that is open was not resolved"
  (`findings.py:234`): `set_status` locks its row only where the database has row locks;
  on SQLite TLC refutes `ResolvedAtAgrees` when a run resolves a finding that an operator
  has loaded.
* "A detection run must not leave the record ambiguous" (`detection/runner.py:198`):
  when the publishing commit takes effect and raises, the run says `failed` and its
  findings are stored. A correlation run ends the same way with its graph.
* Rows that stay active until a restart, because the exception is raised where no
  handler is: after the admission commit of a discovery run (`discovery/runner.py:249`),
  of a correlation run (`correlation/runner.py:66` and 124) and of a report
  (`reporting/runner.py:132` and 147), and wherever the commit of a failure fails. The
  Dockyard refuses further runs of that kind meanwhile.

Further behaviours a maintainer should know of: pending logins are counted
without a lock and may pass their limit (`oidc.py:120`); a kill between opening and
writing the token file leaves an empty one that every start refuses
(`local_security.py:352`); the backup's output name is checked and replaced in two
steps (`backup.py:1306`); a backup taken during an unfinished restore may pair the
restored database with the previous evidence and verify (`backup.py:1224`); an
intelligence request whose provider changed can be neither approved nor replaced
(`intelligence/runner.py:137`); when the commit of a completed report is
acknowledged late and the failure cannot be committed either, a completed row has
no exports (`reporting/runner.py:224`); denied lab requests use up the history limit.

## 4. The proofs

All proofs are checked by TLAPS from the assumptions named in the modules
(`RunsAssumption`, `BoundsAssumption`, `RequestsAssumption`,
`EntriesAssumption`, `AnswersAssumption`; `VersionsAssumption`,
`FaultsAssumption`, `BackupAssumption`; `FindingsConstants`, `HttpConstants`; `IdentityAssumptions` and `WorkflowAssumptions`, which conjoin
one assumption of each component), which TLC evaluates on every run. They say that
limits and times are natural numbers in the order the configuration enforces and that
the sets of threads, assets and the like are finite. Two concern delays: the limiter's
is at most half a window (`2 * Lag <= Window`: the limiter's connections wait two seconds
for the pool, one for a lock and two for a statement, `database.py:24`, and its windows
are one and ten minutes), and the local throttle's is less than its window. The theorems hold for any finite
set of runs, any Dockyards, rules, DNS answers, limits, crashes, versions and
faults, any number of families, members, threads, grants and reports. In `Identity`
and `Workflow` the invariant is `part = "..." => IInv` of the component concerned: a
component that does not move keeps its initial state, in which its property holds.

**DockGuard.** `AllowedReach`: an allowed decision reaches at least one address
and no hard-denied one. `RecheckSound`: when the recheck with pinned addresses
is allowed and excludes nothing that the first evaluation did not, no current
exclusion meets the addresses that were scanned. This is the fact that makes the
subset test in `_perform` sufficient.

**Discovery.** The inductive invariant `IInv` adds to the properties:
`Flow` (where a thread is decides the status of its row), `Room` (the handler
that holds the admission lock still has the room it counted: the counts cannot
grow under it), `Accounted` (what is on record before each step of an
execution) and `Publishing` (a publisher holds the scope lock and the recheck is
still true). `OwnershipHolds` says where an active row can be without a thread: after
the admission commit, at the claim or after a failure that could not be written; the
first two have contacted nothing. None of the properties is inductive alone: a cap says nothing about
the handler that has counted but not inserted. `CapsHold` and `HistoryBounded` need cardinality
facts (`OneMore`, `Counts`); `PublicationInScope` combines `Publishing` with
`RecheckSound`. `TerminalIsFinal` assumes `~AckLoss`, and the run
`discovery_ackloss` shows that it must.

**Restore.** `IInv` says what the marker's state promises (`MarkerInv`: with no
marker the live pair is whole; prepared, each previous path is in place, kept
aside, or never existed; committed, the live pair is the archive's) and what
each step of the tool finds (`StepInv`). `DataSafe`, `PairServed`, `CommitKept` and
`EndsWholeHolds` follow. `DirectorySafe` carries all of them over to the directory with
backups, whose steps are stutters of `Restore`. `BackupsSafe` is about the archives: a backup
holds the lock while it runs, so the live pair is the one it began with and the private
file holds what was copied so far (`BackupInv`).

**Findings.** The invariant follows a run through its transaction. `Admission`: whoever
counted the active runs still has the lock and nothing was admitted since, hence one run
at a time. `SnapshotCovers`: the evidence of every finding is older than the snapshot of
the run that judges it, because no other run publishes meanwhile; this is what turns "not
shown" into "cleared". `Reconciled`: what was shown is still to do or drafted with the
observation that showed it, and what is drafted as resolved was cleared by a detector that
succeeded. `FindingsSafe` and `ResolutionSafe` hold on every database.
`DatesAgree` assumes `RowLocks`, which SQLite does not have, and no run checks it:
`OperatorAlone` says that a thread that loaded a row has it to itself. Without row locks, TLC shows that `resolved_at` can be left on an open
finding: the update writes only the columns that differ from the row as it was loaded.
That the newest observation exists (`Greatest`) is proved from the well-foundedness of
the numbers.

**HTTP checks.** `ChecksSafe`, for any statuses, policies and length of the record: a
finding is resolved only by an answer that protects a browser or is `Overrated`, opened
only for one that does not or is `Underrated`, and detector and validation agree on every
record.
The invariant is that open findings are of the origin's scheme. The argument is that a cut
only takes a restriction away (`CutPolicy`): what a record shows, the answer has.

**Sessions.** `IInv` adds to the properties the shape of a family (`FamilyShape`:
generations are contiguous, only the last is unrotated, its predecessors point to
it), the order of the times on a row (`TimesPassed`: a time on record has passed for
every call that reads it) and what a request carries from its timestamp to its
transaction. `SessionLineageSafe` (one live generation per family), `DisabledIsOutSafe`,
`AnswersSafe` (what a call answers was true of the row it locked), `LoginsCappedSafe`
(a login leaves no more than the cap when it commits) and `ClosedForGood` hold however
long a request waits with its timestamp. `ClosedForGood`: a family without a current
generation never has one again, and a family that went idle comes back only by a request
that was stamped while it was current, and before its deadline. That exception is what
breaks the cap at all times, and `session_cap` shows it.

**Team administration.** `TeamSafe`: one active owner at every commit, no disabled
member with a session, one audit event per change. Beyond `TeamHolds`, `IInv` needs that
whoever is past the re-read under the organization lock still has the role it read
(`HolderAuthorized`), which holds because role changes take the same lock.

**Keys and logins.** `KeysSafe`: a withdrawn key is trusted no longer than the cache's
lifetime; the cached set was served at some past time (`CacheWasServed`) and no stored
time is ahead of the clock (`TimesPassed`). `LoginsSafe`: a session comes from one
attempt, consumed once, in the browser that began it. A callback between the row's
consumption and the session has the attempt to itself (`OneHolder`), and what it carries
is what the cookie and the code were bound to (`CallBound`, `CookiesBound`,
`SessionsFinal`). `AuditSafe`: an attempt that is burnt has its audit event.

**Local operator.** `OperatorSafe`. No token is generated once a start has served,
because a start that served has left its marker (`MarkedOnceServed`). Every session of the
table was issued, is not burned, and is there once (`SessionsKnown`); cutting, touching
and appending keep that (`OnlyKnown`, `SuffixKnown`, `AppendKnown`). For the throttles,
the deque holds every attempt that passed less than a window ago, although requests read
the clock before they take the lock (`Remembers`); therefore attempts that are `Limit`
apart in the history are a window less the lag apart (`Spaced`), and numbers less than
`Limit` apart are at most `Limit` (`CloseTogether`).

**Rate limits.** `LimitsSafe`. The invariant relates each row to the history of its key
(`Sound`): it counts the latest attempts and expires a window after the first of them, or
up to `Lag` earlier (`Counts`); what came a full row before is nearly a window older
(`Older`), so that a row may be lost once it has expired and the next begun without
forgetting a current attempt; hence attempts `Windows` limits apart are a window apart
(`Spaced`). The live rows of subjects are covered by four sets, those begun first and
later in the current global window, in the previous one and in the one before
(`RowsBegun`). A decision consists of the cases *new window*, *count* and *drop*, each a
lemma. The proof changed the model: the cleanup has no condition on the action, so other
actions' decisions can remove a global row (`PurgeElsewhere`); then a lag of nearly a
window would break the budget and three global windows, not two, can have live rows when
clocks lag. The bounds say so; the one on rows is reached.

**Approvals.** `ValidationSafe` and `AdviceSafe` rest on: each row tells its own history
truthfully (`RowHonest`), at most one thread works on a running row (`OneWorker`, because
the claim is conditional on `pending_approval`), and every row is one of
the gate's `Requests`: those that pass the limit are fewer than the threads
(`SlackBounded`). `ApprovedOnceSafe` is the
refinement of `ApprovalGate` by both workflows: under `IInv` every step of a row is a step
of the gate on that request or a stutter, with one lemma per action.

**Lab grants, reports and graphs.** `LabSafe`: at most one grant of a capability is in
force, because the holder of the process lock saw the current rows (`HolderIsCurrent`) and
an active row is the newest (`ActiveAlone`, `ActiveIsNewer`). `ReportSafe`: a completed
report is a state the database really had (`StateOf(db)` is in the history), whole, with
every artifact verified; the invariant says what each step of the generation has read and
written (`AtWork`) and that a row's files are there as long as it claims them (`Whole`).
`GraphsSafe`: what a run has read is stored and at least what was stored when it was
inserted (`AtWork`, `Within`), and the derivation is monotone in what it reads, so a
graph lies between the two stores and holds the reason of every pair.

**Only model-checked.**

* Liveness (`RunSettles`, `RestartRecovers`, `CloseDrains`, `SoundRecoveryFinishes`,
  `AdmittedRunsEnd`): beyond the prover.
* That the five findings are reachable: TLC's counterexamples.

Every other property of the runs is stated by a theorem. Where a proof needs induction
over numbers, it is stated for a set (`Least`, `Successors`), from the well-foundedness
of the numbers, because the library's induction theorems take an operator as a parameter.

## 5. Not modelled

The text of targets and the prefix arithmetic of `ipaddress`; adapters' parsing
and their network behaviour; how an asset's names and addresses are merged;
enrichment, fingerprints and plugin manifests; the service and certificate
detectors, which are one condition each; rendering and the layout of reports and
packages; the archive format of backups and its validation; signatures, claims
and endpoint checks of OIDC; several server processes on one database for the
workflows whose locks are process-local (the deployment runs one); the header
checks of a single request; migrations, which Alembic carries out; the frontend;
schemas and routing.

## 6. Plan

1. Done: all components above, checked; the safety of every component proved, and the
   approval gate as a refinement.
2. The network subtraction of `_subtract` against its set definition; the merge of
   assets in the inventory.
