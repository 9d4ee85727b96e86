------------------------------- MODULE Restore -------------------------------
(***************************************************************************)
(* The offline restore of backend/app/backup.py: _restore_backup_locked,   *)
(* its in-process rollback, the recover command (_recover_restore_locked)  *)
(* and the startup check that refuses an unfinished restore.  The data     *)
(* directory holds a database and an evidence tree, two paths that cannot  *)
(* be replaced together; the tool may be killed, or lose an operation to   *)
(* the file system, between any two steps.  Each rename and each unlink is *)
(* made durable before the next one, so it is one step; removing a tree is *)
(* not, and may stop half way.                                             *)
(***************************************************************************)
EXTENDS Naturals

CONSTANTS
  Versions,    \* what a database and its evidence may hold
  Unsound,     \* the versions that _validate_live_data refuses
  Absent,      \* the path does not exist
  Torn,        \* the path exists with only part of its content
  MaxFaults    \* bound on kills and failed operations

ASSUME VersionsAssumption ==
  Unsound \subseteq Versions /\ Absent \notin Versions /\ Torn \notin Versions /\ Absent # Torn
ASSUME FaultsAssumption == MaxFaults \in Nat

VARIABLES
  live,        \* reddock.db and evidence
  kept,        \* the rollback copies of both
  stage,       \* the staging directory: does it exist, and its two members
  marker,      \* .reddock-restore.json
  owner,       \* who holds the instance lock of the data directory
  pc,          \* the tool's next step
  incoming,    \* the version in the archive being restored
  prior,       \* the pair that was live when the restore began (history)
  faults

vars == <<live, kept, stage, marker, owner, pc, incoming, prior, faults>>

-----------------------------------------------------------------------------
Content == Versions \cup {Absent, Torn}
Pair(d, e) == [db |-> d, ev |-> e]
Pairs == [db : Content, ev : Content]
Nothing == Pair(Absent, Absent)
NoStage == [dir |-> FALSE, db |-> Absent, ev |-> Absent]
NoMarker == [state |-> "none", hadDb |-> FALSE, hadEv |-> FALSE]
Markers == [state : {"none", "prepared", "committed"}, hadDb : BOOLEAN, hadEv : BOOLEAN]

\* The database and the evidence of one version; evidence may not exist yet.
Coherent(p) ==
  \/ p = Nothing
  \/ p.db \in Versions /\ p.ev \in {p.db, Absent}

\* _validate_live_data
Valid(p, requireEvidence) ==
  /\ p.db \in Versions \ Unsound
  /\ p.ev = p.db \/ (p.ev = Absent /\ ~requireEvidence)

\* One half of shutil.rmtree: a tree is torn before it is gone.
Shred(tree) == IF tree = Torn THEN Absent ELSE Torn

RestorePC == {"mkdir", "mark", "extract", "moveDb", "moveEv", "putDb", "putEv",
              "validate", "commit"}
RollbackPC == {"backEv", "backDb", "check", "clear"}
CleanupPC == {"verify", "dropDb", "dropEv", "unstage"}

Init ==
  /\ live \in {Pair(v, v) : v \in Versions} \cup {Pair(v, Absent) : v \in Versions} \cup {Nothing}
  /\ kept = Nothing
  /\ stage = NoStage
  /\ marker = NoMarker
  /\ owner = "none"
  /\ pc = "idle"
  /\ incoming \in Versions \ Unsound
  /\ prior = live
  /\ faults = 0

-----------------------------------------------------------------------------
(* The application *)

\* Mutant: startup does not look for a marker.
StartAppUnchecked ==
  /\ owner = "none"
  /\ owner' = "app"
  /\ \E v \in Versions \ Unsound :
       live' = IF live.db = Absent THEN [live EXCEPT !.db = v] ELSE live
  /\ UNCHANGED <<kept, stage, marker, pc, incoming, prior, faults>>

\* The lock, then assert_no_incomplete_restore, then the migrations, which
\* create a missing database.
StartApp ==
  /\ owner = "none" /\ marker.state = "none"
  /\ owner' = "app"
  /\ \E v \in Versions \ Unsound :
       live' = IF live.db = Absent THEN [live EXCEPT !.db = v] ELSE live
  /\ UNCHANGED <<kept, stage, marker, pc, incoming, prior, faults>>

WriteEvidence ==
  /\ owner = "app" /\ live.ev = Absent
  /\ live' = [live EXCEPT !.ev = live.db]
  /\ UNCHANGED <<kept, stage, marker, owner, pc, incoming, prior, faults>>

StopApp ==
  /\ owner = "app"
  /\ owner' = "none"
  /\ UNCHANGED <<live, kept, stage, marker, pc, incoming, prior, faults>>

-----------------------------------------------------------------------------
(* restore_backup *)

BeginRestore ==
  /\ owner = "none" /\ marker.state = "none"
  /\ live.ev # Absent => live.db # Absent
  /\ owner' = "tool" /\ pc' = "mkdir"
  /\ incoming' \in Versions \ Unsound
  /\ prior' = live
  /\ UNCHANGED <<live, kept, stage, marker, faults>>

At(here, next) == owner = "tool" /\ pc = here /\ pc' = next

MakeStage ==
  /\ At("mkdir", "mark")
  /\ stage' = [dir |-> TRUE, db |-> Absent, ev |-> Absent]
  /\ UNCHANGED <<live, kept, marker, owner, incoming, prior, faults>>

Prepared == [state |-> "prepared", hadDb |-> live.db # Absent, hadEv |-> live.ev # Absent]

WriteMarker ==
  /\ At("mark", "extract")
  /\ marker' = Prepared
  /\ UNCHANGED <<live, kept, stage, owner, incoming, prior, faults>>

\* Members appear one by one before all of them are verified and flushed.
ExtractSome ==
  /\ At("extract", "extract") /\ stage.db = Absent
  /\ \E e \in {Absent, Torn} : stage' = [stage EXCEPT !.db = Torn, !.ev = e]
  /\ UNCHANGED <<live, kept, marker, owner, incoming, prior, faults>>

ExtractAll ==
  /\ At("extract", "moveDb")
  /\ stage' = [stage EXCEPT !.db = incoming, !.ev = incoming]
  /\ UNCHANGED <<live, kept, marker, owner, incoming, prior, faults>>

MoveDatabase ==
  /\ At("moveDb", "moveEv")
  /\ IF live.db = Absent
     THEN UNCHANGED <<live, kept>>
     ELSE kept' = [kept EXCEPT !.db = live.db] /\ live' = [live EXCEPT !.db = Absent]
  /\ UNCHANGED <<stage, marker, owner, incoming, prior, faults>>

MoveEvidence ==
  /\ At("moveEv", "putDb")
  /\ IF live.ev = Absent
     THEN UNCHANGED <<live, kept>>
     ELSE kept' = [kept EXCEPT !.ev = live.ev] /\ live' = [live EXCEPT !.ev = Absent]
  /\ UNCHANGED <<stage, marker, owner, incoming, prior, faults>>

PutDatabase ==
  /\ At("putDb", "putEv")
  /\ live' = [live EXCEPT !.db = stage.db]
  /\ stage' = [stage EXCEPT !.db = Absent]
  /\ UNCHANGED <<kept, marker, owner, incoming, prior, faults>>

PutEvidence ==
  /\ At("putEv", "validate")
  /\ live' = [live EXCEPT !.ev = stage.ev]
  /\ stage' = [stage EXCEPT !.ev = Absent]
  /\ UNCHANGED <<kept, marker, owner, incoming, prior, faults>>

ValidateRestored ==
  /\ At("validate", "commit")
  /\ Valid(live, TRUE)
  /\ UNCHANGED <<live, kept, stage, marker, owner, incoming, prior, faults>>

\* Mutant: the commit record has a state the recovery does not know.
CommitUnknown ==
  /\ At("commit", "dropDb")
  /\ marker' = [marker EXCEPT !.state = "complete"]
  /\ UNCHANGED <<live, kept, stage, owner, incoming, prior, faults>>

Commit ==
  /\ At("commit", "dropDb")
  /\ marker' = [marker EXCEPT !.state = "committed"]
  /\ UNCHANGED <<live, kept, stage, owner, incoming, prior, faults>>

\* Mutant: the evidence rollback copy is left behind.
DropDatabaseOnly ==
  /\ At("dropDb", "unstage")
  /\ kept' = [kept EXCEPT !.db = Absent]
  /\ UNCHANGED <<live, stage, marker, owner, incoming, prior, faults>>

\* Cleanup after a commit, in the restore or by recover --confirm-finalize.
DropDatabase ==
  /\ At("dropDb", "dropEv")
  /\ kept' = [kept EXCEPT !.db = Absent]
  /\ UNCHANGED <<live, stage, marker, owner, incoming, prior, faults>>

DropEvidence ==
  /\ owner = "tool" /\ pc = "dropEv"
  /\ IF kept.ev = Absent
     THEN pc' = "unstage" /\ UNCHANGED kept
     ELSE kept' = [kept EXCEPT !.ev = Shred(kept.ev)] /\ UNCHANGED pc
  /\ UNCHANGED <<live, stage, marker, owner, incoming, prior, faults>>

\* _rmtree_durable(staging), in the cleanup and in the rollback.
ShredStage ==
  /\ owner = "tool" /\ pc \in {"unstage", "clear"}
  /\ \E d \in {stage.db, Absent}, e \in {stage.ev, Torn, Absent} :
       stage' = [stage EXCEPT !.db = d, !.ev = IF stage.ev = Absent THEN Absent ELSE e]
  /\ UNCHANGED <<live, kept, marker, owner, pc, incoming, prior, faults>>

\* The marker goes last, and the tool ends.
Finish ==
  /\ owner = "tool" /\ pc \in {"unstage", "clear"} /\ ~stage.dir
  /\ marker' = NoMarker
  /\ owner' = "none" /\ pc' = "idle"
  /\ UNCHANGED <<live, kept, stage, incoming, prior, faults>>

RemoveStage ==
  /\ owner = "tool" /\ pc \in {"unstage", "clear"} /\ stage.dir
  /\ stage' = NoStage
  /\ UNCHANGED <<live, kept, marker, owner, pc, incoming, prior, faults>>

-----------------------------------------------------------------------------
(* recover_restore, also called by the restore that fails *)

\* Mutant: every marker is rolled back, a committed one included.
BeginRecoverBack ==
  /\ owner = "none" /\ marker.state # "none"
  /\ marker.hadEv => marker.hadDb
  /\ owner' = "tool" /\ pc' = "backEv"
  /\ UNCHANGED <<live, kept, stage, marker, incoming, prior, faults>>

\* Mutant: only a prepared restore can be recovered.
BeginRecoverPrepared ==
  /\ owner = "none" /\ marker.state = "prepared"
  /\ marker.hadEv => marker.hadDb
  /\ owner' = "tool" /\ pc' = "backEv"
  /\ UNCHANGED <<live, kept, stage, marker, incoming, prior, faults>>

\* With the confirmation that the marker's state asks for.
BeginRecover ==
  /\ owner = "none" /\ marker.state # "none"
  /\ marker.hadEv => marker.hadDb
  /\ owner' = "tool"
  /\ pc' = IF marker.state = "prepared" THEN "backEv" ELSE "verify"
  /\ UNCHANGED <<live, kept, stage, marker, incoming, prior, faults>>

\* The tool ends with an error and changes nothing more.
GiveUp == owner' = "none" /\ pc' = "idle"

VerifyCommitted ==
  /\ owner = "tool" /\ pc = "verify"
  /\ IF Valid(live, TRUE) THEN pc' = "dropDb" /\ UNCHANGED owner ELSE GiveUp
  /\ UNCHANGED <<live, kept, stage, marker, incoming, prior, faults>>

\* Mutant: live evidence counts as the archive's whenever none is staged.
BackEvidenceBlind ==
  /\ owner = "tool" /\ pc = "backEv"
  /\ IF kept.ev # Absent /\ live.ev = Absent
     THEN /\ live' = [live EXCEPT !.ev = kept.ev]
          /\ kept' = [kept EXCEPT !.ev = Absent]
          /\ pc' = "backDb"
     ELSE IF live.ev # Absent /\ (kept.ev # Absent \/ stage.ev = Absent)
     THEN live' = [live EXCEPT !.ev = Shred(live.ev)] /\ UNCHANGED <<kept, pc>>
     ELSE pc' = "backDb" /\ UNCHANGED <<live, kept>>
  /\ UNCHANGED <<stage, marker, owner, incoming, prior, faults>>

\* Each path in two steps: the half-restored one goes, the kept one returns.
BackEvidence ==
  /\ owner = "tool" /\ pc = "backEv"
  /\ IF kept.ev # Absent /\ live.ev = Absent
     THEN /\ live' = [live EXCEPT !.ev = kept.ev]
          /\ kept' = [kept EXCEPT !.ev = Absent]
          /\ pc' = "backDb"
     ELSE IF live.ev # Absent /\ (kept.ev # Absent \/ (~marker.hadEv /\ stage.ev = Absent))
     THEN live' = [live EXCEPT !.ev = Shred(live.ev)] /\ UNCHANGED <<kept, pc>>
     ELSE pc' = "backDb" /\ UNCHANGED <<live, kept>>
  /\ UNCHANGED <<stage, marker, owner, incoming, prior, faults>>

BackDatabase ==
  /\ owner = "tool" /\ pc = "backDb"
  /\ IF kept.db # Absent /\ live.db = Absent
     THEN /\ live' = [live EXCEPT !.db = kept.db]
          /\ kept' = [kept EXCEPT !.db = Absent]
          /\ pc' = "check"
     ELSE IF live.db # Absent /\ (kept.db # Absent \/ (~marker.hadDb /\ stage.db = Absent))
     THEN live' = [live EXCEPT !.db = Absent] /\ UNCHANGED <<kept, pc>>
     ELSE pc' = "check" /\ UNCHANGED <<live, kept>>
  /\ UNCHANGED <<stage, marker, owner, incoming, prior, faults>>

CheckRolledBack ==
  /\ owner = "tool" /\ pc = "check"
  /\ IF marker.hadDb => Valid(live, marker.hadEv)
     THEN pc' = "clear" /\ UNCHANGED owner
     ELSE GiveUp
  /\ UNCHANGED <<live, kept, stage, marker, incoming, prior, faults>>

-----------------------------------------------------------------------------
(* Faults *)

\* An exception before the marker is known to exist: the staging directory
\* is removed, and the marker may be there all the same.
FailUnmarked ==
  /\ owner = "tool" /\ pc \in {"mkdir", "mark"} /\ faults < MaxFaults
  /\ GiveUp
  /\ stage' = NoStage
  /\ marker' \in IF pc = "mark" THEN {marker, Prepared} ELSE {marker}
  /\ faults' = faults + 1
  /\ UNCHANGED <<live, kept, incoming, prior>>

\* An exception of a later step, a refused archive included, rolls back.
FailMarked ==
  /\ owner = "tool" /\ pc \in RestorePC \ {"mkdir", "mark"} /\ faults < MaxFaults
  /\ pc' = "backEv"
  /\ faults' = faults + 1
  /\ UNCHANGED <<live, kept, stage, marker, owner, incoming, prior>>

\* The commit record was replaced but could not be flushed.
FailCommitted ==
  /\ owner = "tool" /\ pc = "commit" /\ faults < MaxFaults
  /\ marker' = [marker EXCEPT !.state = "committed"]
  /\ GiveUp
  /\ faults' = faults + 1
  /\ UNCHANGED <<live, kept, stage, incoming, prior>>

\* The tool is killed, the host stops, or a rollback or cleanup step fails.
Kill ==
  /\ owner = "tool" /\ faults < MaxFaults
  /\ GiveUp
  /\ faults' = faults + 1
  /\ UNCHANGED <<live, kept, stage, marker, incoming, prior>>

-----------------------------------------------------------------------------
RestoreStep ==
  \/ MakeStage \/ WriteMarker \/ ExtractSome \/ ExtractAll \/ MoveDatabase
  \/ MoveEvidence \/ PutDatabase \/ PutEvidence \/ ValidateRestored \/ Commit
CleanupStep ==
  \/ VerifyCommitted \/ DropDatabase \/ DropEvidence
  \/ ShredStage \/ RemoveStage \/ Finish
RollbackStep == BackEvidence \/ BackDatabase \/ CheckRolledBack

ToolStep == RestoreStep \/ CleanupStep \/ RollbackStep
Fault == FailUnmarked \/ FailMarked \/ FailCommitted \/ Kill
App == StartApp \/ WriteEvidence \/ StopApp

Next == App \/ BeginRestore \/ BeginRecover \/ ToolStep \/ Fault

Spec == Init /\ [][Next]_vars

\* A running tool goes on, and the operator runs recover while startup is
\* refused.
FairSpec == Spec /\ WF_vars(ToolStep) /\ WF_vars(BeginRecover)

-----------------------------------------------------------------------------
(* Properties *)

\* Every path holds a version, part of one or nothing, and the tool's step is
\* one of the code's.
TypeOK ==
  /\ live \in Pairs /\ kept \in Pairs /\ prior \in Pairs
  /\ stage \in [dir : BOOLEAN, db : Content, ev : Content]
  /\ marker \in Markers
  /\ owner \in {"none", "app", "tool"}
  /\ pc \in RestorePC \cup RollbackPC \cup CleanupPC \cup {"idle"}
  /\ incoming \in Versions \ Unsound
  /\ faults \in 0..MaxFaults

Restored == Pair(incoming, incoming)

\* The application never serves a database next to the evidence of another
\* one, whatever was interrupted before it started (database.py's startup
\* check and the order of the marker's writes).
AppSeesOnePair == owner = "app" => Coherent(live)

\* Until the commit record is written the previous database and evidence
\* still exist whole, in place or as rollback copies.
PriorRecoverable ==
  marker.state = "prepared" =>
    /\ prior.db # Absent => prior.db \in {live.db, kept.db}
    /\ prior.ev # Absent => prior.ev \in {live.ev, kept.ev}

\* Once the commit record is written the live pair is the archive's, and no
\* fault or recovery takes it away.
CommittedIsRestored == marker.state = "committed" => live = Restored

\* When a tool ends and leaves no marker, the live pair is the previous one or
\* the restored one, with no rollback copy left.
EndsWhole ==
  [][owner = "tool" /\ owner' = "none" /\ marker'.state = "none" =>
       live' \in {prior, Restored} /\ kept' = Nothing]_vars

\* A restore that was interrupted can always be finished by recover.
RecoveryFinishes == marker.state # "none" ~> marker.state = "none"

\* What recovery does promise: it finishes when the data it may have to put
\* back passes the validation it is put through.
SoundRecoveryFinishes ==
  marker.state # "none" /\ prior.db \notin Unsound ~> marker.state = "none"

-----------------------------------------------------------------------------
(* The inductive invariant of the proofs *)

\* Where the previous database (evidence) is while a restore is prepared: in
\* place, kept aside, or it never existed and the archive's was installed.
DbHeld ==
  \/ live.db = prior.db /\ kept.db = Absent
  \/ prior.db # Absent /\ kept.db = prior.db /\ live.db \in {Absent, incoming}
  \/ prior.db = Absent /\ kept.db = Absent /\ live.db = incoming /\ stage.db = Absent

EvHeld ==
  \/ live.ev = prior.ev /\ kept.ev = Absent
  \/ prior.ev # Absent /\ kept.ev = prior.ev /\ live.ev \in {Absent, Torn, incoming}
  \/ prior.ev = Absent /\ kept.ev = Absent /\ live.ev \in {Torn, incoming} /\ stage.ev = Absent

\* What the marker's state says of the data directory.
MarkerInv ==
  /\ marker.state = "none" =>
       kept = Nothing /\ Coherent(live) /\ pc \in {"idle", "mkdir", "mark"}
  /\ marker.state = "prepared" =>
       /\ DbHeld /\ EvHeld
       /\ pc \in {"idle"} \cup (RestorePC \ {"mkdir", "mark"}) \cup RollbackPC
  /\ marker.state = "committed" => live = Restored /\ pc \in {"idle"} \cup CleanupPC
  /\ marker.state # "none" =>
       /\ marker.hadDb = (prior.db # Absent) /\ marker.hadEv = (prior.ev # Absent)

\* What each step of the tool finds.
StepInv ==
  /\ owner = "tool" <=> pc # "idle"
  /\ owner = "app" => marker.state = "none" /\ live.db # Absent
  /\ pc \in {"mkdir", "mark", "extract", "moveDb", "check", "clear"} =>
       live = prior /\ kept = Nothing
  /\ pc \in {"moveDb", "moveEv", "putDb"} => stage.db = incoming
  /\ pc \in {"moveDb", "moveEv", "putDb", "putEv"} => stage.ev = incoming
  /\ pc = "moveEv" => live = Pair(Absent, prior.ev) /\ kept = Pair(prior.db, Absent)
  /\ pc \in {"putDb", "putEv", "validate", "commit"} => kept = prior
  /\ pc = "putDb" => live = Nothing
  /\ pc = "putEv" => live = Pair(incoming, Absent)
  /\ pc \in {"putEv", "validate", "commit"} => stage.db = Absent
  /\ pc \in {"validate", "commit"} => live = Restored /\ stage.ev = Absent
  /\ pc = "backDb" => live.ev = prior.ev /\ kept.ev = Absent
  /\ pc = "dropEv" => kept.db = Absent
  /\ pc = "unstage" => kept = Nothing

IInv == TypeOK /\ Coherent(prior) /\ MarkerInv /\ StepInv
=============================================================================
