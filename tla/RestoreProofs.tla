---------------------------- MODULE RestoreProofs ----------------------------
(***************************************************************************)
(* Proofs about Restore, and about the create command on the same          *)
(* directory, for every set of versions and any number of faults and       *)
(* backups.  One lemma per part of the inductive invariant, one step per   *)
(* action.                                                                 *)
(***************************************************************************)
EXTENDS DataDirectory, TLAPS

\* The first state is sound: no marker, no copy, one pair in place.
LEMMA IInvInit == Init => IInv
<1> SUFFICES ASSUME Init PROVE IInv
  OBVIOUS
<1>1. TypeOK
  BY VersionsAssumption, FaultsAssumption
     DEF Init, TypeOK, Pairs, Pair, Nothing, NoStage, NoMarker, Markers, Content
<1>2. Coherent(prior)
  BY DEF Init, Coherent, Pair, Nothing
<1>3. MarkerInv
  BY DEF Init, MarkerInv, Coherent, Pair, Nothing, NoMarker
<1>4. StepInv
  BY DEF Init, StepInv
<1> QED
  BY <1>1, <1>2, <1>3, <1>4 DEF IInv

\* Every step keeps the type invariant.
LEMMA TypeNext == IInv /\ [Next]_vars => TypeOK'
<1> SUFFICES ASSUME IInv, [Next]_vars PROVE TypeOK'
  OBVIOUS
<1> USE VersionsAssumption, FaultsAssumption DEF IInv, TypeOK, Pairs, Pair, Markers, Content, NoStage, NoMarker, RestorePC, RollbackPC, CleanupPC
<1>1. CASE StartApp
  BY <1>1 DEF StartApp
<1>2. CASE WriteEvidence
  BY <1>2 DEF WriteEvidence
<1>3. CASE StopApp
  BY <1>3 DEF StopApp
<1>4. CASE BeginRestore
  BY <1>4 DEF BeginRestore
<1>5. CASE BeginRecover
  BY <1>5 DEF BeginRecover
<1>6. CASE MakeStage
  BY <1>6 DEF MakeStage, At
<1>7. CASE WriteMarker
  BY <1>7 DEF WriteMarker, At, Prepared
<1>8. CASE ExtractSome
  <2>1. PICK e \in {Absent, Torn} : stage' = [stage EXCEPT !.db = Torn, !.ev = e]
    BY <1>8 DEF ExtractSome
  <2>2. stage' = [dir |-> stage.dir, db |-> Torn, ev |-> e] /\ stage.dir \in BOOLEAN
    BY <2>1
  <2> QED
    BY <1>8, <2>2 DEF ExtractSome, At
<1>9. CASE ExtractAll
  <2>1. stage' = [dir |-> stage.dir, db |-> incoming, ev |-> incoming] /\ stage.dir \in BOOLEAN
    BY <1>9 DEF ExtractAll
  <2> QED
    BY <1>9, <2>1 DEF ExtractAll, At
<1>10. CASE MoveDatabase
  BY <1>10 DEF MoveDatabase, At
<1>11. CASE MoveEvidence
  BY <1>11 DEF MoveEvidence, At
<1>12. CASE PutDatabase
  BY <1>12 DEF PutDatabase, At
<1>13. CASE PutEvidence
  BY <1>13 DEF PutEvidence, At
<1>14. CASE ValidateRestored
  BY <1>14 DEF ValidateRestored, At
<1>15. CASE Commit
  BY <1>15 DEF Commit, At
<1>16. CASE VerifyCommitted
  BY <1>16 DEF VerifyCommitted, GiveUp, Valid
<1>17. CASE DropDatabase
  BY <1>17 DEF DropDatabase, At
<1>18. CASE DropEvidence
  BY <1>18 DEF DropEvidence, Shred
<1>19. CASE ShredStage
  <2>1. PICK d \in {stage.db, Absent}, x \in {stage.ev, Torn, Absent} :
          stage' = [stage EXCEPT !.db = d, !.ev = IF stage.ev = Absent THEN Absent ELSE x]
    BY <1>19 DEF ShredStage
  <2> DEFINE e == IF stage.ev = Absent THEN Absent ELSE x
  <2>2. stage' = [dir |-> stage.dir, db |-> d, ev |-> e] /\ stage.dir \in BOOLEAN
    BY <2>1
  <2>3. d \in Content /\ e \in Content
    OBVIOUS
  <2>4. UNCHANGED <<live, kept, marker, owner, pc, incoming, prior, faults>>
    BY <1>19 DEF ShredStage
  <2> HIDE DEF e
  <2> QED
    BY <2>2, <2>3, <2>4
<1>20. CASE RemoveStage
  BY <1>20 DEF RemoveStage
<1>21. CASE Finish
  BY <1>21 DEF Finish
<1>22. CASE BackEvidence
  BY <1>22 DEF BackEvidence, Shred
<1>23. CASE BackDatabase
  BY <1>23 DEF BackDatabase
<1>24. CASE CheckRolledBack
  BY <1>24 DEF CheckRolledBack, GiveUp, Valid
<1>25. CASE FailUnmarked
  <2>1. Prepared \in Markers
    BY DEF Prepared
  <2>2. marker' \in Markers
    BY <1>25, <2>1 DEF FailUnmarked
  <2> QED
    BY <1>25, <2>2 DEF FailUnmarked, GiveUp
<1>26. CASE FailMarked
  BY <1>26 DEF FailMarked
<1>27. CASE FailCommitted
  BY <1>27 DEF FailCommitted, GiveUp
<1>28. CASE Kill
  BY <1>28 DEF Kill, GiveUp
<1>29. CASE UNCHANGED vars
  BY <1>29 DEF vars
<1> HIDE DEF IInv, TypeOK, Pairs, Pair, Markers, Content, NoStage, NoMarker, RestorePC, RollbackPC, CleanupPC
<1> QED
  BY <1>1, <1>2, <1>3, <1>4, <1>5, <1>6, <1>7, <1>8, <1>9, <1>10, <1>11, <1>12, <1>13,
     <1>14, <1>15, <1>16, <1>17, <1>18, <1>19, <1>20, <1>21, <1>22, <1>23, <1>24, <1>25, <1>26, <1>27, <1>28, <1>29
     DEF Next, App, RestoreStep, CleanupStep, RollbackStep, ToolStep, Fault

\* The pair that a restore starts from is one pair.
LEMMA PriorNext == IInv /\ [Next]_vars => Coherent(prior)'
<1> SUFFICES ASSUME IInv, [Next]_vars PROVE Coherent(prior)'
  OBVIOUS
<1> USE VersionsAssumption, FaultsAssumption DEF IInv, Coherent, MarkerInv, Nothing, Pair
<1>1. CASE StartApp
  BY <1>1 DEF StartApp
<1>2. CASE WriteEvidence
  BY <1>2 DEF WriteEvidence
<1>3. CASE StopApp
  BY <1>3 DEF StopApp
<1>4. CASE BeginRestore
  BY <1>4 DEF BeginRestore
<1>5. CASE BeginRecover
  BY <1>5 DEF BeginRecover
<1>6. CASE MakeStage
  BY <1>6 DEF MakeStage, At
<1>7. CASE WriteMarker
  BY <1>7 DEF WriteMarker, At, Prepared
<1>8. CASE ExtractSome
  BY <1>8 DEF ExtractSome, At
<1>9. CASE ExtractAll
  BY <1>9 DEF ExtractAll, At
<1>10. CASE MoveDatabase
  BY <1>10 DEF MoveDatabase, At
<1>11. CASE MoveEvidence
  BY <1>11 DEF MoveEvidence, At
<1>12. CASE PutDatabase
  BY <1>12 DEF PutDatabase, At
<1>13. CASE PutEvidence
  BY <1>13 DEF PutEvidence, At
<1>14. CASE ValidateRestored
  BY <1>14 DEF ValidateRestored, At
<1>15. CASE Commit
  BY <1>15 DEF Commit, At
<1>16. CASE VerifyCommitted
  BY <1>16 DEF VerifyCommitted, GiveUp
<1>17. CASE DropDatabase
  BY <1>17 DEF DropDatabase, At
<1>18. CASE DropEvidence
  BY <1>18 DEF DropEvidence, Shred
<1>19. CASE ShredStage
  BY <1>19 DEF ShredStage
<1>20. CASE RemoveStage
  BY <1>20 DEF RemoveStage
<1>21. CASE Finish
  BY <1>21 DEF Finish
<1>22. CASE BackEvidence
  BY <1>22 DEF BackEvidence, Shred
<1>23. CASE BackDatabase
  BY <1>23 DEF BackDatabase
<1>24. CASE CheckRolledBack
  BY <1>24 DEF CheckRolledBack, GiveUp, Valid
<1>25. CASE FailUnmarked
  BY <1>25 DEF FailUnmarked, GiveUp, Prepared
<1>26. CASE FailMarked
  BY <1>26 DEF FailMarked
<1>27. CASE FailCommitted
  BY <1>27 DEF FailCommitted, GiveUp
<1>28. CASE Kill
  BY <1>28 DEF Kill, GiveUp
<1>29. CASE UNCHANGED vars
  BY <1>29 DEF vars
<1> HIDE DEF IInv, Coherent, MarkerInv, Nothing, Pair
<1> QED
  BY <1>1, <1>2, <1>3, <1>4, <1>5, <1>6, <1>7, <1>8, <1>9, <1>10, <1>11, <1>12, <1>13,
     <1>14, <1>15, <1>16, <1>17, <1>18, <1>19, <1>20, <1>21, <1>22, <1>23, <1>24, <1>25, <1>26, <1>27, <1>28, <1>29
     DEF Next, App, RestoreStep, CleanupStep, RollbackStep, ToolStep, Fault

\* What the marker says of the data directory stays true.
LEMMA MarkerNext == IInv /\ [Next]_vars => MarkerInv'
<1> SUFFICES ASSUME IInv, [Next]_vars PROVE MarkerInv'
  OBVIOUS
<1> USE VersionsAssumption, FaultsAssumption DEF IInv, MarkerInv, StepInv, TypeOK, DbHeld, EvHeld, Pairs, Pair, Nothing, Restored, Coherent, Markers, NoMarker, NoStage, Content, RestorePC, RollbackPC, CleanupPC
<1>1. CASE StartApp
  BY <1>1 DEF StartApp
<1>2. CASE WriteEvidence
  BY <1>2 DEF WriteEvidence
<1>3. CASE StopApp
  BY <1>3 DEF StopApp
<1>4. CASE BeginRestore
  BY <1>4 DEF BeginRestore
<1>5. CASE BeginRecover
  BY <1>5 DEF BeginRecover
<1>6. CASE MakeStage
  BY <1>6 DEF MakeStage, At
<1>7. CASE WriteMarker
  BY <1>7 DEF WriteMarker, At, Prepared
<1>8. CASE ExtractSome
  BY <1>8 DEF ExtractSome, At
<1>9. CASE ExtractAll
  BY <1>9 DEF ExtractAll, At
<1>10. CASE MoveDatabase
  BY <1>10 DEF MoveDatabase, At
<1>11. CASE MoveEvidence
  BY <1>11 DEF MoveEvidence, At
<1>12. CASE PutDatabase
  BY <1>12 DEF PutDatabase, At
<1>13. CASE PutEvidence
  BY <1>13 DEF PutEvidence, At
<1>14. CASE ValidateRestored
  BY <1>14 DEF ValidateRestored, At
<1>15. CASE Commit
  BY <1>15 DEF Commit, At
<1>16. CASE VerifyCommitted
  BY <1>16 DEF VerifyCommitted, GiveUp
<1>17. CASE DropDatabase
  BY <1>17 DEF DropDatabase, At
<1>18. CASE DropEvidence
  BY <1>18 DEF DropEvidence, Shred
<1>19. CASE ShredStage
  BY <1>19 DEF ShredStage
<1>20. CASE RemoveStage
  BY <1>20 DEF RemoveStage
<1>21. CASE Finish
  BY <1>21 DEF Finish
<1>22. CASE BackEvidence
  BY <1>22 DEF BackEvidence, Shred
<1>23. CASE BackDatabase
  BY <1>23 DEF BackDatabase
<1>24. CASE CheckRolledBack
  BY <1>24 DEF CheckRolledBack, GiveUp, Valid
<1>25. CASE FailUnmarked
  BY <1>25 DEF FailUnmarked, GiveUp, Prepared
<1>26. CASE FailMarked
  BY <1>26 DEF FailMarked
<1>27. CASE FailCommitted
  BY <1>27 DEF FailCommitted, GiveUp
<1>28. CASE Kill
  BY <1>28 DEF Kill, GiveUp
<1>29. CASE UNCHANGED vars
  BY <1>29 DEF vars
<1> HIDE DEF IInv, MarkerInv, StepInv, TypeOK, DbHeld, EvHeld, Pairs, Pair, Nothing, Restored, Coherent, Markers, NoMarker, NoStage, Content, RestorePC, RollbackPC, CleanupPC
<1> QED
  BY <1>1, <1>2, <1>3, <1>4, <1>5, <1>6, <1>7, <1>8, <1>9, <1>10, <1>11, <1>12, <1>13,
     <1>14, <1>15, <1>16, <1>17, <1>18, <1>19, <1>20, <1>21, <1>22, <1>23, <1>24, <1>25, <1>26, <1>27, <1>28, <1>29
     DEF Next, App, RestoreStep, CleanupStep, RollbackStep, ToolStep, Fault

\* Every step of the tool leaves what the next one relies on.
LEMMA StepNext == IInv /\ [Next]_vars => StepInv'
<1> SUFFICES ASSUME IInv, [Next]_vars PROVE StepInv'
  OBVIOUS
<1> USE VersionsAssumption, FaultsAssumption DEF IInv, MarkerInv, StepInv, TypeOK, DbHeld, EvHeld, Pairs, Pair, Nothing, Restored, Coherent, Markers, NoMarker, NoStage, Content, RestorePC, RollbackPC, CleanupPC
<1>1. CASE StartApp
  BY <1>1 DEF StartApp
<1>2. CASE WriteEvidence
  BY <1>2 DEF WriteEvidence
<1>3. CASE StopApp
  BY <1>3 DEF StopApp
<1>4. CASE BeginRestore
  BY <1>4 DEF BeginRestore
<1>5. CASE BeginRecover
  BY <1>5 DEF BeginRecover
<1>6. CASE MakeStage
  BY <1>6 DEF MakeStage, At
<1>7. CASE WriteMarker
  BY <1>7 DEF WriteMarker, At, Prepared
<1>8. CASE ExtractSome
  BY <1>8 DEF ExtractSome, At
<1>9. CASE ExtractAll
  BY <1>9 DEF ExtractAll, At
<1>10. CASE MoveDatabase
  BY <1>10 DEF MoveDatabase, At
<1>11. CASE MoveEvidence
  BY <1>11 DEF MoveEvidence, At
<1>12. CASE PutDatabase
  BY <1>12 DEF PutDatabase, At
<1>13. CASE PutEvidence
  BY <1>13 DEF PutEvidence, At
<1>14. CASE ValidateRestored
  BY <1>14 DEF ValidateRestored, At
<1>15. CASE Commit
  BY <1>15 DEF Commit, At
<1>16. CASE VerifyCommitted
  BY <1>16 DEF VerifyCommitted, GiveUp
<1>17. CASE DropDatabase
  BY <1>17 DEF DropDatabase, At
<1>18. CASE DropEvidence
  BY <1>18 DEF DropEvidence, Shred
<1>19. CASE ShredStage
  BY <1>19 DEF ShredStage
<1>20. CASE RemoveStage
  BY <1>20 DEF RemoveStage
<1>21. CASE Finish
  BY <1>21 DEF Finish
<1>22. CASE BackEvidence
  BY <1>22 DEF BackEvidence, Shred
<1>23. CASE BackDatabase
  BY <1>23 DEF BackDatabase
<1>24. CASE CheckRolledBack
  BY <1>24 DEF CheckRolledBack, GiveUp, Valid
<1>25. CASE FailUnmarked
  BY <1>25 DEF FailUnmarked, GiveUp, Prepared
<1>26. CASE FailMarked
  BY <1>26 DEF FailMarked
<1>27. CASE FailCommitted
  BY <1>27 DEF FailCommitted, GiveUp
<1>28. CASE Kill
  BY <1>28 DEF Kill, GiveUp
<1>29. CASE UNCHANGED vars
  BY <1>29 DEF vars
<1> HIDE DEF IInv, MarkerInv, StepInv, TypeOK, DbHeld, EvHeld, Pairs, Pair, Nothing, Restored, Coherent, Markers, NoMarker, NoStage, Content, RestorePC, RollbackPC, CleanupPC
<1> QED
  BY <1>1, <1>2, <1>3, <1>4, <1>5, <1>6, <1>7, <1>8, <1>9, <1>10, <1>11, <1>12, <1>13,
     <1>14, <1>15, <1>16, <1>17, <1>18, <1>19, <1>20, <1>21, <1>22, <1>23, <1>24, <1>25, <1>26, <1>27, <1>28, <1>29
     DEF Next, App, RestoreStep, CleanupStep, RollbackStep, ToolStep, Fault

\* No step of the application, the tool or a fault breaks the invariant.
THEOREM Invariance == Spec => []IInv
<1>1. IInv /\ [Next]_vars => IInv'
  BY TypeNext, PriorNext, MarkerNext, StepNext DEF IInv
<1> QED
  BY IInvInit, <1>1, PTL DEF Spec

\* Every path holds a version, part of one or nothing, and the tool is at one
\* of the steps of _restore_backup_locked or _recover_restore_locked.
THEOREM TypeCorrect == Spec => []TypeOK
<1>1. IInv => TypeOK
  BY DEF IInv
<1> QED
  BY Invariance, <1>1, PTL

\* However many times restores and recoveries are killed or fail, the previous
\* pair exists, in place or as rollback copies, until the commit record.
THEOREM DataSafe == Spec => []PriorRecoverable
<1>1. IInv => PriorRecoverable
  BY DEF IInv, MarkerInv, DbHeld, EvHeld, PriorRecoverable
<1> QED
  BY Invariance, <1>1, PTL

\* The application never serves the database of one pair with the evidence of
\* another, whatever was interrupted before it started.
THEOREM PairServed == Spec => []AppSeesOnePair
<1>1. IInv => AppSeesOnePair
  BY DEF IInv, MarkerInv, StepInv, AppSeesOnePair
<1> QED
  BY Invariance, <1>1, PTL

\* Once the commit record is written the archive's pair is live and stays so
\* through every later fault and recovery of that marker.
THEOREM CommitKept == Spec => []CommittedIsRestored
<1>1. IInv => CommittedIsRestored
  BY DEF IInv, MarkerInv, CommittedIsRestored
<1> QED
  BY Invariance, <1>1, PTL

\* A tool that ends without a marker leaves the previous pair or the archive's
\* and no rollback copy.
THEOREM EndsWholeHolds == Spec => EndsWhole
<1> DEFINE Ends == owner = "tool" /\ owner' = "none" /\ marker'.state = "none" =>
                     live' \in {prior, Restored} /\ kept' = Nothing
<1>1. IInv /\ [Next]_vars => [Ends]_vars
  <2> SUFFICES ASSUME IInv, Next, owner = "tool", owner' = "none", marker'.state = "none"
               PROVE  live' \in {prior, Restored} /\ kept' = Nothing
    BY DEF Ends
  <2> USE DEF IInv, TypeOK, MarkerInv, StepInv
  <2>1. CASE Finish
    BY <2>1 DEF Finish, RestorePC, RollbackPC, CleanupPC, Markers
  <2>2. CASE VerifyCommitted \/ CheckRolledBack \/ FailUnmarked \/ FailCommitted \/ Kill
    <3>1. marker.state = "none" /\ UNCHANGED <<live, kept>>
      <4>1. CASE VerifyCommitted \/ CheckRolledBack \/ Kill
        BY <4>1 DEF VerifyCommitted, CheckRolledBack, Kill
      <4>2. CASE FailUnmarked
        BY <4>2 DEF FailUnmarked, Prepared
      <4>3. CASE FailCommitted
        BY <4>3 DEF FailCommitted, Markers
      <4> QED
        BY <2>2, <4>1, <4>2, <4>3
    <3>2. pc \in {"mkdir", "mark"}
      BY <3>1
    <3> QED
      BY <3>1, <3>2
  <2>3. \/ Finish
        \/ VerifyCommitted \/ CheckRolledBack \/ FailUnmarked \/ FailCommitted \/ Kill
    BY DEF Next, App, RestoreStep, CleanupStep, RollbackStep, ToolStep, Fault,
       StartApp, WriteEvidence, StopApp, BeginRestore, BeginRecover, MakeStage, WriteMarker,
       ExtractSome, ExtractAll, MoveDatabase, MoveEvidence, PutDatabase, PutEvidence,
       ValidateRestored, Commit, DropDatabase, DropEvidence, ShredStage, RemoveStage,
       BackEvidence, BackDatabase, FailMarked
  <2> QED
    BY <2>1, <2>2, <2>3
<1> QED
  BY Invariance, <1>1, PTL DEF Spec, EndsWhole

-----------------------------------------------------------------------------
(* The create command on the same directory *)

\* The first state has no backup under way and no archive.
LEMMA DirInvInit == DirInit => DirInv
<1> SUFFICES ASSUME DirInit PROVE DirInv
  OBVIOUS
<1>1. IInv
  BY IInvInit DEF DirInit
<1>2. BackupInv /\ BackupsWhole
  BY DEF DirInit, Create!Init, BackupInv, BackupsWhole, Create!BackupsWhole
<1> QED
  BY <1>1, <1>2 DEF DirInv

\* A step of the application or of a restore is taken under no backup: the
\* command holds the lock, and nobody else does, until it ends.
LEMMA DirOthers ==
  ASSUME DirInv, Next, owner = "none" => Create!Idle, UNCHANGED createVars
  PROVE  BackupInv' /\ BackupsWhole'
<1>1. step = "idle"
  BY DEF DirInv, BackupInv, Create!Idle
<1>2. step' = "idle" /\ output' = output
  BY <1>1 DEF createVars
<1> QED
  BY <1>2 DEF DirInv, BackupInv, BackupsWhole, Create!BackupsWhole, Create!Sound

\* A step of the command: the live pair is the one it found at the beginning,
\* and only a private file that was verified is renamed.
LEMMA DirCreate ==
  ASSUME DirInv, Create!Next, UNCHANGED vars
  PROVE  BackupInv' /\ BackupsWhole'
<1> USE DEF DirInv, BackupInv, BackupsWhole, Create!BackupsWhole, Create!Same, Create!At
<1>1. UNCHANGED <<live, owner>>
  BY DEF vars
<1>2. live = [db |-> live.db, ev |-> live.ev]
  BY DEF IInv, TypeOK, Pairs
<1>3. ASSUME NEW overwrite \in BOOLEAN, Create!Begin(overwrite)
      PROVE  BackupInv' /\ BackupsWhole'
  BY <1>1, <1>3 DEF Create!Begin, Create!Start, Create!Sound
<1>4. CASE Create!CheckDatabase \/ Create!OpenTemporary
  BY <1>1, <1>4 DEF Create!CheckDatabase, Create!OpenTemporary, Create!Sound
<1>5. CASE Create!CopyDatabase
  BY <1>1, <1>5 DEF Create!CopyDatabase, Create!Archive, Create!Sound
<1>6. CASE Create!CopyEvidence
  BY <1>1, <1>6 DEF Create!CopyEvidence, Create!Archive, Create!Sound
<1>7. CASE Create!Verify \/ Create!CheckName
  BY <1>1, <1>7 DEF Create!Verify, Create!CheckName, Create!Archive, Create!Sound
<1>8. CASE Create!Rename
  <2>1. output' = Create!Archive(live.db, live.ev) /\ Create!Sound(output') /\ shot = live
    BY <1>8 DEF Create!Rename
  <2>2. [db |-> output'.db, ev |-> output'.ev] = output'.shot
    BY <1>2, <2>1 DEF Create!Archive
  <2> QED
    BY <1>8, <2>1, <2>2 DEF Create!Rename, Create!Sound
<1>9. CASE Create!Refuse \/ Create!Fail \/ Create!Kill
  BY <1>9 DEF Create!Refuse, Create!Fail, Create!Kill, Create!Sound
<1>10. CASE Create!Interfere
  BY <1>1, <1>10 DEF Create!Interfere, Create!Archive, Create!Sound
<1> QED
  BY <1>3, <1>4, <1>5, <1>6, <1>7, <1>8, <1>9, <1>10 DEF Create!Next, Create!BackupStep

\* The invariant of the whole directory: restores keep theirs because a backup
\* changes nothing they look at.
LEMMA DirInvariance == DirSpec => []DirInv
<1>1. DirInv /\ [DirNext]_dirVars => DirInv'
  <2> SUFFICES ASSUME DirInv, [DirNext]_dirVars PROVE DirInv'
    OBVIOUS
  <2>1. [Next]_vars
    BY DEF DirNext, dirVars
  <2>2. IInv'
    BY <2>1, TypeNext, MarkerNext, StepNext, PriorNext DEF DirInv, IInv
  <2>3. CASE UNCHANGED dirVars
    <3>1. UNCHANGED <<step, temp, output, shot, live, owner>>
      BY <2>3 DEF dirVars, createVars, vars
    <3> QED
      BY <2>2, <3>1 DEF DirInv, BackupInv, BackupsWhole, Create!BackupsWhole, Create!Archive,
                        Create!Sound
  <2> QED
    BY <2>2, <2>3, DirOthers, DirCreate DEF DirNext, DirInv
<1> QED
  BY DirInvInit, <1>1, PTL DEF DirSpec

\* Wherever restores, recoveries, the application and other backups are
\* interrupted, the output name of the create command never holds an archive
\* that did not pass its verification, or one that pairs a database with
\* evidence that was not live next to it under the lock.
THEOREM BackupsSafe == DirSpec => []BackupsWhole
<1>1. DirInv => BackupsWhole
  BY DEF DirInv
<1> QED
  BY DirInvariance, <1>1, PTL

\* What Restore promises it also promises while backups are taken.
THEOREM DirectorySafe ==
  DirSpec => [](TypeOK /\ PriorRecoverable /\ AppSeesOnePair /\ CommittedIsRestored) /\ EndsWhole
<1>1. DirInit => Init
  BY DEF DirInit
<1>2. [DirNext]_dirVars => [Next]_vars
  BY DEF DirNext, dirVars
<1>3. DirSpec => Spec
  BY <1>1, <1>2, PTL DEF DirSpec, Spec
<1> QED
  BY <1>3, TypeCorrect, DataSafe, PairServed, CommitKept, EndsWholeHolds, PTL
=============================================================================
