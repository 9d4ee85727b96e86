---------------------------- MODULE DataDirectory ----------------------------
(***************************************************************************)
(* The data directory with everything that works on it: the application,   *)
(* restore and recover (Restore), and the create command (Backups).  They  *)
(* share the live paths and contend for the instance lock.                 *)
(***************************************************************************)
EXTENDS Restore

CONSTANTS Bare, Later, Foreign, MaxBackups, MaxBackupFaults   \* as in Backups

VARIABLES step, confirmed, temp, output, shot, leftovers, backups, backupFaults

Create == INSTANCE Backups

ASSUME BackupAssumption == Create!BackupAssumption

createVars == <<step, confirmed, temp, output, shot, leftovers, backups, backupFaults>>
dirVars == <<vars, createVars>>

DirInit == Init /\ Create!Init

\* The application and the tools take the lock when no backup holds it.
DirNext ==
  \/ Next /\ (owner = "none" => Create!Idle) /\ UNCHANGED createVars
  \/ Create!Next /\ UNCHANGED vars

\* A backup that was begun goes on, too.
DirFairness ==
  /\ WF_dirVars(ToolStep /\ UNCHANGED createVars)
  /\ WF_dirVars(BeginRecover /\ Create!Idle /\ UNCHANGED createVars)
  /\ WF_dirVars(Create!BackupStep /\ UNCHANGED vars)

DirSpec == DirInit /\ [][DirNext]_dirVars /\ DirFairness

-----------------------------------------------------------------------------
\* As Backups states it: an archive under the output name passed its
\* verification and is the pair that was live under the lock.
BackupsWhole == Create!BackupsWhole

(* The inductive invariant of the proofs *)

\* The directory stands still under a backup, and each step of the command
\* finds in its private file what the steps before it copied.
BackupInv ==
  /\ step # "idle" => owner = "none" /\ shot = live
  /\ step = "evidence" => temp = Create!Archive(live.db, Torn)
  /\ step \in {"verify", "name", "rename"} => temp = Create!Archive(live.db, live.ev)
  /\ step \in {"name", "rename"} => Create!Sound(temp)

DirInv == IInv /\ BackupInv /\ BackupsWhole
=============================================================================
