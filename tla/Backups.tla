------------------------------- MODULE Backups -------------------------------
(***************************************************************************)
(* The create command of backup.py over the data directory that Restore    *)
(* describes: it takes the same lock, copies the database and then the     *)
(* evidence into a private file next to the output, verifies that file and *)
(* renames it.  It does not look at the restore marker, so the directory   *)
(* may be half restored.                                                   *)
(***************************************************************************)
EXTENDS Naturals

CONSTANTS
  Versions, Unsound, Absent, Torn,   \* as in Restore
  Bare,          \* the versions whose database refers to no evidence
  Later,         \* <<v, w>>: what v's database refers to is also in w's evidence
  Foreign,       \* a file that is not of this command
  MaxBackups, MaxBackupFaults

BackupAssumption ==
  /\ Bare \subseteq Versions /\ Later \subseteq Versions \X Versions
  /\ {MaxBackups, MaxBackupFaults} \subseteq Nat

VARIABLES
  live, owner,   \* Restore's: the two live paths, who holds the lock
  step,          \* the command's next step
  confirmed,     \* --confirm-overwrite
  temp,          \* the private file: Absent, or an archive with what it has so far
  output,        \* what the output name holds
  shot,          \* history: the pair that was live when the command took the lock
  leftovers,     \* private files of killed commands
  backups, backupFaults

backupVars == <<step, confirmed, temp, output, shot, leftovers, backups, backupFaults>>

Archive(db, ev) == [db |-> db, ev |-> ev, shot |-> shot]
NoPair == [db |-> Absent, ev |-> Absent]

Init ==
  /\ step = "idle" /\ confirmed = FALSE /\ temp = Absent /\ output \in {Absent, Foreign}
  /\ shot = NoPair /\ leftovers = 0 /\ backups = 0 /\ backupFaults = 0

At(here, next) == step = here /\ step' = next
Same == UNCHANGED <<confirmed, shot, leftovers, backups, backupFaults>>

-----------------------------------------------------------------------------
Start(overwrite) ==
  /\ step = "idle" /\ backups < MaxBackups
  /\ output # Absent => overwrite
  /\ step' = "check" /\ confirmed' = overwrite /\ shot' = live /\ backups' = backups + 1
  /\ UNCHANGED <<temp, output, leftovers, backupFaults>>

\* Mutant: the directory is not locked.
BeginUnlocked(overwrite) == Start(overwrite)

\* The maintenance lock, then the checks of the output name.
Begin(overwrite) == owner = "none" /\ Start(overwrite)

\* _check_database: there is one, and SQLite finds it intact.
CheckDatabase ==
  /\ At("check", "open") /\ live.db \in Versions
  /\ UNCHANGED <<temp, output>> /\ Same

OpenTemporary ==
  /\ At("open", "database") /\ temp' = Archive(Torn, Torn)
  /\ UNCHANGED output /\ Same

\* _write_source of the database, then of every evidence file and the manifest.
CopyDatabase ==
  /\ At("database", "evidence")
  /\ temp' = Archive(live.db, Torn)
  /\ UNCHANGED output /\ Same

CopyEvidence ==
  /\ At("evidence", "verify")
  /\ temp' = [temp EXCEPT !.ev = live.ev]
  /\ UNCHANGED output /\ Same

\* verify_backup: hashes, the database on its own, and every reference of the
\* database is a member with the recorded content.
Sound(a) ==
  /\ a.db \in Versions \ Unsound
  /\ \/ a.ev = a.db
     \/ a.ev = Absent /\ a.db \in Bare
     \/ <<a.db, a.ev>> \in Later

Verify ==
  /\ At("verify", "name") /\ Sound(temp)
  /\ UNCHANGED <<temp, output>> /\ Same

\* The output name is looked at once more ...
CheckName ==
  /\ At("name", "rename") /\ (output = Absent \/ confirmed)
  /\ UNCHANGED <<temp, output>> /\ Same

\* ... and replaced; the lock is released.
Rename ==
  /\ At("rename", "idle")
  /\ output' = temp /\ temp' = Absent
  /\ Same

\* A check refuses, or an operation fails: the private file is removed.
Refuse ==
  /\ \/ step = "check" /\ live.db \notin Versions
     \/ step = "verify" /\ ~Sound(temp)
     \/ step = "name" /\ output # Absent /\ ~confirmed
  /\ step' = "idle" /\ temp' = Absent
  /\ UNCHANGED output /\ Same

Fail ==
  /\ step # "idle" /\ backupFaults < MaxBackupFaults /\ backupFaults' = backupFaults + 1
  /\ step' = "idle" /\ temp' = Absent
  /\ UNCHANGED <<confirmed, output, shot, leftovers, backups>>

\* The command is killed: the private file stays, under its own name.
Kill ==
  /\ step # "idle" /\ backupFaults < MaxBackupFaults /\ backupFaults' = backupFaults + 1
  /\ step' = "idle" /\ temp' = Absent
  /\ leftovers' = IF temp = Absent THEN leftovers ELSE leftovers + 1
  /\ UNCHANGED <<confirmed, output, shot, backups>>

\* Another program creates or removes the output file.
Interfere ==
  /\ output' \in {Absent, Foreign} \ {output}
  /\ UNCHANGED <<step, confirmed, temp, shot, leftovers, backups, backupFaults>>

BackupStep ==
  \/ CheckDatabase \/ OpenTemporary \/ CopyDatabase \/ CopyEvidence \/ Verify
  \/ CheckName \/ Rename \/ Refuse

Next ==
  \/ \E overwrite \in BOOLEAN : Begin(overwrite)
  \/ BackupStep \/ Fail \/ Kill \/ Interfere

Idle == step = "idle"

-----------------------------------------------------------------------------
\* The output name only ever holds what others put there or an archive that
\* passed its verification, wherever the command was killed; and the archive is
\* a database with the evidence that was live next to it, although the two are
\* read one after the other and the directory may be half restored.
BackupsWhole ==
  output \notin {Absent, Foreign} =>
    Sound(output) /\ [db |-> output.db, ev |-> output.ev] = output.shot
=============================================================================
