---------------------------- MODULE MCBackupFolder ----------------------------
(***************************************************************************)
(* The download of one folder and the backups of one configuration, which  *)
(* never meet, on small instances and in one run: a behaviour belongs to   *)
(* one of them.  The folder then stands still in an initial state, the     *)
(* backups have no state.                                                  *)
(***************************************************************************)
EXTENDS FolderDownload

CONSTANTS Files, MaxBackups, MaxBackupEvents      \* of BackupTask

ASSUME BackupAssumption ==
    /\ Files \subseteq Nat \ {0} /\ IsFiniteSet(Files)
    /\ {MaxBackups, MaxBackupEvents} \subseteq Nat

VARIABLES part,
          source, remote, cache, recorded, backup, row, upload, notes, ctl, driver,
          consumer, caller, mishaps      \* of BackupTask

Backup == INSTANCE BackupTask WITH disk <- source, task <- backup, user <- caller,
                                   events <- mishaps, MaxEvents <- MaxBackupEvents

MCFiles == 1..2
MCScans == {"first", "second"}

Off == 0

folder_part == vars
backup_part == <<source, remote, cache, recorded, backup, row, upload, notes, ctl, driver,
                 consumer, caller, mishaps>>

NoBackup == /\ source = Off /\ remote = Off /\ cache = Off /\ recorded = Off /\ backup = Off
            /\ row = Off /\ upload = Off /\ notes = Off /\ ctl = Off /\ driver = Off
            /\ consumer = Off /\ caller = Off /\ mishaps = Off
NoFolder == Init /\ size = 1 /\ ~skips

PartInit == \/ part = "backup" /\ Backup!Init /\ NoFolder
            \/ part = "folder" /\ NoBackup /\ Init
PartNext == \/ part = "backup" /\ Backup!NextStep /\ UNCHANGED <<part, folder_part>>
            \/ part = "folder" /\ Next /\ UNCHANGED <<part, backup_part>>
PartSpec == PartInit /\ [][PartNext]_<<part, backup_part, folder_part>>

\* A record says that a backup exists (BackupTask).
RecordsTrue == part = "backup" => Backup!RecordsAreTrue

\* A file that a task or its row calls done is on the netdisk (BackupTask).
DoneHere == part = "backup" => Backup!DoneIsBackedUp
=============================================================================
