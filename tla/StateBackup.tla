----------------------------- MODULE StateBackup -----------------------------
(***************************************************************************)
(* Backup and restore of the state database (state_backup.py), the WAL     *)
(* checkpoint and the isolated restore of state_operations.py, beside a    *)
(* bridge that may go on writing: restore looks for a writer once, before  *)
(* it takes its file lock, and the bridge does not take that lock.         *)
(*                                                                         *)
(* A file is the set of writes in it; the database and its -wal file are   *)
(* files of their own, renamed, unlinked and put back one at a time, and   *)
(* the process may die between any two of these steps.  The -shm file      *)
(* holds nothing that SQLite does not rebuild.                             *)
(***************************************************************************)
EXTENDS Integers, FiniteSets

CONSTANTS
    DbWrite,            \* what the bridge commits, once each
    Copy,               \* names of backups
    Retention,          \* retention_count
    MaxBundles,         \* bound: restores begin while fewer bundles are left behind
    NoDb                \* no file

ASSUME BackupAssumption ==
    Retention \in Nat /\ MaxBundles \in Nat /\ \A d \in SUBSET DbWrite : d # NoDb

VARIABLES
    db, wal,    \* the database at its path, and the -wal file beside it
    foreign,    \* the -wal file was written over another database than that one
    copies,     \* backups, each with the names of those made before it
    bundle,     \* .pre-restore-* files that earlier restores left, db and -wal of each
    restore,    \* where restore_state_db is, from which backup, its own bundle and
                \* whether the -wal file in it belongs to the database in it
    broken,     \* external: backups whose integrity_check fails
    before,     \* what the last restore that moved anything found at the path
    dropped,    \* SQLite has dropped a -wal file without its database since then
    disturbed   \* the bridge opened the path while files were moved, or a restore
                \* began on a -wal file that was left alone

backupVars == <<db, wal, foreign, copies, bundle, restore, broken, before, dropped, disturbed>>
pathVars == <<db, wal, foreign>>
pastVars == <<before, dropped, disturbed>>

Database == SUBSET DbWrite
File == Database \cup {NoDb}
Pair == [db : File, wal : File]
Nothing == [db |-> NoDb, wal |-> NoDb]
Moving == {"dbMoved", "logMoved", "moved", "replaced", "copied", "undoDb", "undoLog"}
Ended == {"none", "done", "failed"}
RestoreState ==
    [at : Moving \cup Ended \cup {"checked"}, from : Copy \cup {NoDb}, kept : Pair, own : BOOLEAN]
Resting(at) == [at |-> at, from |-> NoDb, kept |-> Nothing, own |-> FALSE]

BackupTypeOK ==
    /\ db \in File /\ wal \in File /\ foreign \in BOOLEAN
    /\ copies \subseteq [name : Copy, data : Database, auto : BOOLEAN, older : SUBSET Copy]
    /\ bundle \subseteq Pair /\ restore \in RestoreState /\ broken \subseteq Copy
    /\ before \in Pair /\ dropped \in BOOLEAN /\ disturbed \in BOOLEAN

BackupInit ==
    /\ db = {} /\ wal = NoDb /\ foreign = FALSE /\ copies = {}
    /\ bundle = {} /\ restore = Resting("none") /\ broken = {}
    /\ before = Nothing /\ dropped = FALSE /\ disturbed = FALSE

WritesIn(f) == IF f = NoDb THEN {} ELSE f

Taken == {x.name : x \in copies}
Data(c) == (CHOOSE x \in copies : x.name = c).data

-----------------------------------------------------------------------------

Intrudes == disturbed' = (disturbed \/ restore.at \in Moving)

\* The bridge commits; SQLite creates the file when it is not there, and drops a
\* -wal file that it finds beside an empty database.
BridgeWrites(w) ==
    /\ \A p \in bundle \cup {restore.kept, [db |-> db, wal |-> wal]} :
            w \notin WritesIn(p.db) \cup WritesIn(p.wal)
    /\ db' = WritesIn(db)
    /\ wal' = (IF db = NoDb THEN {} ELSE WritesIn(wal)) \cup {w}
    /\ foreign' = (foreign /\ db # NoDb /\ wal # NoDb)
    /\ dropped' = (dropped \/ (db = NoDb /\ wal # NoDb))
    /\ Intrudes
    /\ UNCHANGED <<copies, bundle, restore, broken, before>>

\* SQLite checkpoints by itself, and checkpoint_state_db does on request, when
\* no restore holds the lock; the last connection that is closed removes the file.
Checkpoint ==
    /\ db # NoDb /\ wal # NoDb
    /\ db' = db \cup wal /\ wal' \in {{}, NoDb} /\ UNCHANGED foreign
    /\ Intrudes
    /\ UNCHANGED <<copies, bundle, restore, broken, before, dropped>>

\* _enforce_retention: of the backups with a generated name the newest stay.
Retained(cs) ==
    {x \in cs : ~x.auto
        \/ Cardinality({y \in cs : y.auto /\ x.name \in y.older}) < Retention}

\* backup_state_db: SQLite's online backup sees the log; an explicit path is not
\* subject to retention, and one that exists is replaced only with overwrite.
BackupStateDb(c, auto, overwrite) ==
    /\ db # NoDb /\ (c \in Taken => overwrite /\ ~auto)
    /\ LET others == {[x EXCEPT !.older = @ \ {c}] : x \in {y \in copies : y.name # c}}
           new == [name |-> c, data |-> db \cup WritesIn(wal), auto |-> auto, older |-> Taken \ {c}]
       IN copies' = IF auto THEN Retained(others \cup {new}) ELSE others \cup {new}
    /\ broken' = (broken \ {c}) \cap {x.name : x \in copies'}
    /\ UNCHANGED <<pathVars, bundle, restore, pastVars>>

\* external: a backup is damaged on disk.
Damage(c) ==
    /\ c \in Taken /\ c \notin broken
    /\ broken' = broken \cup {c}
    /\ UNCHANGED <<pathVars, copies, bundle, restore, pastVars>>

\* restore_state_db: no writer right now, or force.
CheckRestore(c) ==
    /\ restore.at \in Ended /\ c \in Taken /\ Cardinality(bundle) < MaxBundles
    /\ restore' = [Resting("checked") EXCEPT !.from = c]
    /\ UNCHANGED <<pathVars, copies, bundle, broken, pastVars>>

\* The first turn of the loop over the suffixes: the database is renamed.
MoveDb ==
    /\ restore.at = "checked"
    /\ restore' = [restore EXCEPT !.at = "dbMoved", !.kept.db = db]
    /\ db' = NoDb
    /\ before' = [db |-> db, wal |-> wal] /\ dropped' = FALSE
    /\ disturbed' = (disturbed \/ (db = NoDb /\ wal # NoDb))
    /\ UNCHANGED <<wal, foreign, copies, bundle, broken>>

\* Only the database is renamed; its -wal file is left to be removed as stale.
MoveLog_Stale ==
    /\ restore.at = "dbMoved"
    /\ restore' = [restore EXCEPT !.at = "logMoved"]
    /\ UNCHANGED <<pathVars, copies, bundle, broken, pastVars>>

\* The second turn: the -wal file is renamed, whose it is meanwhile.
MoveLog ==
    /\ restore.at = "dbMoved"
    /\ restore' = [restore EXCEPT !.at = "logMoved", !.kept.wal = wal,
                        !.own = (~foreign /\ db = NoDb /\ restore.kept.db # NoDb)]
    /\ wal' = NoDb
    /\ UNCHANGED <<db, foreign, copies, bundle, broken, pastVars>>

\* A -wal file that is there by now is stale.
RemoveStale ==
    /\ restore.at = "logMoved"
    /\ restore' = [restore EXCEPT !.at = "moved"]
    /\ wal' = NoDb
    /\ UNCHANGED <<db, foreign, copies, bundle, broken, pastVars>>

\* The restore is over, or its process is: what its bundle holds stays there.
LeaveBundle == bundle' = IF restore.kept = Nothing THEN bundle ELSE bundle \cup {restore.kept}

\* mkstemp fails: not inside the try that puts the bundle back.
NoTemporaryFile ==
    /\ restore.at = "moved"
    /\ restore' = Resting("failed") /\ LeaveBundle
    /\ UNCHANGED <<pathVars, copies, broken, pastVars>>

\* integrity_check, copy to a temporary file, os.replace.
ReplaceTarget ==
    /\ restore.at = "moved" /\ restore.from \in Taken \ broken
    /\ db' = Data(restore.from) /\ foreign' = (wal # NoDb)
    /\ restore' = [restore EXCEPT !.at = "replaced"]
    /\ UNCHANGED <<wal, copies, bundle, broken, pastVars>>

\* What lies beside the copy is left there.
RemoveReplaced_Left ==
    /\ restore.at = "replaced"
    /\ restore' = [restore EXCEPT !.at = "copied"]
    /\ UNCHANGED <<pathVars, copies, bundle, broken, pastVars>>

\* "Ensure no stale sidecars attach to the freshly restored DB."
RemoveReplaced ==
    /\ restore.at = "replaced"
    /\ restore' = [restore EXCEPT !.at = "copied"]
    /\ wal' = NoDb
    /\ UNCHANGED <<db, foreign, copies, bundle, broken, pastVars>>

RestoreDone ==
    /\ restore.at = "copied"
    /\ restore' = Resting("done") /\ LeaveBundle
    /\ UNCHANGED <<pathVars, copies, broken, pastVars>>

\* Any failure since mkstemp puts the bundle back.
RestoreFails ==
    /\ restore.at \in {"moved", "replaced", "copied"}
    /\ restore' = [restore EXCEPT !.at = "undoDb"]
    /\ UNCHANGED <<pathVars, copies, bundle, broken, pastVars>>

\* What lies at the path is unlinked, then the database is renamed back, if the
\* bundle has one.
PutBackDb ==
    /\ restore.at = "undoDb"
    /\ \/ /\ restore.kept.db = NoDb
          /\ restore' = [restore EXCEPT !.at = "undoLog"] /\ UNCHANGED <<db, foreign>>
       \/ /\ restore.kept.db # NoDb /\ db # NoDb
          /\ db' = NoDb /\ UNCHANGED <<restore, foreign>>
       \/ /\ restore.kept.db # NoDb /\ db = NoDb
          /\ db' = restore.kept.db /\ foreign' = (wal # NoDb)
          /\ restore' = [restore EXCEPT !.at = "undoLog", !.kept.db = NoDb]
    /\ UNCHANGED <<wal, copies, bundle, broken, pastVars>>

\* The same for the -wal file: where the bundle has none, a newer one stays.
PutBackLog ==
    /\ restore.at = "undoLog"
    /\ \/ /\ restore.kept.wal = NoDb
          /\ restore' = Resting("failed") /\ UNCHANGED <<wal, foreign>>
       \/ /\ restore.kept.wal # NoDb /\ wal # NoDb
          /\ wal' = NoDb /\ UNCHANGED <<restore, foreign>>
       \/ /\ restore.kept.wal # NoDb /\ wal = NoDb
          /\ wal' = restore.kept.wal /\ foreign' = ~restore.own
          /\ restore' = Resting("failed")
    /\ UNCHANGED <<db, copies, bundle, broken, pastVars>>

\* The process dies, or a rename fails before the try that puts the bundle back.
RestoreCrash ==
    /\ restore.at \in Moving \cup {"checked"}
    /\ restore' = Resting("none") /\ LeaveBundle
    /\ UNCHANGED <<pathVars, copies, broken, pastVars>>

BackupNext ==
    \/ \E w \in DbWrite : BridgeWrites(w)
    \/ Checkpoint
    \/ \E c \in Copy : Damage(c) \/ CheckRestore(c)
                       \/ \E auto, overwrite \in BOOLEAN : BackupStateDb(c, auto, overwrite)
    \/ MoveDb \/ MoveLog \/ RemoveStale \/ NoTemporaryFile \/ ReplaceTarget \/ RemoveReplaced
    \/ RestoreDone \/ RestoreFails \/ PutBackDb \/ PutBackLog \/ RestoreCrash

BackupSpec == BackupInit /\ [][BackupNext]_backupVars

-----------------------------------------------------------------------------
(* Properties                                                              *)

Places == bundle \cup {restore.kept, [db |-> db, wal |-> wal]}
DbHeld(p) == before.db = NoDb \/ (p.db # NoDb /\ before.db \subseteq p.db)
LogHeld(p) == dropped \/ WritesIn(before.wal) \subseteq WritesIn(p.db) \cup WritesIn(p.wal)

\* What a restore found at the path is never lost to it.  At each of its renames,
\* after each failure and wherever it dies, the database is at the path or in a
\* bundle, and so is what the -wal file held; a restore that ends, well or with its
\* bundle put back, leaves the two in one place.  The exception is a -wal file that
\* stays alone at the path when the process dies between the two renames: the next
\* commit of the bridge creates an empty database and SQLite drops the file.
PreviousContentKept ==
    /\ \E p, q \in Places : DbHeld(p) /\ LogHeld(q)
    /\ restore.at \in {"done", "failed"} => \E p \in Places : DbHeld(p) /\ LogHeld(p)

ForeignLog == db # NoDb /\ wal # NoDb /\ foreign

\* No database is left beside a -wal file of another one, which SQLite would replay
\* into it (restore_state_db: "Prevents stale -wal/-shm sidecars from attaching to
\* the restored DB"): not by a restore that succeeds, whatever the bridge did
\* meanwhile; not by one that fails and puts its bundle back; not by one that dies
\* at any point.  The last two rest on the bridge staying away while files are
\* moved, and on the restore not having begun on a -wal file without its database.
LogsBelong ==
    /\ restore.at = "done" => ~ForeignLog
    /\ restore.at \in Ended /\ ~disturbed => ~ForeignLog
=============================================================================
