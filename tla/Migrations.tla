----------------------------- MODULE Migrations -----------------------------
(***************************************************************************)
(* apply_migrations of migrations.py: the server at its start and every    *)
(* store at its first use bring the state database to the newest schema,   *)
(* each on a connection of its own and possibly at the same time.          *)
(*                                                                         *)
(* executescript commits the transaction it finds open, so the statements  *)
(* of a migration and its row of the ledger are commits of their own, and  *)
(* other migrators, or the end of the process, may come between any two.   *)
(***************************************************************************)
EXTENDS Integers, Sequences

CONSTANTS
    Migrator,           \* calls of apply_migrations
    Script,             \* statements of each migration: CREATE ... IF NOT EXISTS
    NoMigrator

ASSUME ScriptAssumption ==
    Script \in Seq(Nat \ {0}) /\ Script # <<>> /\ NoMigrator \notin Migrator

VARIABLES
    inWal,      \* the file is in WAL mode
    ledger,     \* versions in schema_migrations
    schema,     \* <<version, statement>> that took effect
    writer,     \* who holds the write lock of the database
    migrator    \* where each call is; what it read and what it has done

migrationVars == <<inWal, ledger, schema, writer, migrator>>

Version == DOMAIN Script
Statement == UNION {{<<v, i>> : i \in 1 .. Script[v]} : v \in Version}

\* `current` is read once; `next` is the migration at hand and `done` how many
\* of its statements have run.
Connected == [at |-> "opened", current |-> 0, next |-> 1, done |-> 0]

MigrationsTypeOK ==
    /\ inWal \in BOOLEAN /\ ledger \subseteq Version /\ schema \subseteq Statement
    /\ writer \in Migrator \cup {NoMigrator}
    /\ \A m \in Migrator :
        migrator[m].at \in {"opened", "begin", "locked", "script", "recorded", "returned", "raised"}

MigrationsInit ==
    /\ inWal = FALSE /\ ledger = {} /\ schema = {} /\ writer = NoMigrator
    /\ migrator = [m \in Migrator |-> Connected]

MigratorAt(m, stage) == migrator[m].at = stage
MigratorGoes(m, stage) == migrator' = [migrator EXCEPT ![m].at = stage]
LockFree == writer = NoMigrator

\* _current_version: zero as long as the ledger is empty or not there.
CurrentVersion == IF ledger = {} THEN 0 ELSE CHOOSE v \in ledger : \A w \in ledger : w <= v

-----------------------------------------------------------------------------

\* _ensure_wal: the switch needs the file to itself; once made it stays.
EnsureWal(m) ==
    /\ MigratorAt(m, "opened") /\ (inWal \/ LockFree)
    /\ inWal' = TRUE /\ MigratorGoes(m, "begin")
    /\ UNCHANGED <<ledger, schema, writer>>

\* BEGIN IMMEDIATE, the ledger's table and the version in it. The lock is kept
\* up to the COMMIT inside executescript, or the one in the finally clause.
TakeLock(m) ==
    /\ MigratorAt(m, "begin") /\ LockFree /\ writer' = m
    /\ migrator' = [migrator EXCEPT ![m].at = "locked", ![m].current = CurrentVersion,
                                    ![m].next = CurrentVersion + 1]
    /\ UNCHANGED <<inWal, ledger, schema>>

\* executescript: COMMIT first, and the lock is gone.
StartScript(m) ==
    /\ MigratorAt(m, "locked") /\ migrator[m].next \in Version
    /\ writer' = NoMigrator
    /\ migrator' = [migrator EXCEPT ![m].at = "script", ![m].done = 0]
    /\ UNCHANGED <<inWal, ledger, schema>>

\* One CREATE ... IF NOT EXISTS, a commit of its own.
RunStatement(m) ==
    LET at == migrator[m] IN
    /\ MigratorAt(m, "script") /\ LockFree /\ at.done < Script[at.next]
    /\ schema' = schema \cup {<<at.next, at.done + 1>>}
    /\ migrator' = [migrator EXCEPT ![m].done = at.done + 1]
    /\ UNCHANGED <<inWal, ledger, writer>>

\* INSERT OR IGNORE, in autocommit, once the whole script has run.
RecordVersion(m) ==
    LET at == migrator[m] IN
    /\ MigratorAt(m, "script") /\ LockFree /\ at.done = Script[at.next]
    /\ ledger' = ledger \cup {at.next}
    /\ migrator' = [migrator EXCEPT ![m].at = "recorded"]
    /\ UNCHANGED <<inWal, schema, writer>>

\* BEGIN IMMEDIATE again, before the next migration.
RetakeLock(m) ==
    /\ MigratorAt(m, "recorded") /\ LockFree /\ writer' = m
    /\ migrator' = [migrator EXCEPT ![m].at = "locked", ![m].next = migrator[m].next + 1]
    /\ UNCHANGED <<inWal, ledger, schema>>

\* Nothing is pending: COMMIT, then the version is read once more.
FinishMigrations(m) ==
    /\ MigratorAt(m, "locked") /\ migrator[m].next \notin Version
    /\ writer' = NoMigrator
    /\ migrator' = [migrator EXCEPT ![m].at = "returned", ![m].current = CurrentVersion]
    /\ UNCHANGED <<inWal, ledger, schema>>

\* A lock is waited for 30 s, and the WAL switch tried 50 times: then, or when a
\* statement fails, or when the process dies, the call ends; an open transaction
\* holds nothing but the ledger's table. A call that failed is made again.
MigrationFails(m) ==
    /\ migrator[m].at \notin {"returned", "raised"}
    /\ writer' = IF writer = m THEN NoMigrator ELSE writer
    /\ MigratorGoes(m, "raised")
    /\ UNCHANGED <<inWal, ledger, schema>>

MigrateAgain(m) ==
    /\ migrator[m].at \in {"raised", "returned"}
    /\ migrator' = [migrator EXCEPT ![m] = Connected]
    /\ UNCHANGED <<inWal, ledger, schema, writer>>

MigrationsNext ==
    \E m \in Migrator :
        \/ EnsureWal(m) \/ TakeLock(m) \/ StartScript(m) \/ RunStatement(m) \/ RecordVersion(m)
        \/ RetakeLock(m) \/ FinishMigrations(m) \/ MigrationFails(m) \/ MigrateAgain(m)

MigrationsSpec == MigrationsInit /\ [][MigrationsNext]_migrationVars

-----------------------------------------------------------------------------
(* Properties                                                              *)

\* A version in the ledger can be relied on: with everything that came before it,
\* it is in the schema to its last statement, whoever ran it and whoever died
\* over it; and a store whose apply_migrations returned finds the newest schema
\* (server.py reports that version, and no store checks for its tables again).
LedgerIsTrue ==
    /\ \A v \in ledger, s \in Statement : s[1] <= v => s \in schema
    /\ \A m \in Migrator : MigratorAt(m, "returned") =>
        /\ migrator[m].current \in Version
        /\ Statement \subseteq schema
=============================================================================
