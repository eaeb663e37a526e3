--------------------------- MODULE StateIntegrity ---------------------------
(***************************************************************************)
(* What the acceptance tooling measures of the real Hermes database        *)
(* (v2/state_integrity.py, v2/control_activity.py), and how Hermes changes *)
(* it meanwhile. One tracked table stands for all. The database is in WAL  *)
(* mode or not: a write may or may not move the file. Hermes prunes its    *)
(* oldest rows and keeps the newest, so that an insertion raises the       *)
(* largest rowid.                                                          *)
(***************************************************************************)
EXTENDS Integers, FiniteSets, FiniteSetsExt, TLC

CONSTANTS
    Indicator,      \* what shows live work: delegations, deliveries, sessions...
    MaxWrites       \* bound: writes of Hermes to its database

VARIABLES
    real,       \* [rows, schema, complete, stat]: the real database
    activity,   \* the rows that speak of live work, by indicator
    writes      \* how often Hermes wrote

stateVars == <<real, activity, writes>>

StateInit ==
    /\ real = [rows |-> {1, 2}, schema |-> 0, complete |-> TRUE, stat |-> 0]
    /\ activity = {}
    /\ writes = 0

-----------------------------------------------------------------------------
(* The measurements. A fingerprint is salted with a value of one run, so   *)
(* only snapshots of one run can be compared.                              *)

TableFingerprint(db) ==
    [schema |-> db.schema, row_count |-> Cardinality(db.rows),
     max_rowid |-> IF db.rows = {} THEN 0 ELSE Max(db.rows)]

\* The file is looked at before the tables, in a step of its own.
StateSnapshot(db, stat, salt) ==
    [table |-> TableFingerprint(db), stat |-> stat, salt |-> salt]

\* compare_snapshots refuses snapshots of two runs.
Comparable(before, after) == before.salt = after.salt

Unchanged(before, after) ==
    /\ Comparable(before, after)
    /\ before.stat = after.stat
    /\ before.table.schema = after.table.schema
    /\ after.table.row_count - before.table.row_count = 0
    /\ after.table.max_rowid - before.table.max_rowid = 0

\* A missing table or column blocks, it never counts as quiet.
Measurable == real.complete

ControlActivity ==
    IF ~Measurable THEN "UNMEASURABLE"
    ELSE IF activity # {} THEN "ACTIVE" ELSE "QUIET"

-----------------------------------------------------------------------------
(* Hermes                                                                  *)

Write(db) ==
    /\ writes < MaxWrites
    /\ writes' = writes + 1
    /\ real' \in {db, [db EXCEPT !.stat = @ + 1]}

\* A run of a user: a row, which may push the oldest out, and an indicator of
\* live work.
ControlRun ==
    /\ \E old \in {{}, {Min(real.rows)}} :
         Write([real EXCEPT !.rows = (@ \cup {Max(@) + 1}) \ old])
    /\ \E i \in Indicator : activity' = activity \cup {i}

Prune ==
    /\ Cardinality(real.rows) > 1
    /\ Write([real EXCEPT !.rows = @ \ {Min(@)}])
    /\ UNCHANGED activity

\* An upgrade changes the schema, and may drop a column the guard reads.
Upgrade ==
    /\ real.schema = 0
    /\ \E c \in BOOLEAN : Write([real EXCEPT !.schema = 1, !.complete = c])
    /\ UNCHANGED activity

\* The work ends and the window of recent activity passes.
FallQuiet ==
    activity # {} /\ activity' = {} /\ UNCHANGED <<real, writes>>

StateNext == ControlRun \/ Prune \/ Upgrade \/ FallQuiet
=============================================================================
