--------------------------- MODULE BatchScheduler ---------------------------
(***************************************************************************)
(* Bounded concurrent execution of batches (v2/batch_scheduler.py over     *)
(* v2/batch_contract.py): one asyncio task per step, a semaphore per batch *)
(* and a process-wide capacity.  A task runs without interruption from one *)
(* await to the next, so an action is what happens between two awaits.     *)
(***************************************************************************)
EXTENDS Integers, FiniteSets, FiniteSetsExt

CONSTANTS
    Batch, Step,        \* batches and the step ids of a batch
    Allowed,            \* the steps (b, s) per-step governance allows
    Mutating,           \* the steps whose decision says mutates
    FailFast,           \* batches with failure_policy fail_fast
    DryRun,             \* batches with dry_run
    Requested,          \* max_parallelism of each batch
    Limit,              \* GlobalCapacity.limit
    MaxParallelism      \* BATCH_MAX_PARALLELISM

ASSUME BatchAssumption ==
    /\ Requested \in [Batch -> 1 .. MaxParallelism]
    /\ {Limit, MaxParallelism} \subseteq Nat \ {0} /\ Allowed \subseteq Batch \X Step

VARIABLES
    phase,      \* where run() is, per batch
    task,       \* where run_step is, per batch and step
    results,    \* the results dictionary
    closed,     \* admission_closed, per batch
    used,       \* GlobalCapacity._used
    called,     \* steps handed to the executor
    recorded,   \* steps given to governance.record
    answer      \* the aggregate status the caller got, per batch

batchVars == <<phase, task, results, closed, used, called, recorded, answer>>

Failed == {"FAILED", "TIMED_OUT"}
StepStatus == {"SUCCESS", "DENIED", "CANCELLED", "NOT_STARTED"} \cup Failed

BatchTypeOK ==
    /\ phase \in [Batch -> {"new", "running", "deadline", "disconnected", "done"}]
    /\ task \in [Batch -> [Step -> {"none", "waiting", "running", "cancelled", "ended"}]]
    /\ results \in [Batch -> [Step -> StepStatus \cup {"none"}]]
    /\ closed \in [Batch -> BOOLEAN] /\ used \in 0 .. Limit

BatchInit ==
    /\ phase = [b \in Batch |-> "new"] /\ task = [b \in Batch |-> [s \in Step |-> "none"]]
    /\ results = [b \in Batch |-> [s \in Step |-> "none"]]
    /\ closed = [b \in Batch |-> FALSE] /\ used = 0
    /\ called = {} /\ recorded = {} /\ answer = [b \in Batch |-> "none"]

\* effective_parallelism: one mutating step serialises the batch.
Parallelism(b) ==
    IF \E s \in Step : <<b, s>> \in Mutating THEN 1 ELSE Min({Requested[b], MaxParallelism})

InFlight(b) == {s \in Step : task[b][s] \in {"running", "cancelled"} /\ <<b, s>> \in called}

\* The result of a step that left none behind.
Entry(b, s) == IF results[b][s] = "none" THEN "NOT_STARTED" ELSE results[b][s]

\* aggregate_status
Aggregate(b, timedOut) ==
    LET all == {Entry(b, s) : s \in Step} IN
    CASE all = {"SUCCESS"} -> "SUCCESS"
      [] "SUCCESS" \in all /\ all # {"SUCCESS"} -> "PARTIAL"
      [] "SUCCESS" \notin all /\ timedOut -> "TIMED_OUT"
      [] "SUCCESS" \notin all /\ ~timedOut /\ all = {"DENIED"} -> "DENIED"
      [] OTHER -> IF all \subseteq {"TIMED_OUT", "CANCELLED", "NOT_STARTED"}
                  THEN IF "TIMED_OUT" \in all THEN "TIMED_OUT" ELSE "CANCELLED"
                  ELSE "FAILED"

-----------------------------------------------------------------------------
(* run                                                                     *)

\* A dry run decides and reports; nothing is reserved.
RunDry(b) ==
    /\ phase[b] = "new" /\ b \in DryRun
    /\ phase' = [phase EXCEPT ![b] = "done"]
    /\ results' = [results EXCEPT ![b] =
            [s \in Step |-> IF <<b, s>> \in Allowed THEN "NOT_STARTED" ELSE "DENIED"]]
    /\ answer' = [answer EXCEPT ![b] =
            IF \A s \in Step : <<b, s>> \in Allowed THEN "SUCCESS"
            ELSE IF \A s \in Step : <<b, s>> \notin Allowed THEN "DENIED" ELSE "FAILED"]
    /\ UNCHANGED <<task, closed, used, called, recorded>>

\* reserve refuses at the ceiling instead of queueing.
Admit(b) ==
    /\ phase[b] = "new" /\ b \notin DryRun
    /\ IF used + Parallelism(b) > Limit
       THEN /\ phase' = [phase EXCEPT ![b] = "done"]
            /\ answer' = [answer EXCEPT ![b] = "CAPACITY"]
            /\ UNCHANGED <<used, task>>
       ELSE /\ phase' = [phase EXCEPT ![b] = "running"]
            /\ used' = used + Parallelism(b)
            /\ task' = [task EXCEPT ![b] = [s \in Step |-> "waiting"]]
            /\ UNCHANGED answer
    /\ UNCHANGED <<results, closed, called, recorded>>

End(b, s, status) ==
    /\ task' = [task EXCEPT ![b][s] = "ended"]
    /\ results' = [results EXCEPT ![b][s] = status]

\* run_step before the semaphore: a denial and a closed admission return early,
\* without governance.record and without closing admission.
TurnedAway(b, s) ==
    /\ phase[b] = "running" /\ task[b][s] = "waiting"
    /\ \/ <<b, s>> \notin Allowed /\ End(b, s, "DENIED")
       \/ <<b, s>> \in Allowed /\ closed[b] /\ End(b, s, "NOT_STARTED")
    /\ UNCHANGED <<phase, closed, used, called, recorded, answer>>

\* Admission is not checked again behind the semaphore.
MayStart_Queued(b) == TRUE

\* What a task finds when it gets the semaphore.
MayStart(b) == ~closed[b]

StartStep(b, s) ==
    /\ phase[b] = "running" /\ task[b][s] = "waiting" /\ <<b, s>> \in Allowed
    /\ Cardinality(InFlight(b)) < Parallelism(b)
    /\ MayStart(b)
    /\ task' = [task EXCEPT ![b][s] = "running"] /\ called' = called \cup {<<b, s>>}
    /\ UNCHANGED <<phase, results, closed, used, recorded, answer>>

\* The executor returns, raises or runs into step_timeout_s; the result, the
\* release of the semaphore, record and the closing follow without an await.
FinishStep(b, s, status) ==
    /\ phase[b] = "running" /\ task[b][s] = "running"
    /\ End(b, s, status)
    /\ recorded' = recorded \cup {<<b, s>>}
    /\ closed' = [closed EXCEPT ![b] = @ \/ (b \in FailFast /\ status # "SUCCESS")]
    /\ UNCHANGED <<phase, used, called, answer>>

\* wait_for gives up at batch_timeout_s, or the caller goes away: every task is
\* cancelled; those that wait end without a result.
CancelAll(b, why) ==
    /\ phase[b] = "running" /\ \E s \in Step : task[b][s] # "ended"
    /\ phase' = [phase EXCEPT ![b] = why]
    /\ closed' = [closed EXCEPT ![b] = TRUE]
    /\ task' = [task EXCEPT ![b] = [s \in Step |->
            CASE task[b][s] = "running" -> "cancelled" [] OTHER -> "ended"]]
    /\ UNCHANGED <<results, used, called, recorded, answer>>

\* CancelledError reaches the executor of a running step.
StepCancelled(b, s) ==
    /\ task[b][s] = "cancelled"
    /\ End(b, s, "CANCELLED")
    /\ UNCHANGED <<phase, closed, used, called, recorded, answer>>

\* release is not in a finally.
Release_Normal(b) ==
    used' = IF phase[b] = "running" THEN Max({0, used - Parallelism(b)}) ELSE used

Release(b) == used' = Max({0, used - Parallelism(b)})

\* _finalize, and release in the finally; a disconnected caller gets no result.
Finish(b) ==
    /\ phase[b] \in {"running", "deadline", "disconnected"}
    /\ \A s \in Step : task[b][s] = "ended"
    /\ phase' = [phase EXCEPT ![b] = "done"]
    /\ answer' = [answer EXCEPT ![b] = IF phase[b] = "disconnected" THEN "none"
                                       ELSE Aggregate(b, phase[b] = "deadline")]
    /\ Release(b)
    /\ UNCHANGED <<task, results, closed, called, recorded>>

BatchNext ==
    \E b \in Batch :
        \/ RunDry(b) \/ Admit(b) \/ Finish(b)
        \/ \E why \in {"deadline", "disconnected"} : CancelAll(b, why)
        \/ \E s \in Step :
            \/ TurnedAway(b, s) \/ StartStep(b, s) \/ StepCancelled(b, s)
            \/ \E status \in {"SUCCESS"} \cup Failed : FinishStep(b, s, status)

-----------------------------------------------------------------------------
(* Properties                                                              *)

\* Once a step of a fail-fast batch has failed or timed out, or the batch was
\* cancelled, no further step of it reaches the executor, though tasks were
\* already queued at the semaphore the failing step has just released.
NoStartAfterStop ==
    [][\A b \in Batch :
        (\/ phase[b] \in {"deadline", "disconnected"}
         \/ b \in FailFast /\ \E s \in Step : results[b][s] \in Failed)
        => called' \cap ({b} \X Step) = called \cap ({b} \X Step)]_batchVars

\* What a batch has reserved is in use and is given back on every path: the
\* steps at the executor never exceed the process-wide limit, and when no batch
\* runs the whole capacity is free again.
CapacityReturns ==
    /\ Cardinality(UNION {{b} \X InFlight(b) : b \in Batch}) <= Limit
    /\ (\A b \in Batch : phase[b] \in {"new", "done"}) => used = 0

\* A caller may run again what was reported NOT_STARTED: no such step has been
\* handed to the executor; and a batch is SUCCESS only if all its steps are.
NotStartedIsTrue ==
    \A b \in Batch : phase[b] = "done" =>
        /\ \A s \in Step : Entry(b, s) = "NOT_STARTED" => <<b, s>> \notin called
        /\ (answer[b] = "SUCCESS" /\ b \notin DryRun) =>
                \A s \in Step : results[b][s] = "SUCCESS"
=============================================================================
