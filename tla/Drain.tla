-------------------------------- MODULE Drain --------------------------------
(***************************************************************************)
(* Shutdown of the bridge (http_runner.py, lifecycle.py): tasks register   *)
(* under a key, a stop request starts the drain, which waits for them      *)
(* within its grace period, then cancels what is left and reports whether  *)
(* anything survived.                                                      *)
(***************************************************************************)
EXTENDS Integers, FiniteSets

CONSTANTS
    Task, TaskKey, TaskKeyOf,   \* the tasks and the key each registers under
    NoTask,
    Stubborn                    \* tasks that go on after a cancellation

ASSUME DrainAssumption ==
    TaskKeyOf \in [Task -> TaskKey] /\ NoTask \notin Task /\ Stubborn \subseteq Task

VARIABLES
    task,       \* where a task is
    tracked,    \* InFlightRegistry._tasks
    admitted, completed,
    drain,      \* phase of drain_in_flight
    report,     \* its result
    met         \* history: tasks that ran at the same time as another of their key

drainVars == <<task, tracked, admitted, completed, drain, report, met>>

NoReport == [live |-> 0, survivors |-> 0, restart |-> FALSE]

DrainInit ==
    /\ task = [t \in Task |-> "unmade"]
    /\ tracked = [k \in TaskKey |-> NoTask]
    /\ admitted = 0 /\ completed = 0
    /\ drain = "serving" /\ report = NoReport /\ met = {}

\* live_keys and incomplete_count.
LiveKeys == {k \in TaskKey : tracked[k] # NoTask /\ task[tracked[k]] = "running"}
Incomplete == {k \in TaskKey : tracked[k] # NoTask}

\* run_with_registry, at any time, also while a drain is going on; a second task
\* of a key takes its place.
Register(t) ==
    /\ task[t] = "unmade"
    /\ task' = [task EXCEPT ![t] = "running"]
    /\ tracked' = [tracked EXCEPT ![TaskKeyOf[t]] = t]
    /\ admitted' = admitted + 1
    /\ LET others == {u \in Task : task[u] = "running" /\ TaskKeyOf[u] = TaskKeyOf[t]}
       IN met' = IF others = {} THEN met ELSE met \cup others \cup {t}
    /\ UNCHANGED <<completed, drain, report>>

\* _on_done runs in the same turn of the loop; it clears the key, whoever holds it.
Untrack(k) == tracked' = [tracked EXCEPT ![k] = NoTask]

Finish(t) ==
    /\ task[t] = "running"
    /\ task' = [task EXCEPT ![t] = "over"]
    /\ Untrack(TaskKeyOf[t])
    /\ completed' = completed + 1
    /\ UNCHANGED <<admitted, drain, report, met>>

\* SIGTERM or SIGINT.
RequestStop ==
    /\ drain = "serving" /\ drain' = "grace"
    /\ UNCHANGED <<task, tracked, admitted, completed, report, met>>

\* The grace period ends early when nothing is live, late at its deadline.
GraceEnds ==
    /\ drain = "grace" /\ drain' = "sweep"
    /\ report' = [report EXCEPT !.live = Cardinality(LiveKeys)]
    /\ UNCHANGED <<task, tracked, admitted, completed, met>>

\* The sweep drops what it cancels, whether it ends or not.
Sweep_Forgets ==
    /\ drain = "sweep" /\ Incomplete # {}
    /\ LET ended == {t \in Task \ Stubborn : \E k \in LiveKeys : tracked[k] = t} IN
       /\ task' = [t \in Task |-> IF t \in ended THEN "over" ELSE task[t]]
       /\ tracked' = [k \in TaskKey |-> NoTask]
       /\ completed' = completed + Cardinality(ended)
    /\ UNCHANGED <<admitted, drain, report, met>>

\* One pass of the sweep cancels the tracked tasks; a task may go on all the same.
Sweep ==
    /\ drain = "sweep" /\ Incomplete # {}
    /\ LET ended == {t \in Task \ Stubborn : \E k \in LiveKeys : tracked[k] = t} IN
       /\ ended # {}
       /\ task' = [t \in Task |-> IF t \in ended THEN "over" ELSE task[t]]
       /\ tracked' = [k \in TaskKey |-> IF tracked[k] \in ended THEN NoTask ELSE tracked[k]]
       /\ completed' = completed + Cardinality(ended)
    /\ UNCHANGED <<admitted, drain, report, met>>

\* The sweep found nothing, or its window is over.
DrainEnds ==
    /\ drain = "sweep"
    /\ drain' = "reported"
    /\ report' = [report EXCEPT !.survivors = Cardinality(LiveKeys),
                                !.restart = LiveKeys # {}]
    /\ UNCHANGED <<task, tracked, admitted, completed, met>>

DrainNext ==
    \/ \E t \in Task : Register(t) \/ Finish(t)
    \/ RequestStop \/ GraceEnds \/ Sweep \/ DrainEnds

DrainSpec == DrainInit /\ [][DrainNext]_drainVars

-----------------------------------------------------------------------------
(* Properties                                                              *)

\* The report is true at the moment it is made, although tasks register, end and
\* outlive their cancellation while the drain waits and sweeps: without a restart
\* being asked for, no task is left running that always had its key to itself, and
\* the sweep never waits for a task that has ended (lifecycle.py: "no drain can wait
\* on a ghost"). Tasks that shared their key with a live one are not covered: the
\* registry loses them, so that for them "False exactly when the drain reached zero"
\* does not hold.
DrainTellsTruth ==
    /\ [](Incomplete = LiveKeys)
    /\ [][(drain # "reported" /\ drain' = "reported" /\ ~report'.restart) =>
            \A t \in Task : task[t] = "running" => t \in met]_drainVars
=============================================================================
