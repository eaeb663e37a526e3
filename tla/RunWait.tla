------------------------------- MODULE RunWait -------------------------------
(***************************************************************************)
(* Waiting for a Hermes run (client.py, client_base.py): the connected     *)
(* wait of hermes_wait over server-sent events, the polling wait of        *)
(* hermes_prompt, and under both the safe GET with its bounded retries     *)
(* (resilience/http_retry.py) and the circuit breaker that all waiters of  *)
(* a process share (resilience/circuit.py).                                *)
(*                                                                         *)
(* Time is left out: a deadline passes, and an open circuit cools down, at *)
(* any moment.                                                             *)
(***************************************************************************)
EXTENDS Integers, Sequences, FiniteSets

CONSTANTS
    Waiter, Connected,      \* all waits of one run; those with a progress callback
    FailureThreshold, HalfOpenMax, SuccessThreshold,    \* CircuitBreakerConfig
    MaxAttempts,            \* UpstreamRetryPolicy.max_attempts
    MaxQueue                \* bound: events that wait in the queue of a stream

ASSUME WaitAssumption ==
    /\ Connected \subseteq Waiter
    /\ {FailureThreshold, HalfOpenMax, SuccessThreshold, MaxAttempts, MaxQueue}
            \subseteq Nat \ {0}

VARIABLES
    circuit,    \* the breaker of the "runs" endpoint class
    cooled,     \* recovery_seconds have passed since it opened
    at,         \* where a wait is, or how it ended
    purpose,    \* what the GET of a wait is for
    probing,    \* waits whose GET took one of the half-open slots
    attempt,    \* attempts that the GET of a wait has made
    queue,      \* items of its event stream
    late,       \* waits past their deadline
    over,       \* external: the run is in a terminal status
    told        \* the status a wait ended with, if it did

waitVars == <<circuit, cooled, at, purpose, probing, attempt, queue, late, over, told>>

-----------------------------------------------------------------------------
(* State                                                                   *)

Closed == [state |-> "closed", failures |-> 0, successes |-> 0, calls |-> 0]
Open == [Closed EXCEPT !.state = "open"]
HalfOpen == [Closed EXCEPT !.state = "half_open"]

WaitOver == {"done", "failed", "cancelled"}
StreamItem == {"progress", "terminal", "end"}

WaitTypeOK ==
    /\ circuit \in [state : {"closed", "open", "half_open"},
            failures : 0..FailureThreshold, successes : 0..SuccessThreshold,
            calls : 0..HalfOpenMax]
    /\ cooled \in BOOLEAN /\ over \in BOOLEAN
    /\ at \in [Waiter -> {"idle", "streaming", "asking", "getting", "sleeping"} \cup WaitOver]
    /\ purpose \in [Waiter -> {"poll", "heartbeat", "terminal"}]
    /\ probing \subseteq Waiter /\ late \subseteq Waiter
    /\ attempt \in [Waiter -> 0..MaxAttempts]
    /\ queue \in [Waiter -> Seq(StreamItem)]
    /\ told \in [Waiter -> {"nothing", "running", "terminal"}]

WaitInit ==
    /\ circuit = Closed /\ cooled = FALSE
    /\ at = [w \in Waiter |-> "idle"]
    /\ purpose = [w \in Waiter |-> "poll"]
    /\ probing = {} /\ late = {}
    /\ attempt = [w \in Waiter |-> 0]
    /\ queue = [w \in Waiter |-> <<>>]
    /\ over = FALSE
    /\ told = [w \in Waiter |-> "nothing"]

-----------------------------------------------------------------------------
(* The circuit breaker: each operation under its lock                      *)

\* _maybe_half_open, then the test of acquire.
Current == IF circuit.state = "open" /\ cooled THEN HalfOpen ELSE circuit

Admits(c) ==
    c.state = "closed" \/ (c.state = "half_open" /\ c.calls < HalfOpenMax)

RecordSuccess ==
    CASE circuit.state # "half_open" -> [circuit EXCEPT !.failures = 0]
      [] circuit.state = "half_open" /\ circuit.successes + 1 >= SuccessThreshold -> Closed
      [] OTHER -> [circuit EXCEPT !.successes = @ + 1,
                                  !.calls = IF @ = 0 THEN 0 ELSE @ - 1]

RecordFailure ==
    CASE circuit.state = "half_open" -> Open
      [] circuit.state = "closed" /\ circuit.failures + 1 >= FailureThreshold -> Open
      [] circuit.state = "open" -> \* the target is the state it is in
            [circuit EXCEPT !.failures = IF @ < FailureThreshold THEN @ + 1 ELSE @]
      [] OTHER -> [circuit EXCEPT !.failures = @ + 1]

\* An opened circuit starts to cool again.
Settle(c) ==
    /\ circuit' = c
    /\ cooled' = IF c.state = "open" /\ circuit.state # "open" THEN FALSE ELSE cooled

CoolDown ==
    /\ circuit.state = "open" /\ ~cooled
    /\ cooled' = TRUE
    /\ UNCHANGED <<circuit, at, purpose, probing, attempt, queue, late, over, told>>

-----------------------------------------------------------------------------
(* One safe GET: acquire, attempts, one record                             *)

WaitAt(w, place) == at' = [at EXCEPT ![w] = place]

Ask(w, why) ==
    at' = [at EXCEPT ![w] = "asking"] /\ purpose' = [purpose EXCEPT ![w] = why]

\* breaker.acquire; a rejected call makes the wait fail at once.
Acquire(w) ==
    /\ at[w] = "asking"
    /\ IF Admits(Current)
       THEN /\ circuit' = [Current EXCEPT
                    !.calls = IF Current.state = "half_open" THEN @ + 1 ELSE @]
            /\ probing' = IF Current.state = "half_open" THEN probing \cup {w} ELSE probing
            /\ attempt' = [attempt EXCEPT ![w] = 1]
            /\ WaitAt(w, "getting")
       ELSE /\ circuit' = Current
            /\ WaitAt(w, "failed") /\ UNCHANGED <<probing, attempt>>
    /\ UNCHANGED <<cooled, purpose, queue, late, over, told>>

\* A timeout, a connection error or a transient status: try again after the
\* backoff, or give up and record one failure.
AttemptFails(w) ==
    /\ at[w] = "getting"
    /\ IF attempt[w] < MaxAttempts
       THEN /\ attempt' = [attempt EXCEPT ![w] = @ + 1]
            /\ UNCHANGED <<circuit, cooled, at, probing>>
       ELSE /\ Settle(RecordFailure)
            /\ probing' = probing \ {w}
            /\ WaitAt(w, "failed") /\ UNCHANGED attempt
    /\ UNCHANGED <<purpose, queue, late, over, told>>

\* A permanent error proves that Hermes is reachable; the wait fails.
Refused(w) ==
    /\ at[w] = "getting"
    /\ Settle(RecordSuccess)
    /\ probing' = probing \ {w}
    /\ WaitAt(w, "failed")
    /\ UNCHANGED <<purpose, attempt, queue, late, over, told>>

Return(w) ==
    /\ WaitAt(w, "done")
    /\ told' = [told EXCEPT ![w] = IF over THEN "terminal" ELSE "running"]

\* The polling wait looks at the clock before it looks at the status.
Answered_PollOnce(w) ==
    /\ at[w] = "getting"
    /\ Settle(RecordSuccess)
    /\ probing' = probing \ {w}
    /\ Return(w)
    /\ UNCHANGED <<purpose, attempt, queue, late, over>>

\* What a wait does with the status: the loops of both waits.
Answered(w) ==
    /\ at[w] = "getting"
    /\ Settle(RecordSuccess)
    /\ probing' = probing \ {w}
    /\ \/ (over \/ purpose[w] = "terminal") /\ Return(w)
       \/ /\ ~over /\ purpose[w] = "heartbeat"
          /\ WaitAt(w, "streaming") /\ UNCHANGED told
       \/ ~over /\ purpose[w] = "poll" /\ w \in late /\ Return(w)
       \/ /\ ~over /\ purpose[w] = "poll" /\ w \notin late
          /\ WaitAt(w, "sleeping") /\ UNCHANGED told
    /\ UNCHANGED <<purpose, attempt, queue, late, over>>

-----------------------------------------------------------------------------
(* The two waits                                                           *)

\* wait_for_run: without a progress callback it polls; with no time it asks once.
Start(w) ==
    /\ at[w] = "idle"
    /\ \/ /\ w \in Connected /\ w \notin late
          /\ WaitAt(w, "streaming") /\ UNCHANGED purpose
       \/ /\ w \notin Connected \/ w \in late
          /\ Ask(w, "poll")
    /\ UNCHANGED <<circuit, cooled, probing, attempt, queue, late, over, told>>

\* _wait_for_run_polling: the sleep between two polls is over.
Poll(w) ==
    /\ at[w] = "sleeping"
    /\ Ask(w, "poll")
    /\ UNCHANGED <<circuit, cooled, probing, attempt, queue, late, over, told>>

\* _read_run_events: the reader task puts an event, or the end of the stream.
\* Hermes sends the terminal event once the run is over.
ReadEvent(w) ==
    /\ at[w] \in {"streaming", "asking", "getting"} /\ w \in Connected
    /\ Len(queue[w]) < MaxQueue
    /\ \A i \in DOMAIN queue[w] : queue[w][i] # "end"
    /\ \E item \in (IF over THEN StreamItem ELSE StreamItem \ {"terminal"}) :
            queue' = [queue EXCEPT ![w] = Append(@, item)]
    /\ UNCHANGED <<circuit, cooled, at, purpose, probing, attempt, late, over, told>>

\* One turn of the connected wait: an event, a silent interval, or the deadline.
\* After the end of the stream, and after the deadline, it polls.
Turn(w) ==
    /\ at[w] = "streaming"
    /\ \/ w \in late /\ Ask(w, "poll") /\ UNCHANGED queue
       \/ /\ w \notin late /\ queue[w] = <<>>
          /\ Ask(w, "heartbeat") /\ UNCHANGED queue
       \/ /\ w \notin late /\ queue[w] # <<>>
          /\ queue' = [queue EXCEPT ![w] = Tail(@)]
          /\ \/ Head(queue[w]) = "progress" /\ UNCHANGED <<at, purpose>>
             \/ Head(queue[w]) = "terminal" /\ Ask(w, "terminal")
             \/ Head(queue[w]) = "end" /\ Ask(w, "poll")
    /\ UNCHANGED <<circuit, cooled, probing, attempt, late, over, told>>

Deadline(w) ==
    /\ w \notin late /\ at[w] \notin WaitOver
    /\ late' = late \cup {w}
    /\ UNCHANGED <<circuit, cooled, at, purpose, probing, attempt, queue, over, told>>

RunOver ==
    /\ ~over /\ over' = TRUE
    /\ UNCHANGED <<circuit, cooled, at, purpose, probing, attempt, queue, late, told>>

\* The client of a wait goes away.  CancelledError is no HermesAPIError: _send
\* records nothing, and a half-open slot is not given back.
Abandon(w) ==
    /\ at[w] \notin WaitOver \cup {"idle"}
    /\ WaitAt(w, "cancelled")
    /\ probing' = probing \ {w}
    /\ UNCHANGED <<circuit, cooled, purpose, attempt, queue, late, over, told>>

\* reset_breakers, or a restart of the process.
ResetBreakers ==
    /\ circuit # Closed /\ \A w \in Waiter : at[w] \in WaitOver \cup {"idle"}
    /\ circuit' = Closed /\ cooled' = FALSE
    /\ UNCHANGED <<at, purpose, probing, attempt, queue, late, over, told>>

GetStep(w) == Acquire(w) \/ AttemptFails(w) \/ Refused(w) \/ Answered(w)
WaiterStep(w) == Start(w) \/ Poll(w) \/ Turn(w) \/ GetStep(w)

WaitNext ==
    \/ \E w \in Waiter : WaiterStep(w) \/ ReadEvent(w) \/ Deadline(w) \/ Abandon(w)
    \/ CoolDown \/ RunOver \/ ResetBreakers

\* The event loop serves every wait, requests have timeouts and deadlines pass.
WaitFairness ==
    \A w \in Waiter : WF_waitVars(WaiterStep(w)) /\ WF_waitVars(Deadline(w))

WaitSpec == WaitInit /\ [][WaitNext]_waitVars

FairWaitSpec == WaitSpec /\ WaitFairness

-----------------------------------------------------------------------------
(* Properties                                                              *)

\* Every wait ends, through heartbeats, broken streams, retries, rejections by
\* the circuit and a deadline that passes in any of them.
WaitsEnd == \A w \in Waiter : (at[w] # "idle") ~> (at[w] \in WaitOver)

\* A wait with time left is never told that the run goes on: it returns a
\* status that is not terminal only past its deadline (the loops of
\* _wait_for_run_connected and _wait_for_run_polling).
NoEarlyReturn ==
    \A w \in Waiter : told[w] = "running" => w \in late
=============================================================================
