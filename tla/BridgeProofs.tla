---------------------------- MODULE BridgeProofs ----------------------------
(***************************************************************************)
(* Proofs about the bridge's own process: the drain at shutdown, the run   *)
(* tracker, the waits for a run and the prompt tools with their registry   *)
(* and approvals.  Each component is proved on its own specification; the  *)
(* last theorem puts the prompt tools and the waits together in the        *)
(* process that MCBridge checks.                                           *)
(***************************************************************************)
EXTENDS MCBridge, TLAPS

-----------------------------------------------------------------------------
(* The drain                                                               *)

\* A task that runs is the one its key tracks, unless it has met another of its key;
\* two tasks of one key that run have met; and what is tracked runs.
DrainInv ==
    /\ task \in [Task -> {"unmade", "running", "over"}]
    /\ tracked \in [TaskKey -> Task \cup {NoTask}]
    /\ report = [live |-> report.live, survivors |-> report.survivors, restart |-> report.restart]
    /\ \A t \in Task : task[t] = "running" => tracked[TaskKeyOf[t]] = t \/ t \in met
    /\ \A t, u \in Task : task[t] = "running" /\ task[u] = "running"
                            /\ TaskKeyOf[t] = TaskKeyOf[u] => t = u \/ t \in met
    /\ \A k \in TaskKey : tracked[k] # NoTask =>
            TaskKeyOf[tracked[k]] = k /\ task[tracked[k]] = "running"

\* Registering, finishing, the grace period, the sweep and the report keep what the
\* drain relies on.
LEMMA DrainKept ==
    ASSUME DrainInv, [DrainNext]_drainVars
    PROVE  DrainInv'
<1> USE DrainAssumption DEF DrainInv, LiveKeys
<1>1. ASSUME NEW t \in Task, Register(t) PROVE DrainInv'
  BY <1>1 DEF Register
<1>2. ASSUME NEW t \in Task, Finish(t) PROVE DrainInv'
  BY <1>2 DEF Finish, Untrack
<1>3. CASE RequestStop
  BY <1>3 DEF RequestStop
<1>4. CASE GraceEnds
  BY <1>4 DEF GraceEnds
<1>5. CASE Sweep
  BY <1>5 DEF Sweep
<1>6. CASE DrainEnds
  BY <1>6 DEF DrainEnds
<1>7. CASE UNCHANGED drainVars
  BY <1>7 DEF drainVars
<1> QED
  BY <1>1, <1>2, <1>3, <1>4, <1>5, <1>6, <1>7 DEF DrainNext

\* drain_in_flight, for any tasks and keys: a report without a restart leaves no task
\* running that always had its key to itself, whatever registers, ends or is cancelled
\* while it waits and sweeps, and the sweep waits for nothing that has ended.
THEOREM DrainTruthful == DrainSpec => DrainTellsTruth
<1> DEFINE Truthful ==
        (drain # "reported" /\ drain' = "reported" /\ ~report'.restart) =>
            \A t \in Task : task[t] = "running" => t \in met
<1>1. DrainInit => DrainInv
  BY DrainAssumption DEF DrainInit, DrainInv, NoReport
<1>2. DrainInv => Incomplete = LiveKeys
  BY DEF DrainInv, Incomplete, LiveKeys
<1>3. DrainInv /\ [DrainNext]_drainVars => [Truthful]_drainVars
  <2>1. ASSUME DrainInv, DrainNext, drain # "reported", drain' = "reported", ~report'.restart,
               NEW t \in Task, task[t] = "running"
        PROVE  t \in met
    <3>1. DrainEnds
      BY <2>1 DEF DrainNext, Register, Finish, RequestStop, GraceEnds, Sweep
    <3>2. report' = [report EXCEPT !.survivors = Cardinality(LiveKeys), !.restart = LiveKeys # {}]
      BY <3>1 DEF DrainEnds
    <3>3. LiveKeys = {}
      BY <2>1, <3>2 DEF DrainInv
    <3>4. tracked[TaskKeyOf[t]] # t
      BY <2>1, <3>3, DrainAssumption DEF LiveKeys
    <3> QED
      BY <2>1, <3>4 DEF DrainInv
  <2> QED
    BY <2>1
<1> QED
  BY <1>1, <1>2, <1>3, DrainKept, PTL DEF DrainSpec, DrainTellsTruth

-----------------------------------------------------------------------------
(* The run tracker                                                         *)

\* A run's record is of its type, and it is final when its status is an end.
TrackInv ==
    /\ track \in [status : TrackedStatus, sequence : Int, final : BOOLEAN]
    /\ track.sequence >= -1
    /\ track.final <=> track.status \in TrackedTerminal

\* An observation keeps the record well formed and moves it forward, or not at all.
LEMMA ObserveMoves ==
    ASSUME TrackInv, NEW s \in TrackedStatus, NEW n \in (0..MaxSequence) \cup {Unnumbered},
           Observe(s, n)
    PROVE  /\ TrackInv'
           /\ Rank(track'.status) >= Rank(track.status) /\ track'.sequence >= track.sequence
           /\ track.status \in TrackedTerminal => track' = track /\ outcome' # "applied"
<1> DEFINE new == Later(NextSequence(n))
<1>1. n \in Int /\ Rank(track.status) \in Int
  BY SequenceAssumption DEF Unnumbered, Rank
<1>2. new \in Int /\ new >= track.sequence
  BY <1>1 DEF TrackInv, Later, NextSequence
<1> HIDE DEF new
<1>3. CASE Fresh(s, n)
  <2>1. ~Repeats(s, n)
    BY <1>3 DEF Fresh, Repeats
  <2>2. track' = [status |-> s, sequence |-> new, final |-> s \in TrackedTerminal]
    BY <1>3, <2>1 DEF Observe, new
  <2>3. (s \in TrackedTerminal) \in BOOLEAN
    OBVIOUS
  <2>4. Rank(s) >= Rank(track.status) /\ ~track.final
    BY <1>3 DEF Fresh
  <2>5. track' \in [status : TrackedStatus, sequence : Int, final : BOOLEAN]
    BY <1>2, <2>2, <2>3
  <2>6. /\ track'.status = s /\ track'.sequence = new
        /\ track'.final <=> s \in TrackedTerminal
    BY <2>2
  <2> QED
    BY <1>2, <2>4, <2>5, <2>6 DEF TrackInv
<1>4. CASE Repeats(s, n) /\ ~Fresh(s, n)
  <2>1. PICK old \in [status : TrackedStatus, sequence : Int, final : BOOLEAN] : old = track
    BY DEF TrackInv
  <2>2. track' = [old EXCEPT !.sequence = new]
    BY <1>4, <2>1 DEF Observe, new
  <2> QED
    BY <1>1, <1>2, <1>4, <2>1, <2>2 DEF TrackInv, Repeats
<1>5. CASE ~Fresh(s, n) /\ ~Repeats(s, n)
  BY <1>1, <1>5 DEF Observe, TrackInv
<1> QED
  BY <1>3, <1>4, <1>5

\* RunStateTracker.observe: however late, doubled or out of order observations come,
\* a run that is not forgotten never goes back and ends once.
THEOREM TrackForward == TrackerSpec => TrackMovesForward
<1>1. TrackerInit => TrackInv
  BY DEF TrackerInit, TrackInv, NewTrack, TrackedStatus, TrackedTerminal
<1>2. ASSUME TrackInv, [TrackerNext]_trackVars
      PROVE  /\ TrackInv'
             /\ [track' # NewTrack =>
                    /\ Rank(track'.status) >= Rank(track.status)
                    /\ track'.sequence >= track.sequence
                    /\ track.status \in TrackedTerminal =>
                            track' = track /\ outcome' # "applied"]_trackVars
  <2>1. CASE Forget
    BY <2>1 DEF Forget, TrackInv, NewTrack, TrackedStatus, TrackedTerminal
  <2>2. CASE \E s \in TrackedStatus, n \in (0..MaxSequence) \cup {Unnumbered} : Observe(s, n)
    BY <1>2, <2>2, ObserveMoves
  <2>3. CASE UNCHANGED trackVars
    BY <1>2, <2>3 DEF trackVars, TrackInv
  <2> QED
    BY <1>2, <2>1, <2>2, <2>3 DEF TrackerNext
<1> QED
  BY <1>1, <1>2, PTL DEF TrackerSpec, TrackMovesForward
-----------------------------------------------------------------------------
(* Waits for a run                                                         *)

\* The types of a breaker's record.
Circuit ==
    [state : {"closed", "open", "half_open"}, failures : 0..FailureThreshold,
     successes : 0..SuccessThreshold, calls : 0..HalfOpenMax]

\* A terminal event waits in a stream, and a wait asks for the final status, only
\* once the run is over; a wait that was told of a running run was late.
WaitInv ==
    /\ WaitTypeOK
    /\ \A w \in Waiter :
        /\ \A i \in DOMAIN queue[w] : queue[w][i] = "terminal" => over
        /\ purpose[w] = "terminal" => over
        /\ told[w] = "running" => w \in late

\* Whatever the breaker records, its counters stay within their thresholds.
LEMMA CircuitTypes ==
    ASSUME circuit \in Circuit
    PROVE  /\ Current \in Circuit /\ RecordSuccess \in Circuit /\ RecordFailure \in Circuit
           /\ Current.state = "half_open" /\ Admits(Current) =>
                [Current EXCEPT !.calls = Current.calls + 1] \in Circuit
<1> USE WaitAssumption DEF Circuit
<1>1. Closed \in Circuit /\ Open \in Circuit /\ HalfOpen \in Circuit
  BY DEF Closed, Open, HalfOpen
<1>2. Current \in Circuit
  BY <1>1 DEF Current
<1>3. RecordSuccess \in Circuit
  <2>1. PICK c \in Circuit : c = circuit
    OBVIOUS
  <2>2. CASE c.state # "half_open"
    BY <2>1, <2>2 DEF RecordSuccess
  <2>3. CASE c.state = "half_open" /\ c.successes + 1 >= SuccessThreshold
    BY <1>1, <2>1, <2>3 DEF RecordSuccess
  <2>4. CASE c.state = "half_open" /\ ~(c.successes + 1 >= SuccessThreshold)
    <3>1. (IF c.calls = 0 THEN 0 ELSE c.calls - 1) \in 0..HalfOpenMax /\ c.successes + 1 \in 0..SuccessThreshold
      BY <2>4
    <3> QED
      BY <2>1, <2>4, <3>1 DEF RecordSuccess
  <2> QED
    BY <2>2, <2>3, <2>4
<1>4. RecordFailure \in Circuit
  <2>1. PICK c \in Circuit : c = circuit
    OBVIOUS
  <2>2. CASE c.state = "half_open" \/ (c.state = "closed" /\ c.failures + 1 >= FailureThreshold)
    BY <1>1, <2>1, <2>2 DEF RecordFailure
  <2>3. CASE c.state = "open"
    BY <2>1, <2>3 DEF RecordFailure
  <2>4. CASE c.state = "closed" /\ ~(c.failures + 1 >= FailureThreshold)
    BY <2>1, <2>4 DEF RecordFailure
  <2> QED
    BY <2>2, <2>3, <2>4
<1>5. ASSUME Current.state = "half_open", Admits(Current)
      PROVE  [Current EXCEPT !.calls = Current.calls + 1] \in Circuit
  BY <1>2, <1>5 DEF Admits
<1> QED
  BY <1>2, <1>3, <1>4, <1>5
\* Every step of a wait, of its stream, of the run and of the breaker keeps the
\* types and what the waits know.
LEMMA WaitKept ==
    ASSUME WaitInv, [WaitNext]_waitVars
    PROVE  WaitInv'
<1> USE WaitAssumption DEF WaitInv, WaitTypeOK, WaitAt, WaitOver, StreamItem
<1>1. ASSUME NEW w \in Waiter, Start(w) \/ Poll(w) PROVE WaitInv'
  BY <1>1 DEF Start, Poll, Ask
<1>2. ASSUME NEW w \in Waiter, Turn(w) PROVE WaitInv'
  <2> USE DEF Turn, Ask
  <2>1. UNCHANGED <<circuit, cooled, probing, attempt, late, over, told>>
    BY <1>2
  <2>2. ASSUME NEW why \in {"poll", "heartbeat", "terminal"}, Ask(w, why), why = "terminal" => over
        PROVE  /\ at' \in [Waiter -> {"idle", "streaming", "asking", "getting", "sleeping"}
                                        \cup WaitOver]
               /\ purpose' \in [Waiter -> {"poll", "heartbeat", "terminal"}]
               /\ \A v \in Waiter : purpose'[v] = "terminal" => over
    BY <2>2
  <2>3. CASE (w \in late \/ queue[w] = <<>>) /\ UNCHANGED queue
    <3>1. PICK why \in {"poll", "heartbeat"} : Ask(w, why)
      BY <1>2, <2>3
    <3> QED  BY <2>1, <2>2, <2>3, <3>1
  <2>4. CASE queue[w] # <<>> /\ queue' = [queue EXCEPT ![w] = Tail(queue[w])]
    <3>1. PICK q \in Seq(StreamItem) : q = queue[w] /\ q # <<>>
      BY <2>4
    <3>2. /\ Tail(q) \in Seq(StreamItem) /\ Head(q) \in StreamItem
          /\ \A i \in DOMAIN Tail(q) : \E j \in DOMAIN q : Tail(q)[i] = q[j]
          /\ Head(q) = "terminal" => \E j \in DOMAIN q : q[j] = "terminal"
      BY <3>1
    <3>3. Head(q) = "terminal" => over
      BY <3>1, <3>2
    <3>4. queue'[w] = Tail(q) /\ \A v \in Waiter \ {w} : queue'[v] = queue[v]
      BY <2>4, <3>1
    <3>5. queue' \in [Waiter -> Seq(StreamItem)]
      BY <2>4, <3>1, <3>2
    <3>6. \A v \in Waiter : \A i \in DOMAIN queue'[v] : queue'[v][i] = "terminal" => over
      <4>1. \A i \in DOMAIN Tail(q) : Tail(q)[i] = "terminal" => over
        <5>1. \A j \in DOMAIN q : q[j] = "terminal" => over
          BY <3>1
        <5> QED  BY <3>2, <5>1
      <4>2. \A v \in Waiter \ {w} : \A i \in DOMAIN queue'[v] : queue'[v][i] = "terminal" => over
        <5>1. \A v \in Waiter : \A i \in DOMAIN queue[v] : queue[v][i] = "terminal" => over
          OBVIOUS
        <5> QED  BY <3>4, <5>1, Zenon
      <4> QED  BY <3>4, <4>1, <4>2, Zenon
    <3>7. UNCHANGED <<at, purpose>>
          \/ \E why \in {"poll", "heartbeat", "terminal"} : Ask(w, why) /\ (why = "terminal" => over)
      <4>1. \/ UNCHANGED <<at, purpose>> \/ Ask(w, "poll") \/ Ask(w, "heartbeat")
            \/ Ask(w, "terminal") /\ Head(q) = "terminal"
        BY <1>2, <3>1
      <4> QED  BY <3>3, <4>1
    <3>8. /\ at' \in [Waiter -> {"idle", "streaming", "asking", "getting", "sleeping"}
                                  \cup WaitOver]
          /\ purpose' \in [Waiter -> {"poll", "heartbeat", "terminal"}]
          /\ \A v \in Waiter : purpose'[v] = "terminal" => over
      <4>1. CASE UNCHANGED <<at, purpose>>
        BY <4>1
      <4>2. CASE \E why \in {"poll", "heartbeat", "terminal"} : Ask(w, why) /\ (why = "terminal" => over)
        BY <2>2, <4>2
      <4> QED  BY <3>7, <4>1, <4>2
    <3>9. WaitTypeOK'
      BY <2>1, <3>5, <3>8
    <3>10. \A v \in Waiter : told'[v] = "running" => v \in late'
      BY <2>1
    <3>11. over' = over
      BY <2>1
    <3> HIDE DEF WaitTypeOK, WaitInv
    <3>12. \A v \in Waiter :
            /\ \A i \in DOMAIN queue'[v] : queue'[v][i] = "terminal" => over'
            /\ purpose'[v] = "terminal" => over'
            /\ told'[v] = "running" => v \in late'
      BY <3>6, <3>8, <3>10, <3>11
    <3> QED  BY <3>9, <3>12 DEF WaitInv
  <2>5. queue[w] # <<>> => \/ queue' = [queue EXCEPT ![w] = Tail(queue[w])]
                           \/ w \in late /\ UNCHANGED queue
    BY <1>2
  <2>6. queue[w] = <<>> => UNCHANGED queue
    BY <1>2
  <2> QED
    BY <2>3, <2>4, <2>5, <2>6
<1>3. ASSUME NEW w \in Waiter, ReadEvent(w) PROVE WaitInv'
  <2>1. PICK item \in StreamItem : /\ queue' = [queue EXCEPT ![w] = Append(queue[w], item)]
                                   /\ item = "terminal" => over
    BY <1>3 DEF ReadEvent
  <2>2. PICK q \in Seq(StreamItem) : q = queue[w]
    OBVIOUS
  <2>3. /\ Append(q, item) \in Seq(StreamItem)
        /\ \A i \in DOMAIN Append(q, item) :
                Append(q, item)[i] = item \/ \E j \in DOMAIN q : Append(q, item)[i] = q[j]
    OBVIOUS
  <2>4. /\ queue' \in [Waiter -> Seq(StreamItem)]
        /\ \A v \in Waiter : \A i \in DOMAIN queue'[v] : queue'[v][i] = "terminal" => over
    BY <2>1, <2>2, <2>3
  <2> QED
    BY <1>3, <2>4, SMTT(20) DEF ReadEvent
<1>4. circuit \in Circuit /\ Closed \in Circuit
  BY DEF Circuit, Closed
<1>5. ASSUME NEW w \in Waiter, Acquire(w) PROVE WaitInv'
  <2>1. CASE Admits(Current)
    <3>1. circuit' \in Circuit
      <4>1. CASE Current.state = "half_open"
        BY <1>4, <1>5, <2>1, <4>1, CircuitTypes DEF Acquire
      <4>2. CASE Current.state # "half_open"
        <5>1. circuit' = [Current EXCEPT !.calls = Current.calls] /\ Current \in Circuit
          BY <1>4, <1>5, <2>1, <4>2, CircuitTypes DEF Acquire
        <5> QED
          BY <5>1 DEF Circuit
      <4> QED
        BY <4>1, <4>2
    <3>2. /\ attempt' = [attempt EXCEPT ![w] = 1] /\ at' = [at EXCEPT ![w] = "getting"]
          /\ probing' = IF Current.state = "half_open" THEN probing \cup {w} ELSE probing
      BY <1>5, <2>1, Zenon DEF Acquire
    <3>3. /\ attempt' \in [Waiter -> 0..MaxAttempts] /\ probing' \subseteq Waiter
          /\ at' \in [Waiter -> {"idle", "streaming", "asking", "getting", "sleeping"} \cup WaitOver]
      BY <3>2
    <3>4. UNCHANGED <<cooled, purpose, queue, late, over, told>>
      BY <1>5 DEF Acquire
    <3> QED
      BY <3>1, <3>3, <3>4 DEF Circuit
  <2>2. CASE ~Admits(Current)
    <3>1. circuit' \in Circuit
      BY <1>4, <1>5, <2>2, CircuitTypes DEF Acquire
    <3> QED
      BY <1>5, <2>2, <3>1 DEF Acquire, Circuit
  <2> QED
    BY <2>1, <2>2
<1>6. ASSUME NEW w \in Waiter, AttemptFails(w) PROVE WaitInv'
  <2>0. UNCHANGED <<purpose, queue, late, over, told>>
    BY <1>6 DEF AttemptFails
  <2>1. CASE attempt[w] < MaxAttempts
    <3>1. attempt[w] + 1 \in 0..MaxAttempts
      BY <2>1
    <3>2. /\ attempt' = [attempt EXCEPT ![w] = attempt[w] + 1]
          /\ UNCHANGED <<circuit, cooled, at, probing>>
      BY <1>6, <2>1 DEF AttemptFails
    <3>3. attempt' \in [Waiter -> 0..MaxAttempts]
      BY <3>1, <3>2
    <3> QED
      BY <2>0, <3>2, <3>3
  <2>2. CASE ~(attempt[w] < MaxAttempts)
    <3>1. circuit' \in Circuit /\ cooled' \in BOOLEAN
      BY <1>4, <1>6, <2>2, CircuitTypes DEF AttemptFails, Settle
    <3>2. /\ probing' = probing \ {w} /\ attempt' = attempt
          /\ at' = [at EXCEPT ![w] = "failed"]
      BY <1>6, <2>2 DEF AttemptFails
    <3>3. probing' \subseteq Waiter /\ "failed" \in WaitOver
      BY <3>2
    <3>4. at' \in [Waiter -> {"idle", "streaming", "asking", "getting", "sleeping"} \cup WaitOver]
      BY <3>2, <3>3
    <3> QED
      BY <2>0, <3>1, <3>2, <3>3, <3>4 DEF Circuit
  <2> QED
    BY <2>1, <2>2
<1>7. ASSUME NEW w \in Waiter, Refused(w) PROVE WaitInv'
  <2>1. circuit' \in Circuit /\ cooled' \in BOOLEAN
    BY <1>4, <1>7, CircuitTypes DEF Refused, Settle
  <2> QED
    BY <1>7, <2>1 DEF Refused, Circuit
<1>8. ASSUME NEW w \in Waiter, Answered(w) PROVE WaitInv'
  <2>1. circuit' \in Circuit /\ cooled' \in BOOLEAN
    BY <1>4, <1>8, CircuitTypes DEF Answered, Settle
  <2>2. \/ Return(w) /\ (over \/ w \in late)
        \/ told' = told /\ (WaitAt(w, "streaming") \/ WaitAt(w, "sleeping"))
    BY <1>8 DEF Answered
  <2>3. PICK place \in {"done", "streaming", "sleeping"} : at' = [at EXCEPT ![w] = place]
    BY <2>2 DEF Return
  <2>4. at' \in [Waiter -> {"idle", "streaming", "asking", "getting", "sleeping"} \cup WaitOver]
    BY <2>3
  <2>5. /\ told' \in [Waiter -> {"nothing", "running", "terminal"}]
        /\ \A v \in Waiter : told'[v] = "running" => v \in late
    <3>1. CASE told' = told
      BY <3>1
    <3>2. CASE told' = [told EXCEPT ![w] = IF over THEN "terminal" ELSE "running"]
               /\ (over \/ w \in late)
      BY <3>2
    <3> QED
      BY <2>2, <3>1, <3>2 DEF Return
  <2>6. UNCHANGED <<purpose, attempt, queue, late, over>> /\ probing' \subseteq Waiter
    BY <1>8 DEF Answered
  <2> QED
    BY <2>1, <2>4, <2>5, <2>6 DEF Circuit
<1>9. ASSUME NEW w \in Waiter, Deadline(w) \/ Abandon(w) PROVE WaitInv'
  BY <1>9 DEF Deadline, Abandon
<1>10. CASE CoolDown \/ RunOver
  BY <1>10 DEF CoolDown, RunOver
<1>11. CASE ResetBreakers
  BY <1>4, <1>11 DEF ResetBreakers, Circuit
<1>12. CASE UNCHANGED waitVars
  BY <1>12 DEF waitVars
<1> QED
  BY <1>1, <1>2, <1>3, <1>5, <1>6, <1>7, <1>8, <1>9, <1>10, <1>11, <1>12
     DEF WaitNext, WaiterStep, GetStep

\* The waits start out knowing nothing.
LEMMA WaitStarts == WaitInit => WaitInv
<1>1. Closed \in Circuit
  BY WaitAssumption DEF Circuit, Closed
<1>2. <<>> \in Seq(StreamItem) /\ DOMAIN <<>> = {} /\ 0 \in 0..MaxAttempts
  BY WaitAssumption
<1> SUFFICES ASSUME WaitInit PROVE WaitInv
  OBVIOUS
<1>3. WaitTypeOK
  BY <1>1, <1>2 DEF WaitInit, WaitTypeOK, Circuit, WaitOver
<1>4. ASSUME NEW w \in Waiter
      PROVE  /\ \A i \in DOMAIN queue[w] : queue[w][i] = "terminal" => over
             /\ purpose[w] = "terminal" => over
             /\ told[w] = "running" => w \in late
  <2>1. queue[w] = <<>> /\ purpose[w] = "poll" /\ told[w] = "nothing"
    BY DEF WaitInit
  <2> QED
    BY <1>2, <2>1
<1> QED
  BY <1>3, <1>4 DEF WaitInv

\* wait_for_run, connected or polling: a wait that is told of a run that goes on is
\* past its deadline, through any order of events, heartbeats, retries and ends.
THEOREM WaitsPatient == WaitSpec => []NoEarlyReturn
<1>1. WaitInv => NoEarlyReturn
  BY DEF WaitInv, NoEarlyReturn
<1> QED
  BY <1>1, WaitStarts, WaitKept, PTL DEF WaitSpec
-----------------------------------------------------------------------------
(* The prompt tools: places, rows and runs                                 *)

\* Where a handler has not asked Hermes for a run.
BeforeRun ==
    {"unmade", "new", "blocked", "denied", "admitted", "reading", "creating", "recovering",
     "conflict"}

\* A call that has not asked for a run has none; a repeated prompt that looks for
\* its run has a row; and only keyed calls record.
PlaceInv ==
    /\ BridgeTypeOK
    /\ \A c \in Call : /\ pc[c] \in BeforeRun => run[c] = "absent"
                       /\ pc[c] = "recovering" => Mapped(c)
    /\ \A c \in writing : Keyed(c)

\* The row of a key stays, whatever is recorded later.
LEMMA RowStays ==
    ASSUME BridgeTypeOK, [BridgeNext]_bridgeVars, NEW k \in Key, mapping[k] # NoMapping
    PROVE  mapping'[k] = mapping[k]
<1> USE PromptAssumption DEF BridgeTypeOK
<1>1. ASSUME NEW c \in Call, Record(c) PROVE mapping'[k] = mapping[k]
  BY <1>1 DEF Record, RecordRow
<1>2. CASE UNCHANGED mapping
  BY <1>2
<1> QED
  BY <1>1, <1>2 DEF BridgeNext, HandlerStep, EnforcePromptPolicy, AcquireKey, Lookup, Recover,
      CreateRun, CreateFails, WaitEnds, WaitFails, Cancel, CallAgain, RunEnds, Respond, RunOut,
      Restart, bridgeVars

\* BridgeTypeOK in two parts: the handlers with their approvals, and the runs.
HandlerTypes ==
    /\ pc \in [Call -> {"unmade", "new", "admitted"} \cup Holding \cup Ended]
    /\ approval \in [Digest -> Decision \cup {"absent"}] /\ overdue \subseteq Digest
    /\ known \subseteq Call /\ orphaned \subseteq Call /\ writing \subseteq Call
    /\ retries \in 0..MaxRetries

\* What the rows, the runs and the answers are.
RunTypes ==
    /\ mapping \in [Key -> MappingRow \cup {NoMapping}]
    /\ run \in [Call -> RunState]
    /\ answer \in [Call -> [run : Call \cup {NoRun}, status : RunState, warned : BOOLEAN]]

\* Every step keeps the types of the handlers' places, approvals and history.
LEMMA HandlerTyped ==
    ASSUME HandlerTypes, [BridgeNext]_bridgeVars
    PROVE  HandlerTypes'
<1> USE PromptAssumption DEF HandlerTypes, Goto, Holding, Ended
<1>1. ASSUME NEW c \in Call, EnforcePromptPolicy(c) PROVE HandlerTypes'
  <2>1. DigestOf[c] \in Digest
    OBVIOUS
  <2> QED
    BY <1>1, <2>1 DEF EnforcePromptPolicy, Resolve, Consume, RequestApproval, Decision
<1>2. ASSUME NEW c \in Call, AcquireKey(c) \/ Lookup(c) \/ Recover(c) PROVE HandlerTypes'
  BY <1>2 DEF AcquireKey, Lookup, Recover
<1>3. ASSUME NEW c \in Call, CreateRun(c) PROVE HandlerTypes'
  BY <1>3 DEF CreateRun
<1>4. ASSUME NEW c \in Call, CreateFails(c) \/ WaitEnds(c) \/ WaitFails(c) PROVE HandlerTypes'
  BY <1>4 DEF CreateFails, WaitEnds, WaitFails
<1>5. ASSUME NEW c \in Call, Record(c) PROVE HandlerTypes'
  BY <1>5 DEF Record
<1>6. ASSUME NEW c \in Call, Cancel(c) PROVE HandlerTypes'
  <2>1. pc' \in [Call -> {"unmade", "new", "admitted"} \cup Holding \cup Ended]
    BY <1>6 DEF Cancel
  <2> QED
    BY <1>6, <2>1 DEF Cancel
<1>7. ASSUME NEW c \in Call, CallAgain(c) \/ RunEnds(c) PROVE HandlerTypes'
  BY <1>7 DEF CallAgain, RunEnds
<1>8. ASSUME NEW d \in Digest, Respond(d) \/ RunOut(d) PROVE HandlerTypes'
  BY <1>8 DEF Respond, RunOut
<1>9. CASE Restart
  BY <1>9 DEF Restart
<1>10. CASE UNCHANGED bridgeVars
  BY <1>10 DEF bridgeVars
<1> QED
  BY <1>1, <1>2, <1>3, <1>4, <1>5, <1>6, <1>7, <1>8, <1>9, <1>10 DEF BridgeNext, HandlerStep

\* Every step keeps the types of rows, runs and answers.
LEMMA RunTyped ==
    ASSUME PlaceInv, [BridgeNext]_bridgeVars
    PROVE  RunTypes'
<1> USE PromptAssumption DEF RunTypes
<1>1. RunTypes /\ NoMapping.run = NoRun /\ NoMapping.status = "absent"
  BY DEF PlaceInv, BridgeTypeOK, NoMapping
<1>2. ASSUME NEW c \in Call, Keyed(c) PROVE KeyOf[c] \in Key
  BY <1>2 DEF Keyed
<1>3. ASSUME NEW c \in Call, NEW row \in MappingRow,
             answer' = [answer EXCEPT ![c] = AnswerFrom(c, row)], UNCHANGED <<mapping, run>>
      PROVE  RunTypes'
  BY <1>1, <1>3 DEF AnswerFrom, MappingRow
<1>4. ASSUME NEW c \in Call, NEW s \in RunState, NEW b \in BOOLEAN,
             answer' = [answer EXCEPT ![c] = [run |-> c, status |-> s, warned |-> b]]
      PROVE  answer' \in [Call -> [run : Call \cup {NoRun}, status : RunState, warned : BOOLEAN]]
  BY <1>1, <1>4
<1>5. ASSUME NEW c \in Call, Lookup(c) PROVE RunTypes'
  <2>1. CASE answer' = answer
    BY <1>1, <1>5, <2>1 DEF Lookup
  <2>2. CASE Mapped(c) /\ answer' = [answer EXCEPT ![c] = AnswerFrom(c, mapping[KeyOf[c]])]
    <3>1. mapping[KeyOf[c]] \in MappingRow
      BY <1>1, <1>2, <2>2 DEF Mapped
    <3> QED
      BY <1>3, <1>5, <2>2, <3>1 DEF Lookup
  <2> QED
    BY <1>5, <2>1, <2>2 DEF Lookup
<1>6. ASSUME NEW c \in Call, Recover(c) PROVE RunTypes'
  <2>1. PICK row \in MappingRow : row = mapping[KeyOf[c]]
    BY <1>1, <1>2, <1>6 DEF Recover, PlaceInv, Mapped
  <2>2. PICK real \in MappingRow : real = [row EXCEPT !.status = run[row.run]]
    BY <1>1, <2>1 DEF MappingRow
  <2>3. CASE answer' = [answer EXCEPT ![c] = AnswerFrom(c, real)]
    BY <1>3, <1>6, <2>3 DEF Recover
  <2>4. CASE answer' = [answer EXCEPT ![c] = AnswerFrom(c, row)]
    BY <1>3, <1>6, <2>4 DEF Recover
  <2>5. CASE answer' = answer
    BY <1>1, <1>6, <2>5 DEF Recover
  <2> QED
    BY <1>6, <2>1, <2>2, <2>3, <2>4, <2>5 DEF Recover
<1>7. ASSUME NEW c \in Call, CreateRun(c) PROVE RunTypes'
  <2>1. PICK s \in RunState : run' = [run EXCEPT ![c] = s]
    BY <1>7 DEF CreateRun
  <2>2. run' \in [Call -> RunState] /\ run'[c] \in RunState /\ mapping' = mapping
    BY <1>1, <1>7, <2>1 DEF CreateRun
  <2>3. \/ answer' = answer
        \/ answer' = [answer EXCEPT ![c] = [run |-> c, status |-> run'[c], warned |-> FALSE]]
    BY <1>7 DEF CreateRun
  <2> QED
    BY <1>1, <1>4, <2>2, <2>3
<1>8. ASSUME NEW c \in Call, WaitEnds(c) PROVE RunTypes'
  BY <1>1, <1>4, <1>8 DEF WaitEnds
<1>9. ASSUME NEW c \in Call, Record(c) PROVE RunTypes'
  <2>1. c \in writing /\ run' = run /\ run[c] \in RunState /\ KeyOf[c] \in Key
    BY <1>1, <1>2, <1>9 DEF Record, PlaceInv
  <2>2. mapping' \in [Key -> MappingRow \cup {NoMapping}]
    <3>1. [run |-> c, status |-> run[c]] \in MappingRow
      BY <2>1 DEF MappingRow
    <3> QED
      BY <1>1, <1>9, <2>1, <3>1 DEF Record, RecordRow
  <2>3. \/ answer' = answer
        \/ \E b \in BOOLEAN :
              answer' = [answer EXCEPT ![c] = [run |-> c, status |-> run[c], warned |-> b]]
    BY <1>9 DEF Record
  <2> QED
    BY <1>1, <1>4, <2>1, <2>2, <2>3
<1>10. ASSUME NEW c \in Call, CreateFails(c) \/ Cancel(c) \/ RunEnds(c) PROVE RunTypes'
  BY <1>1, <1>10 DEF CreateFails, Cancel, RunEnds, RunState, Terminal
<1>11. CASE Restart
  BY <1>1, <1>11 DEF Restart
<1>12. CASE UNCHANGED <<mapping, run, answer>>
  BY <1>1, <1>12
<1> QED
  BY <1>5, <1>6, <1>7, <1>8, <1>9, <1>10, <1>11, <1>12 DEF BridgeNext, HandlerStep,
      EnforcePromptPolicy, AcquireKey, WaitFails, CallAgain, Respond, RunOut, bridgeVars
\* A handler's place, answer and run are changed by its own steps, by its
\* cancellation, by its run and by a restart.
LEMMA OwnMoves ==
    ASSUME BridgeTypeOK, [BridgeNext]_bridgeVars, NEW c \in Call
    PROVE  /\ pc'[c] # pc[c] => HandlerStep(c) \/ Cancel(c) \/ CallAgain(c) \/ Restart
           /\ answer'[c] # answer[c] =>
                Lookup(c) \/ Recover(c) \/ CreateRun(c) \/ WaitEnds(c) \/ Record(c)
           /\ run'[c] # run[c] =>
                CreateRun(c) \/ CreateFails(c) \/ Cancel(c) \/ RunEnds(c) \/ Restart
<1> USE DEF BridgeTypeOK, Goto
<1>1. ASSUME NEW d \in Call, d # c, EnforcePromptPolicy(d)
      PROVE  UNCHANGED <<pc[c], answer[c], run[c]>>
  BY <1>1 DEF EnforcePromptPolicy, Resolve, Consume, RequestApproval
<1>2. ASSUME NEW d \in Call, d # c, AcquireKey(d) \/ Lookup(d) \/ Recover(d)
      PROVE  UNCHANGED <<pc[c], answer[c], run[c]>>
  BY <1>2 DEF AcquireKey, Lookup, Recover
<1>3. ASSUME NEW d \in Call, d # c, CreateRun(d) \/ CreateFails(d) \/ WaitEnds(d) \/ WaitFails(d)
      PROVE  UNCHANGED <<pc[c], answer[c], run[c]>>
  BY <1>3 DEF CreateRun, CreateFails, WaitEnds, WaitFails
<1>4. ASSUME NEW d \in Call, d # c, Record(d) PROVE UNCHANGED <<pc[c], answer[c], run[c]>>
  BY <1>4 DEF Record
<1>5. ASSUME NEW d \in Call, d # c, Cancel(d) \/ CallAgain(d) \/ RunEnds(d)
      PROVE  UNCHANGED <<pc[c], answer[c], run[c]>>
  BY <1>5 DEF Cancel, CallAgain, RunEnds
<1>6. ASSUME NEW d \in Digest, Respond(d) \/ RunOut(d) PROVE UNCHANGED <<pc[c], answer[c], run[c]>>
  BY <1>6 DEF Respond, RunOut
<1>7. CASE UNCHANGED bridgeVars
  BY <1>7 DEF bridgeVars
<1>8. CASE HandlerStep(c)
  BY <1>8 DEF HandlerStep, EnforcePromptPolicy, AcquireKey, WaitFails, CreateFails, Lookup, Recover,
      WaitEnds, Record
<1>9. CASE Cancel(c) \/ CallAgain(c) \/ RunEnds(c) \/ Restart
  BY <1>9 DEF Cancel, CallAgain, RunEnds, Restart
<1> QED
  BY <1>1, <1>2, <1>3, <1>4, <1>5, <1>6, <1>7, <1>8, <1>9 DEF BridgeNext, HandlerStep

\* Every step keeps the runs, rows and records of the handlers' places.
LEMMA PlaceKept ==
    ASSUME PlaceInv, [BridgeNext]_bridgeVars
    PROVE  PlaceInv'
<1>1. BridgeTypeOK' /\ BridgeTypeOK
  <2>1. HandlerTypes
    BY DEF PlaceInv, BridgeTypeOK, HandlerTypes
  <2> QED
    BY <2>1, HandlerTyped, RunTyped DEF PlaceInv, BridgeTypeOK, HandlerTypes, RunTypes
<1>2. \A c \in Call : Mapped(c) => Mapped(c)'
  BY <1>1, RowStays, PromptAssumption DEF Mapped, Keyed
<1>3. ASSUME NEW c \in Call, pc'[c] \in BeforeRun PROVE run'[c] = "absent"
  <2> USE PromptAssumption DEF PlaceInv, BridgeTypeOK, Goto, BeforeRun, Holding
  <2>1. ASSUME NEW d \in Call, EnforcePromptPolicy(d) PROVE run'[c] = "absent"
    BY <1>3, <2>1 DEF EnforcePromptPolicy, Resolve, Consume, RequestApproval
  <2>2. ASSUME NEW d \in Call, AcquireKey(d) \/ Lookup(d) \/ Recover(d) PROVE run'[c] = "absent"
    BY <1>3, <2>2 DEF AcquireKey, Lookup, Recover
  <2>3. ASSUME NEW d \in Call, CreateRun(d) \/ CreateFails(d) PROVE run'[c] = "absent"
    BY <1>3, <2>3 DEF CreateRun, CreateFails
  <2>4. ASSUME NEW d \in Call, WaitEnds(d) \/ WaitFails(d) \/ Record(d) PROVE run'[c] = "absent"
    BY <1>3, <2>4 DEF WaitEnds, WaitFails, Record
  <2>5. ASSUME NEW d \in Call, Cancel(d) PROVE run'[c] = "absent"
    BY <1>3, <2>5 DEF Cancel
  <2>6. ASSUME NEW d \in Call, CallAgain(d) \/ RunEnds(d) PROVE run'[c] = "absent"
    BY <1>3, <2>6 DEF CallAgain, RunEnds
  <2>7. CASE Restart
    BY <1>3, <2>7 DEF Restart
  <2>8. CASE UNCHANGED <<pc, run>>
    BY <1>3, <2>8
  <2> QED
    BY <2>1, <2>2, <2>3, <2>4, <2>5, <2>6, <2>7, <2>8 DEF BridgeNext, HandlerStep, Respond,
        RunOut, bridgeVars
<1>4. ASSUME NEW c \in Call, pc'[c] = "recovering" PROVE Mapped(c)'
  <2> USE DEF PlaceInv, BridgeTypeOK, Goto
  <2> DEFINE Known == pc[c] = "recovering" \/ Mapped(c)
  <2>1. CASE EnforcePromptPolicy(c)
    BY <1>4, <2>1 DEF EnforcePromptPolicy, Resolve, Consume, RequestApproval
  <2>2. CASE AcquireKey(c) \/ Lookup(c) \/ Recover(c)
    <3>1. Known
      BY <1>4, <2>2 DEF AcquireKey, Lookup, Recover
    <3> QED  BY <1>2, <3>1
  <2>3. CASE CreateRun(c) \/ CreateFails(c) \/ WaitEnds(c) \/ WaitFails(c)
    BY <1>4, <2>3 DEF CreateRun, CreateFails, WaitEnds, WaitFails
  <2>4. CASE Record(c) \/ Cancel(c) \/ CallAgain(c) \/ Restart
    <3>1. Known
      BY <1>4, <2>4 DEF Record, Cancel, CallAgain, Restart
    <3> QED  BY <1>2, <3>1
  <2>5. CASE pc'[c] = pc[c]
    <3>1. Mapped(c)
      BY <1>4, <2>5
    <3> QED  BY <1>2, <3>1
  <2>6. BridgeTypeOK
    BY <1>1
  <2>7. pc'[c] # pc[c] => HandlerStep(c) \/ Cancel(c) \/ CallAgain(c) \/ Restart
    BY <2>6, OwnMoves
  <2> QED
    BY <2>1, <2>2, <2>3, <2>4, <2>5, <2>7 DEF HandlerStep
<1>5. \A c \in writing' : Keyed(c)
  <2> USE DEF PlaceInv
  <2>1. ASSUME NEW d \in Call, EnforcePromptPolicy(d) \/ AcquireKey(d) \/ Lookup(d) \/ Recover(d)
        PROVE  writing' \subseteq writing
    BY <2>1 DEF EnforcePromptPolicy, AcquireKey, Lookup, Recover
  <2>2. ASSUME NEW d \in Call, CreateRun(d) \/ CreateFails(d) \/ WaitEnds(d) \/ WaitFails(d)
        PROVE  \A c \in writing' : Keyed(c)
    BY <2>2 DEF CreateRun, CreateFails, WaitEnds, WaitFails
  <2>3. ASSUME NEW d \in Call, Record(d) \/ Cancel(d) \/ CallAgain(d) \/ RunEnds(d)
        PROVE  \A c \in writing' : Keyed(c)
    BY <2>3 DEF Record, Cancel, CallAgain, RunEnds
  <2>4. ASSUME NEW d \in Digest, Respond(d) \/ RunOut(d) PROVE writing' \subseteq writing
    BY <2>4 DEF Respond, RunOut
  <2>5. CASE Restart \/ UNCHANGED bridgeVars
    BY <2>5 DEF Restart, bridgeVars
  <2> QED
    BY <2>1, <2>2, <2>3, <2>4, <2>5 DEF BridgeNext, HandlerStep
<1> QED
  BY <1>1, <1>3, <1>4, <1>5 DEF PlaceInv, Keyed

\* A run that is over stays as it ended: no later request, stop or restart changes it.
LEMMA EndStays ==
    ASSUME PlaceInv, [BridgeNext]_bridgeVars, NEW c \in Call, run[c] \in Terminal
    PROVE  run'[c] = run[c]
<1> USE DEF PlaceInv, BridgeTypeOK, Terminal, BeforeRun
<1>1. ASSUME NEW d \in Call, CreateRun(d) \/ CreateFails(d) PROVE run'[c] = run[c]
  BY <1>1 DEF CreateRun, CreateFails
<1>2. ASSUME NEW d \in Call, Cancel(d) \/ RunEnds(d) PROVE run'[c] = run[c]
  BY <1>2 DEF Cancel, RunEnds
<1>3. CASE Restart
  BY <1>3 DEF Restart
<1>4. CASE UNCHANGED run
  BY <1>4
<1> QED
  BY <1>1, <1>2, <1>3, <1>4 DEF BridgeNext, HandlerStep, EnforcePromptPolicy, AcquireKey, Lookup,
      Recover, WaitEnds, WaitFails, Record, CallAgain, Respond, RunOut, bridgeVars

\* Rows and answers that call a run over are right about it.
TruthInv ==
    /\ PlaceInv
    /\ \A k \in Key : mapping[k].status \in Terminal => run[mapping[k].run] = mapping[k].status
    /\ \A c \in Call : answer[c].status \in Terminal => answer[c].run \in Call
    /\ TerminalIsTrue

\* Every step keeps rows and answers right.
LEMMA TruthKept ==
    ASSUME TruthInv, [BridgeNext]_bridgeVars
    PROVE  TruthInv'
<1>1. PlaceInv /\ PlaceInv' /\ BridgeTypeOK /\ BridgeTypeOK'
  BY PlaceKept DEF TruthInv, PlaceInv
<1>2. \A c \in Call : run[c] \in Terminal => run'[c] = run[c]
  BY <1>1, EndStays
<1>3. ASSUME NEW k \in Key, mapping'[k].status \in Terminal
      PROVE  run'[mapping'[k].run] = mapping'[k].status
  <2>1. CASE mapping'[k] = mapping[k]
    <3>1. mapping[k].run \in Call
      BY <1>1, <1>3, <2>1 DEF BridgeTypeOK, NoMapping, MappingRow, Terminal
    <3> QED
      BY <1>2, <1>3, <2>1, <3>1 DEF TruthInv
  <2>2. ASSUME NEW c \in Call, Record(c), mapping'[k] # mapping[k]
        PROVE  run'[mapping'[k].run] = mapping'[k].status
    <3>1. mapping'[k] = [run |-> c, status |-> run[c]] /\ run' = run
      BY <1>1, <2>2 DEF Record, RecordRow, BridgeTypeOK
    <3> QED
      BY <3>1
  <2> QED
    BY <2>1, <2>2 DEF BridgeNext, HandlerStep, EnforcePromptPolicy, AcquireKey, Lookup, Recover,
      CreateRun, CreateFails, WaitEnds, WaitFails, Cancel, CallAgain, RunEnds, Respond, RunOut,
      Restart, bridgeVars
<1>4. ASSUME NEW c \in Call, answer'[c].status \in Terminal
      PROVE  answer'[c].run \in Call /\ run'[answer'[c].run] = answer'[c].status
  <2> USE PromptAssumption
  <2>1. CASE answer'[c] = answer[c]
    BY <1>2, <1>4, <2>1 DEF TruthInv, TerminalIsTrue
  <2>2. ASSUME NEW s \in RunState, NEW b \in BOOLEAN, s = run'[c],
               answer' = [answer EXCEPT ![c] = [run |-> c, status |-> s, warned |-> b]]
        PROVE  answer'[c].run \in Call /\ run'[answer'[c].run] = answer'[c].status
    BY <1>1, <2>2 DEF BridgeTypeOK
  <2>3. ASSUME NEW row \in MappingRow, run' = run, row.status \in Terminal => run[row.run] = row.status,
               answer' = [answer EXCEPT ![c] = AnswerFrom(c, row)]
        PROVE  answer'[c].run \in Call /\ run'[answer'[c].run] = answer'[c].status
    <3>1. answer'[c] = [run |-> row.run, status |-> row.status, warned |-> FALSE]
      BY <1>1, <2>3 DEF BridgeTypeOK, AnswerFrom
    <3> QED
      BY <1>4, <2>3, <3>1 DEF MappingRow
  <2>4. ASSUME Lookup(c), answer' # answer
        PROVE  answer'[c].run \in Call /\ run'[answer'[c].run] = answer'[c].status
    <3>1. Mapped(c) /\ run' = run /\ answer' = [answer EXCEPT ![c] = AnswerFrom(c, mapping[KeyOf[c]])]
      BY <2>4 DEF Lookup
    <3>2. KeyOf[c] \in Key /\ mapping[KeyOf[c]] \in MappingRow
      BY <1>1, <3>1 DEF Mapped, Keyed, BridgeTypeOK
    <3> QED
      BY <2>3, <3>1, <3>2 DEF TruthInv
  <2>5. ASSUME Recover(c), answer' # answer
        PROVE  answer'[c].run \in Call /\ run'[answer'[c].run] = answer'[c].status
    <3>1. PICK row \in MappingRow : row = mapping[KeyOf[c]] /\ KeyOf[c] \in Key
      BY <1>1, <2>5 DEF Recover, PlaceInv, Mapped, Keyed, BridgeTypeOK
    <3>2. PICK real \in MappingRow : real = [row EXCEPT !.status = run[row.run]]
      BY <1>1, <3>1 DEF MappingRow, BridgeTypeOK
    <3>3. real.status = run[real.run]
      BY <3>2 DEF MappingRow
    <3>4. row.status \in Terminal => run[row.run] = row.status
      BY <3>1 DEF TruthInv
    <3>5. /\ run' = run
          /\ \/ answer' = [answer EXCEPT ![c] = AnswerFrom(c, real)]
             \/ answer' = [answer EXCEPT ![c] = AnswerFrom(c, row)]
      BY <2>5, <3>1, <3>2 DEF Recover
    <3> QED
      BY <2>3, <3>3, <3>4, <3>5
  <2>6. ASSUME CreateRun(c) \/ WaitEnds(c) \/ Record(c), answer' # answer
        PROVE  answer'[c].run \in Call /\ run'[answer'[c].run] = answer'[c].status
    <3>1. run'[c] \in RunState
      BY <1>1 DEF BridgeTypeOK
    <3>2. \E b \in BOOLEAN :
             answer' = [answer EXCEPT ![c] = [run |-> c, status |-> run'[c], warned |-> b]]
      BY <2>6 DEF CreateRun, WaitEnds, Record
    <3> QED
      BY <2>2, <3>1, <3>2
  <2> QED
    BY <1>1, <2>1, <2>4, <2>5, <2>6, OwnMoves
<1> QED
  BY <1>1, <1>3, <1>4 DEF TruthInv, TerminalIsTrue
-----------------------------------------------------------------------------
(* One approval, one run                                                   *)

\* The policy gate asks for an approval of the prompt.
Needs(c) == DecisionOf[c] = "REQUIRE_APPROVAL"

\* The call was let through by the policy gate.
Past(c) == pc[c] \notin {"unmade", "new", "blocked", "denied"}

\* The call repeats a prompt that has a row: it has no run and gets none.
Follows(c) ==
    /\ Mapped(c) /\ SameFingerprint(c)
    /\ run[c] = "absent" /\ pc[c] \notin {"creating", "waiting"}

\* What was let through has spent its approval, and of two calls that one approval
\* let through one only follows the other.
ApprovalInv ==
    /\ PlaceInv
    /\ \A c \in Call : Needs(c) /\ Past(c) => approval[DigestOf[c]] = "consumed"
    /\ \A c, d \in Call :
        Needs(c) /\ Needs(d) /\ DigestOf[c] = DigestOf[d] /\ Past(c) /\ Past(d) /\ c # d
            => Follows(c) \/ Follows(d)

\* A consumed approval stays consumed.
LEMMA ConsumedStays ==
    ASSUME BridgeTypeOK, [BridgeNext]_bridgeVars, NEW d \in Digest, approval[d] = "consumed"
    PROVE  approval'[d] = "consumed"
<1> USE PromptAssumption DEF BridgeTypeOK
<1>1. ASSUME NEW c \in Call, EnforcePromptPolicy(c) PROVE approval'[d] = "consumed"
  BY <1>1 DEF EnforcePromptPolicy, Resolve, Consume, RequestApproval
<1>2. ASSUME NEW e \in Digest, Respond(e) PROVE approval'[d] = "consumed"
  BY <1>2 DEF Respond
<1>3. CASE UNCHANGED approval
  BY <1>3
<1> QED
  BY <1>1, <1>2, <1>3 DEF BridgeNext, HandlerStep, AcquireKey, Lookup, Recover, CreateRun,
      CreateFails, WaitEnds, WaitFails, Record, Cancel, CallAgain, RunEnds, RunOut, Restart, bridgeVars

\* A call that follows a row goes on to do so.
LEMMA FollowsStays ==
    ASSUME PlaceInv, [BridgeNext]_bridgeVars, NEW c \in Call, Follows(c)
    PROVE  Follows(c)'
<1> USE DEF Follows
<1>1. BridgeTypeOK
  BY DEF PlaceInv
<1>2. KeyOf[c] \in Key /\ mapping[KeyOf[c]] # NoMapping /\ mapping'[KeyOf[c]] = mapping[KeyOf[c]]
  BY <1>1, RowStays, PromptAssumption DEF Mapped, Keyed
<1>3. Mapped(c)' /\ SameFingerprint(c)'
  BY <1>2 DEF Mapped, SameFingerprint, Keyed
<1>4. run'[c] = "absent"
  BY <1>1, OwnMoves DEF BridgeTypeOK, CreateRun, CreateFails, Cancel, RunEnds, Restart
<1>5. pc'[c] \notin {"creating", "waiting"}
  <2> USE DEF Goto, BridgeTypeOK
  <2>1. CASE HandlerStep(c)
    BY <1>1, <2>1 DEF HandlerStep, EnforcePromptPolicy, Resolve, Consume, RequestApproval, AcquireKey,
        Lookup, Recover, CreateRun, CreateFails, WaitEnds, WaitFails, Record, Mapped
  <2>2. CASE Cancel(c) \/ CallAgain(c) \/ Restart
    BY <1>1, <2>2 DEF Cancel, CallAgain, Restart
  <2> QED
    BY <1>1, <2>1, <2>2, OwnMoves
<1> QED
  BY <1>3, <1>4, <1>5

\* A call gets past the gate by spending its approval, or as a repetition of a
\* prompt that has its row.
LEMMA LetThrough ==
    ASSUME PlaceInv, [BridgeNext]_bridgeVars, NEW c \in Call, Needs(c), Past(c)', ~Past(c)
    PROVE  /\ approval'[DigestOf[c]] = "consumed"
           /\ approval[DigestOf[c]] = "consumed" => Follows(c)'
           /\ \A d \in Call \ {c} : pc'[d] = pc[d]
<1>1. BridgeTypeOK /\ DigestOf[c] \in Digest
  BY PromptAssumption DEF PlaceInv
<1>2. EnforcePromptPolicy(c)
  <2>1. pc'[c] # pc[c] /\ pc[c] \in {"unmade", "new", "blocked", "denied"}
    BY DEF Past
  <2>2. ~(AcquireKey(c) \/ Lookup(c) \/ Recover(c) \/ CreateRun(c) \/ CreateFails(c))
    BY <2>1 DEF AcquireKey, Lookup, Recover, CreateRun, CreateFails
  <2>3. ~(WaitEnds(c) \/ WaitFails(c) \/ Record(c))
    BY <2>1 DEF WaitEnds, WaitFails, Record
  <2>4. ~(Cancel(c) \/ CallAgain(c) \/ Restart)
    BY <1>1, <2>1 DEF Cancel, CallAgain, Restart, Holding, BridgeTypeOK, Goto, Past
  <2> QED
    BY <1>1, <2>1, <2>2, <2>3, <2>4, OwnMoves DEF HandlerStep
<1>3. run[c] = "absent" /\ run' = run /\ mapping' = mapping
  BY <1>2 DEF EnforcePromptPolicy, PlaceInv, BeforeRun
<1>4. pc'[c] = "admitted" /\ \A d \in Call \ {c} : pc'[d] = pc[d]
  BY <1>1, <1>2 DEF EnforcePromptPolicy, Resolve, Consume, RequestApproval, Goto, Past, BridgeTypeOK
<1>5. \/ approval[DigestOf[c]] = "approved" /\ approval'[DigestOf[c]] = "consumed"
      \/ /\ approval[DigestOf[c]] = "consumed" /\ approval' = approval
         /\ ExistingExecutionMatches(c)
  BY <1>1, <1>2, <1>4 DEF EnforcePromptPolicy, Resolve, Consume, RequestApproval, Goto, BridgeTypeOK, Needs
<1> QED
  BY <1>3, <1>4, <1>5 DEF ExistingExecutionMatches, Follows, Mapped, SameFingerprint, Keyed

\* Every step keeps approvals spent and repetitions without a run.
LEMMA ApprovalKept ==
    ASSUME ApprovalInv, [BridgeNext]_bridgeVars
    PROVE  ApprovalInv'
<1>1. PlaceInv /\ PlaceInv' /\ BridgeTypeOK
  BY PlaceKept DEF ApprovalInv, PlaceInv
<1>2. ASSUME NEW c \in Call, Needs(c), Past(c)' PROVE approval'[DigestOf[c]] = "consumed"
  BY <1>1, <1>2, LetThrough, ConsumedStays, PromptAssumption DEF ApprovalInv
<1>3. ASSUME NEW c \in Call, NEW d \in Call, Needs(c), Needs(d), DigestOf[c] = DigestOf[d],
             c # d, Past(c), Past(d)', ~Past(d)
      PROVE  Follows(c)' \/ Follows(d)'
  BY <1>1, <1>3, LetThrough DEF ApprovalInv
<1>4. ASSUME NEW c \in Call, NEW d \in Call, Needs(c), Needs(d), DigestOf[c] = DigestOf[d],
             c # d, Past(c)', Past(d)'
      PROVE  Follows(c)' \/ Follows(d)'
  <2>1. CASE Past(c) /\ Past(d)
    BY <1>1, <1>4, <2>1, FollowsStays DEF ApprovalInv
  <2>2. CASE ~Past(c) /\ ~Past(d)
    BY <1>1, <1>4, <2>2, LetThrough DEF Past
  <2> QED
    BY <1>3, <1>4, <2>1, <2>2
<1> QED
  BY <1>1, <1>2, <1>4 DEF ApprovalInv, Needs
-----------------------------------------------------------------------------
(* One key, one answer                                                     *)

\* Places of a handler whose run is not recorded.
Unrecorded == {"creating", "waiting", "recording", "rescuing"}

\* No handler of the key went away with its record on a thread.
Attended(k) == \A c \in orphaned : KeyOf[c] # k

\* The lock of a key has one holder; a record belongs to a holder or is orphaned;
\* while a run of the key is not recorded there is no row; and what was answered
\* without a warning is what the row says.
KeyInv ==
    /\ PlaceInv
    /\ \A c, d \in Call : Keyed(c) /\ KeyOf[c] = KeyOf[d] /\ c # d =>
            ~(pc[c] \in Holding /\ pc[d] \in Holding)
    /\ \A c \in writing : pc[c] \in {"recording", "rescuing"} \/ c \in orphaned
    /\ \A c \in Call : Keyed(c) /\ Attended(KeyOf[c]) =>
        /\ pc[c] \in Unrecorded => mapping[KeyOf[c]] = NoMapping
        /\ answer[c].run # NoRun /\ ~answer[c].warned => mapping[KeyOf[c]].run = answer[c].run

\* A handler holds the lock of its key since it took it while it was free.
LEMMA HoldingMoves ==
    ASSUME PlaceInv, [BridgeNext]_bridgeVars, NEW c \in Call, Keyed(c), pc'[c] \in Holding
    PROVE  pc[c] \in Holding \/ (AcquireKey(c) /\ LockFree(KeyOf[c]))
<1>1. BridgeTypeOK
  BY DEF PlaceInv
<1> USE DEF Goto, Holding, BridgeTypeOK
<1>2. CASE EnforcePromptPolicy(c)
  BY <1>1, <1>2 DEF EnforcePromptPolicy, Resolve, Consume, RequestApproval
<1>3. CASE AcquireKey(c)
  BY <1>1, <1>3 DEF AcquireKey
<1>4. CASE Lookup(c) \/ Recover(c) \/ CreateRun(c) \/ CreateFails(c) \/ WaitEnds(c) \/ WaitFails(c)
  BY <1>1, <1>4 DEF Lookup, Recover, CreateRun, CreateFails, WaitEnds, WaitFails
<1>5. CASE Record(c) /\ pc'[c] # pc[c]
  BY <1>1, <1>5 DEF Record
<1>6. CASE Cancel(c) \/ CallAgain(c) \/ Restart
  BY <1>1, <1>6 DEF Cancel, CallAgain, Restart
<1> QED
  BY <1>1, <1>2, <1>3, <1>4, <1>5, <1>6, OwnMoves DEF HandlerStep

\* A handler comes to an unrecorded run from one, or from a key without a row.
LEMMA UnrecordedMoves ==
    ASSUME PlaceInv, [BridgeNext]_bridgeVars, NEW c \in Call, Keyed(c), pc'[c] \in Unrecorded
    PROVE  pc[c] \in Unrecorded \/ (mapping[KeyOf[c]] = NoMapping /\ mapping' = mapping)
<1>1. BridgeTypeOK
  BY DEF PlaceInv
<1> USE DEF Goto, Unrecorded, BridgeTypeOK
<1>2. CASE EnforcePromptPolicy(c) \/ AcquireKey(c)
  BY <1>1, <1>2 DEF EnforcePromptPolicy, Resolve, Consume, RequestApproval, AcquireKey
<1>3. CASE Lookup(c)
  BY <1>1, <1>3 DEF Lookup, Mapped
<1>4. CASE Recover(c) \/ CreateRun(c) \/ CreateFails(c) \/ WaitEnds(c) \/ WaitFails(c)
  BY <1>1, <1>4 DEF Recover, CreateRun, CreateFails, WaitEnds, WaitFails
<1>5. CASE Record(c) /\ pc'[c] # pc[c]
  BY <1>1, <1>5 DEF Record
<1>6. CASE Cancel(c) \/ CallAgain(c) \/ Restart
  BY <1>1, <1>6 DEF Cancel, CallAgain, Restart
<1> QED
  BY <1>1, <1>2, <1>3, <1>4, <1>5, <1>6, OwnMoves DEF HandlerStep

\* Nobody is un-orphaned; a record is begun by a handler that waits for it, and a
\* handler that goes away leaves it orphaned.
WritersFollow ==
    /\ orphaned \subseteq orphaned'
    /\ \A c \in writing' :
        /\ c \in writing \/ pc'[c] = "recording"
        /\ pc[c] \in {"recording", "rescuing"} =>
                pc'[c] \in {"recording", "rescuing"} \/ c \in orphaned'

\* Every step keeps records with their handlers.
LEMMA WritersMove ==
    ASSUME BridgeTypeOK, [BridgeNext]_bridgeVars
    PROVE  WritersFollow
<1> USE DEF Goto, BridgeTypeOK, WritersFollow
<1>1. ASSUME NEW c \in Call, EnforcePromptPolicy(c) PROVE WritersFollow
  BY <1>1 DEF EnforcePromptPolicy, Resolve, Consume, RequestApproval
<1>2. ASSUME NEW c \in Call, AcquireKey(c) \/ Lookup(c) \/ Recover(c) PROVE WritersFollow
  BY <1>2 DEF AcquireKey, Lookup, Recover
<1>3. ASSUME NEW c \in Call, CreateRun(c) \/ CreateFails(c) \/ WaitEnds(c) \/ WaitFails(c)
      PROVE  WritersFollow
  BY <1>3 DEF CreateRun, CreateFails, WaitEnds, WaitFails
<1>4. ASSUME NEW c \in Call, Record(c) PROVE WritersFollow
  BY <1>4 DEF Record
<1>5. ASSUME NEW c \in Call, Cancel(c) PROVE WritersFollow
  BY <1>5 DEF Cancel
<1>6. ASSUME NEW c \in Call, CallAgain(c) \/ RunEnds(c) PROVE WritersFollow
  BY <1>6 DEF CallAgain, RunEnds
<1>7. CASE (\E d \in Digest : Respond(d) \/ RunOut(d)) \/ Restart
  BY <1>7 DEF Respond, RunOut, Restart
<1>8. CASE UNCHANGED bridgeVars
  BY <1>8 DEF bridgeVars
<1> QED
  BY <1>1, <1>2, <1>3, <1>4, <1>5, <1>6, <1>7, <1>8 DEF BridgeNext, HandlerStep

\* A row is made by the record of a call of its key.
LEMMA RowMade ==
    ASSUME PlaceInv, [BridgeNext]_bridgeVars, NEW k \in Key, mapping'[k] # mapping[k]
    PROVE  /\ mapping[k] = NoMapping
           /\ \E c \in writing : Record(c) /\ KeyOf[c] = k /\ mapping'[k] = [run |-> c, status |-> run[c]]
<1>1. BridgeTypeOK
  BY DEF PlaceInv
<1>2. PICK c \in Call : Record(c)
  BY DEF BridgeNext, HandlerStep, EnforcePromptPolicy, AcquireKey, Lookup, Recover,
      CreateRun, CreateFails, WaitEnds, WaitFails, Cancel, CallAgain, RunEnds, Respond, RunOut,
      Restart, bridgeVars
<1>3. c \in writing /\ RecordRow(c) /\ KeyOf[c] \in Key
  BY <1>2, PromptAssumption DEF Record, PlaceInv, Keyed
<1> QED
  BY <1>1, <1>2, <1>3, RowStays DEF RecordRow, BridgeTypeOK

\* Every step keeps the keys and their answers.
LEMMA KeyKept ==
    ASSUME KeyInv, [BridgeNext]_bridgeVars
    PROVE  KeyInv'
<1>1. PlaceInv /\ PlaceInv' /\ BridgeTypeOK /\ BridgeTypeOK' /\ WritersFollow
  BY PlaceKept, WritersMove DEF KeyInv, PlaceInv
<1>2. ASSUME NEW c \in Call, NEW d \in Call, Keyed(c), KeyOf[c] = KeyOf[d], c # d
      PROVE  ~(pc'[c] \in Holding /\ pc'[d] \in Holding)
  <2>1. ASSUME AcquireKey(c), LockFree(KeyOf[c]) PROVE pc'[d] \notin Holding
    BY <1>1, <1>2, <2>1 DEF AcquireKey, LockFree, Goto, BridgeTypeOK
  <2>2. ASSUME AcquireKey(d), LockFree(KeyOf[d]) PROVE pc'[c] \notin Holding
    BY <1>1, <1>2, <2>2 DEF AcquireKey, LockFree, Goto, BridgeTypeOK
  <2>3. Keyed(d)
    BY <1>2 DEF Keyed
  <2> QED
    BY <1>1, <1>2, <2>1, <2>2, <2>3, HoldingMoves DEF KeyInv
<1>3. ASSUME NEW c \in writing' PROVE pc'[c] \in {"recording", "rescuing"} \/ c \in orphaned'
  BY <1>1, <1>3 DEF WritersFollow, KeyInv
<1>4. ASSUME NEW c \in Call, Keyed(c), Attended(KeyOf[c])'
      PROVE  /\ KeyOf[c] \in Key /\ Attended(KeyOf[c])
             /\ mapping'[KeyOf[c]] # mapping[KeyOf[c]] =>
                    /\ mapping[KeyOf[c]] = NoMapping
                    /\ \E d \in Call :
                        /\ KeyOf[d] = KeyOf[c] /\ Record(d) /\ pc[d] \in {"recording", "rescuing"}
                        /\ mapping'[KeyOf[c]] = [run |-> d, status |-> run[d]]
  <2>1. KeyOf[c] \in Key /\ Attended(KeyOf[c])
    BY <1>1, <1>4, PromptAssumption DEF Attended, WritersFollow, Keyed
  <2>2. ASSUME mapping'[KeyOf[c]] # mapping[KeyOf[c]]
        PROVE  /\ mapping[KeyOf[c]] = NoMapping
               /\ \E d \in writing :
                    /\ KeyOf[d] = KeyOf[c] /\ Record(d)
                    /\ mapping'[KeyOf[c]] = [run |-> d, status |-> run[d]]
    BY <1>1, <2>1, <2>2, RowMade
  <2> QED
    BY <1>1, <2>1, <2>2 DEF KeyInv, Attended, BridgeTypeOK
<1>5. ASSUME NEW c \in Call, Keyed(c), Attended(KeyOf[c])', pc'[c] \in Unrecorded
      PROVE  mapping'[KeyOf[c]] = NoMapping
  <2>1. mapping[KeyOf[c]] = NoMapping
    BY <1>1, <1>4, <1>5, UnrecordedMoves DEF KeyInv
  <2>2. ASSUME mapping'[KeyOf[c]] # mapping[KeyOf[c]] PROVE FALSE
    <3>1. PICK d \in Call : KeyOf[d] = KeyOf[c] /\ Record(d) /\ pc[d] \in {"recording", "rescuing"}
      BY <1>4, <1>5, <2>2
    <3>2. pc[c] \in Unrecorded
      BY <1>1, <1>5, <2>2, UnrecordedMoves
    <3>3. d = c
      BY <1>5, <3>1, <3>2 DEF KeyInv, Holding, Unrecorded
    <3>4. pc'[c] \notin Unrecorded
      BY <1>1, <3>1, <3>3 DEF Record, Goto, BridgeTypeOK, Unrecorded
    <3> QED
      BY <1>5, <3>4
  <2> QED
    BY <2>1, <2>2
<1>6. ASSUME NEW c \in Call, Keyed(c), Attended(KeyOf[c])', answer'[c].run # NoRun, ~answer'[c].warned
      PROVE  mapping'[KeyOf[c]].run = answer'[c].run
  <2>1. CASE answer'[c] = answer[c]
    <3>1. mapping[KeyOf[c]].run = answer[c].run
      BY <1>4, <1>6, <2>1 DEF KeyInv
    <3>2. mapping[KeyOf[c]] # NoMapping
      BY <1>6, <2>1, <3>1 DEF NoMapping
    <3> QED
      BY <1>4, <1>6, <2>1, <3>1, <3>2
  <2>2. ASSUME answer'[c] # answer[c], Lookup(c) \/ Recover(c)
        PROVE  mapping'[KeyOf[c]].run = answer'[c].run
    <3>1. PICK row \in MappingRow : row = mapping[KeyOf[c]] /\ mapping' = mapping
      BY <1>1, <1>4, <1>6, <2>2 DEF Lookup, Recover, PlaceInv, Mapped, BridgeTypeOK
    <3>2. \E s \in RunState :
             answer' = [answer EXCEPT ![c] = [run |-> row.run, status |-> s, warned |-> FALSE]]
      <4>1. row.status \in RunState /\ run[row.run] \in RunState
            /\ [row EXCEPT !.status = run[row.run]].status = run[row.run]
            /\ [row EXCEPT !.status = run[row.run]].run = row.run
        BY <1>1, <3>1 DEF MappingRow, BridgeTypeOK
      <4> QED
        BY <2>2, <3>1, <4>1 DEF Lookup, Recover, AnswerFrom
    <3> QED
      BY <1>1, <3>1, <3>2 DEF BridgeTypeOK
  <2>3. ASSUME answer'[c] # answer[c], CreateRun(c) \/ WaitEnds(c) PROVE FALSE
    BY <1>6, <2>3 DEF CreateRun, WaitEnds
  <2>4. ASSUME answer'[c] # answer[c], Record(c) PROVE mapping'[KeyOf[c]].run = answer'[c].run
    <3>1. pc[c] = "recording" /\ mapping[KeyOf[c]] = NoMapping
      BY <1>4, <1>6, <2>4 DEF Record, KeyInv, Unrecorded
    <3>2. RecordRow(c) /\ answer' = [answer EXCEPT ![c] = [run |-> c, status |-> run[c], warned |-> FALSE]]
      BY <1>1, <1>6, <2>4, <3>1 DEF Record, BridgeTypeOK
    <3> QED
      BY <1>1, <1>4, <1>6, <3>1, <3>2 DEF RecordRow, BridgeTypeOK
  <2> QED
    BY <1>1, <2>1, <2>2, <2>3, <2>4, OwnMoves
<1> QED
  BY <1>1, <1>2, <1>3, <1>5, <1>6 DEF KeyInv, Keyed
-----------------------------------------------------------------------------
(* The theorems about the prompt tools                                     *)

\* Before the first call there is no run, no row, no approval and no answer.
LEMMA BridgeStarts == BridgeInit => TruthInv /\ ApprovalInv /\ KeyInv
<1> SUFFICES ASSUME BridgeInit PROVE TruthInv /\ ApprovalInv /\ KeyInv
  OBVIOUS
<1> USE PromptAssumption DEF BridgeInit
<1>1. NoAnswer \in [run : Call \cup {NoRun}, status : RunState, warned : BOOLEAN]
      /\ NoAnswer.run = NoRun /\ NoAnswer.status = "absent" /\ NoMapping.status = "absent"
  BY DEF NoAnswer, NoMapping, RunState
<1>2. \A c \in Call : pc[c] \in {"unmade", "new"} /\ answer[c] = NoAnswer /\ run[c] = "absent"
  OBVIOUS
<1>3. PlaceInv
  <2>1. BridgeTypeOK
    BY <1>1 DEF BridgeTypeOK, RunState
  <2> QED
    BY <1>2, <2>1 DEF PlaceInv
<1>4. TruthInv
  BY <1>1, <1>2, <1>3 DEF TruthInv, TerminalIsTrue, Terminal
<1>5. ApprovalInv
  BY <1>2, <1>3 DEF ApprovalInv, Past
<1>6. KeyInv
  BY <1>1, <1>2, <1>3 DEF KeyInv, Unrecorded, Holding
<1> QED
  BY <1>4, <1>5, <1>6

\* The invariants of the prompt tools hold in every state.
LEMMA BridgeInvariant == BridgeSpec => [](TruthInv /\ ApprovalInv /\ KeyInv)
BY BridgeStarts, TruthKept, ApprovalKept, KeyKept, PTL DEF BridgeSpec

\* resolve_required_prompt_approval and the key lock: one approval lets one run
\* through, however its request is repeated, raced, cancelled or cut off.
THEOREM ApprovedOnce == BridgeSpec => []OneRunPerApproval
<1>1. ApprovalInv => OneRunPerApproval
  BY DEF ApprovalInv, OneRunPerApproval, Needs, Past, Follows, PlaceInv, BeforeRun
<1> QED
  BY <1>1, BridgeInvariant, PTL

\* An answer that calls a run over, from Hermes or from the registry, is about a run
\* that is over in that way.
THEOREM EndsTrue == BridgeSpec => []TerminalIsTrue
<1>1. TruthInv => TerminalIsTrue
  BY DEF TruthInv
<1> QED
  BY <1>1, BridgeInvariant, PTL

\* RunRegistry.record: the row of a key is never replaced.
THEOREM RowsKept == BridgeSpec => MappingKept
<1>1. TruthInv /\ [BridgeNext]_bridgeVars =>
        [\A k \in Key : mapping[k] # NoMapping => mapping'[k] = mapping[k]]_bridgeVars
  BY RowStays DEF TruthInv, PlaceInv
<1> QED
  BY <1>1, BridgeInvariant, PTL DEF BridgeSpec, MappingKept

\* hermes_submit and hermes_prompt beside the waits of one process: the state has
\* its types, the breaker's counters keep their thresholds, and callers of one
\* client_request_id and fingerprint are told of one run.
THEOREM AnswersRight == ProcessSpec => []AnswersHold
<1>1. Init => KeyInv /\ WaitInv
  BY BridgeStarts, WaitStarts DEF Init
<1>2. [Next]_<<lane, bridgeVars, waitVars, drainVars, trackVars>> =>
        [BridgeNext]_bridgeVars /\ [WaitNext]_waitVars
  BY DEF Next, PromptLane, WaitLane, DrainLane, TrackerLane
<1>3. KeyInv /\ WaitInv => AnswersHold
  <2>1. KeyInv => AnswersAgree
    <3> SUFFICES ASSUME KeyInv, NEW c \in Call, NEW d \in Call, Keyed(c), KeyOf[c] = KeyOf[d],
                        answer[c].run # NoRun, ~answer[c].warned,
                        answer[d].run # NoRun, ~answer[d].warned,
                        \A o \in orphaned : KeyOf[o] # KeyOf[c]
                 PROVE  answer[c].run = answer[d].run
      BY DEF AnswersAgree
    <3>1. Keyed(d) /\ Attended(KeyOf[c])
      BY DEF Keyed, Attended
    <3> QED
      BY <3>1 DEF KeyInv
  <2> QED
    BY <2>1 DEF AnswersHold, KeyInv, PlaceInv, WaitInv
<1> QED
  BY <1>1, <1>2, <1>3, KeyKept, WaitKept, PTL DEF ProcessSpec
=============================================================================
