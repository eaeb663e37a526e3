------------------------------ MODULE MCBridge ------------------------------
(***************************************************************************)
(* The bridge's own process: prompts and their runs, waits for a run, the  *)
(* run tracker and the drain at shutdown, each in a lane of its own.       *)
(***************************************************************************)
EXTENDS PromptBridge, RunWait, Drain, RunTracker, TLC

CONSTANTS p1, p2, s1, s2, n1, n2, x, k1, f1, f2, d1, d2, t1, t2, t3, tk1, tk2

VARIABLE lane

MCCall == {p1, p2, s1, s2, n1, n2, x}
MCKeyOf == [c \in MCCall |-> IF c \in {n1, n2} THEN NoKey ELSE k1]
MCFingerprintOf == [c \in MCCall |-> IF c = s2 THEN f2 ELSE f1]
MCDigestOf == [c \in MCCall |-> IF c \in {p1, p2} THEN d1 ELSE d2]
MCDecisionOf == [c \in MCCall |->
    IF c \in {p1, p2, n2} THEN "REQUIRE_APPROVAL" ELSE IF c = x THEN "DENY" ELSE "ALLOW"]
MCTogether == {{p1, p2, s1}, {s1, s2, x}, {n1, n2}}
MCTaskKeyOf == (t1 :> tk1) @@ (t2 :> tk1) @@ (t3 :> tk2)

Init ==
    /\ lane \in {"prompt", "wait", "drain", "tracker"}
    /\ BridgeInit /\ WaitInit /\ DrainInit /\ TrackerInit
    /\ (lane # "prompt" => \A c \in Call : pc[c] = "new" <=> c \in {n1, n2})

PromptLane == BridgeNext /\ UNCHANGED <<waitVars, drainVars, trackVars>>
WaitLane == WaitNext /\ UNCHANGED <<bridgeVars, drainVars, trackVars>>
DrainLane == DrainNext /\ UNCHANGED <<bridgeVars, waitVars, trackVars>>
TrackerLane == TrackerNext /\ UNCHANGED <<bridgeVars, waitVars, drainVars>>

Next ==
    /\ UNCHANGED lane
    /\ \/ lane = "prompt" /\ PromptLane
       \/ lane = "wait" /\ WaitLane
       \/ lane = "drain" /\ DrainLane
       \/ lane = "tracker" /\ TrackerLane

\* The fairness of FairBridgeSpec and FairWaitSpec, each in its lane.
ProcessSpec ==
    /\ Init /\ [][Next]_<<lane, bridgeVars, waitVars, drainVars, trackVars>>
    /\ \A c \in Call : WF_bridgeVars(lane = "prompt" /\ HandlerStep(c))
    /\ \A w \in Waiter : /\ WF_waitVars(lane = "wait" /\ WaiterStep(w))
                          /\ WF_waitVars(lane = "wait" /\ Deadline(w))

\* hermes_submit and hermes_prompt: the state has its types, and the answers
\* that callers of one client_request_id get are about one run.
AnswersHold == BridgeTypeOK /\ WaitTypeOK /\ AnswersAgree

\* Every call of hermes_submit and hermes_prompt returns, and so does every wait
\* for a run, whatever is cancelled, refused by the breaker or restarted.
EveryoneReturns == CallsEnd /\ WaitsEnd
=============================================================================
