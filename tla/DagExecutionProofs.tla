------------------------- MODULE DagExecutionProofs -------------------------
(***************************************************************************)
(* Fencing in DagExecution, for every plan and any number of engines: the  *)
(* type invariant, the uniqueness of fence tokens, and that the stored     *)
(* node states are changed by the newest engine only.                      *)
(***************************************************************************)
EXTENDS DagExecution, TLAPS

\* The phases of an engine that may save.
Saver == {"reconcile", "wave", "rollback", "done", "raised"}

\* An engine that may save has been given a fence token.
SaversFenced == \A e \in Engine : eng[e].phase \in Saver => fence[e] # 0

\* Before the first checkpoint there is nothing to overwrite.
NothingStored == ckpt.fence = 0 => ckpt.nodes = FreshNodes

FenceInv == DagTypeOK /\ FencesDistinct /\ SaversFenced /\ NothingStored

\* Engine e goes on as st, and everything else stays well-typed.
GoesOn(e, st) ==
    /\ e \in Engine /\ st \in EngineState
    /\ st.phase \in Saver => fence[e] # 0
    /\ eng' = [eng EXCEPT ![e] = st]
    /\ fence' = fence
    /\ approval' \in Engine \cup {NoEngine}
    /\ call' \in [Engine -> [Node -> CallState]]

\* A step of an engine that does not write the checkpoint.
Quiet(e, st) == GoesOn(e, st) /\ ckpt' = ckpt

\* A step in which an engine saves node states it has, or had, in memory.
Saving(e, st) ==
    /\ GoesOn(e, st) /\ fence[e] # 0
    /\ fence[e] >= ckpt.fence
    /\ \E w \in {eng[e].local, st.local} : ckpt' = [fence |-> fence[e], nodes |-> w]

-----------------------------------------------------------------------------
(* Types of the helpers                                                    *)

\* Replacing a node's state and task keeps an engine's state well-typed.
LEMMA PutType ==
    ASSUME NEW st \in EngineState, NEW n \in Node, NEW s \in NodeState, NEW t \in Task
    PROVE  /\ Put(st, n, s, t) \in EngineState
           /\ Put(st, n, s, t).phase = st.phase
BY DEF Put, EngineState

\* The same for a change of status alone.
LEMMA MovedType ==
    ASSUME DagTypeOK, NEW e \in Engine, NEW n \in Node,
           NEW s \in NodeStatus, NEW t \in Task
    PROVE  /\ Moved(e, n, s, t) \in EngineState
           /\ Moved(e, n, s, t).phase = eng[e].phase
<1>1. PICK st \in EngineState : st = eng[e]
  BY DEF DagTypeOK
<1>2. PICK ns \in NodeState : ns = [st.local[n] EXCEPT !.status = s]
  BY <1>1 DEF EngineState, NodeState
<1>3. Moved(e, n, s, t) = Put(st, n, ns, t)
  BY <1>1, <1>2 DEF Moved
<1> QED
  BY <1>1, <1>3, PutType

\* A raised engine differs in its phase only.
LEMMA RaisedType ==
    ASSUME NEW st \in EngineState
    PROVE  Raised(st) \in EngineState /\ Raised(st).phase = "raised"
BY DEF Raised, EngineState, Phase

\* Skipping keeps node states well-typed.
LEMMA PropagateType ==
    ASSUME NEW nodes \in [Node -> NodeState]
    PROVE  Propagate(nodes) \in [Node -> NodeState] /\ SkipPending(nodes) \in [Node -> NodeState]
BY DEF Propagate, SkipPending, Skip, NodeState, NodeStatus

-----------------------------------------------------------------------------
(* Steps                                                                   *)

\* A save is taken or refused, and in both cases the engine goes on.
LEMMA SaveStep ==
    ASSUME DagTypeOK, NEW e \in Engine, fence[e] # 0,
           NEW st \in EngineState, NEW refused \in EngineState,
           SaveAs(e, st, refused),
           fence' = fence, approval' = approval,
           call' \in [Engine -> [Node -> CallState]]
    PROVE  Quiet(e, refused) \/ Saving(e, st)
BY DEF SaveAs, Become, Quiet, Saving, GoesOn, DagTypeOK

\* What FenceInv is needed for: a quiet step preserves it.
LEMMA QuietStep ==
    ASSUME FenceInv, NEW e, NEW st, Quiet(e, st)
    PROVE  FenceInv' /\ ckpt'.nodes = ckpt.nodes
<1>1. e \in Engine /\ eng \in [Engine -> EngineState]
  BY DEF FenceInv, DagTypeOK, Quiet, GoesOn
<1>2. DagTypeOK'
  BY <1>1 DEF FenceInv, DagTypeOK, Quiet, GoesOn
<1>3. FencesDistinct' /\ NothingStored' /\ ckpt'.nodes = ckpt.nodes
  BY DEF FenceInv, FencesDistinct, NothingStored, Quiet, GoesOn
<1>4. SaversFenced'
  BY <1>1 DEF FenceInv, SaversFenced, Quiet, GoesOn
<1> QED
  BY <1>2, <1>3, <1>4 DEF FenceInv

\* An engine that saves holds the newest fence token.
LEMMA SavingStep ==
    ASSUME FenceInv, NEW e, NEW st, Saving(e, st)
    PROVE  /\ FenceInv'
           /\ e \in Engine /\ fence'[e] = ckpt'.fence
           /\ \A f \in Engine \ {e} : fence'[f] < fence'[e]
           /\ ckpt'.nodes \in {eng[e].local, eng'[e].local}
<1>1. /\ e \in Engine /\ eng \in [Engine -> EngineState]
      /\ fence \in [Engine -> Nat] /\ ckpt.fence \in Nat
  BY DEF FenceInv, DagTypeOK, Saving, GoesOn
<1>2. fence[e] = ckpt.fence /\ fence[e] # 0
  BY <1>1 DEF FenceInv, FencesDistinct, Saving
<1>3. PICK w \in {eng[e].local, st.local} : ckpt' = [fence |-> fence[e], nodes |-> w]
  BY DEF Saving
<1>4. w \in [Node -> NodeState]
  BY <1>1, <1>3 DEF EngineState, Saving, GoesOn
<1>5. DagTypeOK'
  BY <1>1, <1>3, <1>4 DEF FenceInv, DagTypeOK, Saving, GoesOn
<1>6. FencesDistinct' /\ NothingStored'
  BY <1>1, <1>2, <1>3 DEF FenceInv, FencesDistinct, NothingStored, Saving, GoesOn
<1>7. SaversFenced'
  BY <1>1 DEF FenceInv, SaversFenced, Saving, GoesOn
<1>8. ASSUME NEW f \in Engine \ {e} PROVE fence'[f] < fence'[e]
  <2>1. fence[f] <= ckpt.fence /\ fence[f] # fence[e]
    BY <1>1, <1>2 DEF FenceInv, FencesDistinct
  <2>2. fence' = fence /\ fence[f] \in Nat
    BY <1>1 DEF Saving, GoesOn
  <2> QED
    BY <1>1, <1>2, <2>1, <2>2
<1>9. ckpt'.nodes \in {eng[e].local, eng'[e].local}
  BY <1>1, <1>3 DEF Saving, GoesOn
<1> QED
  BY <1>1, <1>3, <1>5, <1>6, <1>7, <1>8, <1>9 DEF FenceInv, Saving, GoesOn

-----------------------------------------------------------------------------
(* Every step of an engine is quiet or saves                               *)

Covered(e) == \E st \in EngineState : Quiet(e, st) \/ Saving(e, st)

\* A step that only changes the engine is quiet.
LEMMA BecomeStep ==
    ASSUME DagTypeOK, NEW e \in Engine, NEW st \in EngineState,
           st.phase \in Saver => fence[e] # 0,
           Become(e, st), ckpt' = ckpt, fence' = fence,
           approval' \in Engine \cup {NoEngine},
           call' \in [Engine -> [Node -> CallState]]
    PROVE  Covered(e)
BY DEF Become, Covered, Quiet, GoesOn

\* A save covers its step whether it is taken or refused.
LEMMA SaveCovers ==
    ASSUME DagTypeOK, NEW e \in Engine, fence[e] # 0,
           NEW st \in EngineState, NEW refused \in EngineState,
           SaveAs(e, st, refused),
           fence' = fence, approval' = approval,
           call' \in [Engine -> [Node -> CallState]]
    PROVE  Covered(e)
BY SaveStep DEF Covered

\* The calls stay well-typed when one of them gets another state.
LEMMA CallType ==
    ASSUME DagTypeOK, NEW e \in Engine, NEW n \in Node, NEW c \in CallState
    PROVE  [call EXCEPT ![e][n] = c] \in [Engine -> [Node -> CallState]]
BY DEF DagTypeOK

\* The steps of a node's task up to the call of the executor.
LEMMA ExecuteStep ==
    ASSUME FenceInv, NEW e \in Engine, NEW n \in Node, NEW q \in SUBSET Node,
           eng[e].phase \in Saver, Execute(e, n, q), fence' = fence, approval' = approval
    PROVE  Covered(e)
<1> DEFINE st(status, t) == [Moved(e, n, status, t) EXCEPT !.queue = q]
           counted == [Moved(e, n, IF n \in Mutating THEN "DISPATCHED" ELSE "PENDING", "calling")
                           EXCEPT !.queue = q, !.calls = @ + 1]
<1>1. DagTypeOK /\ fence[e] # 0
  BY DEF FenceInv, SaversFenced
<1>2. approval' \in Engine \cup {NoEngine} /\ call \in [Engine -> [Node -> CallState]]
  BY <1>1 DEF DagTypeOK
<1>3. ASSUME NEW status \in NodeStatus, NEW t \in Task PROVE st(status, t) \in EngineState
  <2>1. PICK s \in EngineState : s = Moved(e, n, status, t)
    BY <1>1, MovedType
  <2>2. [s EXCEPT !.queue = q] \in EngineState
    BY DEF EngineState
  <2> QED
    BY <2>1, <2>2
<1>4. counted \in EngineState
  <2>1. (IF n \in Mutating THEN "DISPATCHED" ELSE "PENDING") \in NodeStatus /\ "calling" \in Task
    BY DEF NodeStatus, Task
  <2>2. PICK s \in EngineState :
           s = Moved(e, n, IF n \in Mutating THEN "DISPATCHED" ELSE "PENDING", "calling")
    BY <1>1, <2>1, MovedType
  <2>3. PICK r \in EngineState : r = [s EXCEPT !.queue = q]
    BY DEF EngineState
  <2>4. [r EXCEPT !.calls = r.calls + 1] \in EngineState
    BY DEF EngineState
  <2>5. counted = [r EXCEPT !.calls = r.calls + 1]
    BY <2>2, <2>3 DEF EngineState
  <2> QED
    BY <2>4, <2>5
<1>5. ASSUME NEW status \in {"FAILED", "DENIED", "SKIPPED"},
             Become(e, st(status, "none")), UNCHANGED <<ckpt, call>>
      PROVE  Covered(e)
  <2>1. PICK s \in EngineState : s = st(status, "none")
    BY <1>3, <1>5 DEF NodeStatus, Task
  <2> QED
    BY <1>1, <1>2, <1>5, <2>1, BecomeStep
<1>6. ASSUME n \in Transform,
             Become(e, [Put(eng[e], n, [eng[e].local[n] EXCEPT !.status = "SUCCESS",
                                             !.result = TRUE], "none") EXCEPT !.queue = q]),
             UNCHANGED <<ckpt, call>>
      PROVE  Covered(e)
  <2>1. PICK s \in EngineState : s = eng[e]
    BY <1>1 DEF DagTypeOK
  <2>2. PICK ns \in NodeState : ns = [eng[e].local[n] EXCEPT !.status = "SUCCESS", !.result = TRUE]
    <3>1. PICK x \in NodeState : x = eng[e].local[n]
      BY <2>1 DEF EngineState
    <3>2. [x EXCEPT !.status = "SUCCESS", !.result = TRUE] \in NodeState
      BY DEF NodeState, NodeStatus
    <3> QED  BY <3>1, <3>2
  <2>3. PICK p \in EngineState : p = Put(eng[e], n, ns, "none")
    BY <2>1, PutType DEF Task
  <2>4. PICK r \in EngineState : r = [p EXCEPT !.queue = q]
    BY <2>3 DEF EngineState
  <2>5. Become(e, r)
    BY <1>6, <2>2, <2>3, <2>4
  <2> QED
    BY <1>1, <1>2, <1>6, <2>4, <2>5, BecomeStep
<1>7. ASSUME Become(e, counted), UNCHANGED <<ckpt, call>> PROVE Covered(e)
  <2>1. PICK s \in EngineState : s = counted
    BY <1>4
  <2> QED
    BY <1>1, <1>2, <1>7, <2>1, BecomeStep
<1>8. ASSUME SaveAs(e, counted, Raised(st("DISPATCHED", "none"))),
             call' = IF fence[e] < ckpt.fence THEN call ELSE [call EXCEPT ![e][n] = "sent"]
      PROVE  Covered(e)
  <2>1. PICK s \in EngineState : s = counted
    BY <1>4
  <2>2. st("DISPATCHED", "none") \in EngineState
    BY <1>3 DEF NodeStatus, Task
  <2>3. PICK r \in EngineState : r = Raised(st("DISPATCHED", "none"))
    BY <2>2, RaisedType
  <2>4. [call EXCEPT ![e][n] = "sent"] \in [Engine -> [Node -> CallState]]
    BY <1>1, CallType DEF CallState
  <2>5. call' \in [Engine -> [Node -> CallState]]
    BY <1>2, <1>8, <2>4
  <2> QED
    BY <1>1, <1>8, <2>1, <2>3, <2>5, SaveCovers
<1> HIDE DEF st, counted
<1> QED
  BY <1>5, <1>6, <1>7, <1>8 DEF Execute, st, counted

\* The actions of the wave loop, of the tasks and of the rollback.
LEMMA CoveredSteps ==
    ASSUME FenceInv, NEW e \in Engine,
           \/ CheckApproval(e) \/ ResumeRun(e) \/ NextWave(e) \/ Report(e) \/ Crash(e)
           \/ \E n \in Node : \/ Reconcile(e, n) \/ StartTask(e, n) \/ TakeLock(e, n)
                              \/ Succeed(e, n) \/ Fail(e, n) \/ LoseTrack(e, n) \/ Break(e, n)
                              \/ StartUndo(e, n) \/ FinishUndo(e, n)
    PROVE  Covered(e)
<1>1. DagTypeOK /\ (eng[e].phase \in Saver => fence[e] # 0)
  BY DEF FenceInv, SaversFenced
<1>2. /\ approval \in Engine \cup {NoEngine} /\ call \in [Engine -> [Node -> CallState]]
      /\ ckpt.nodes \in [Node -> NodeState]
  BY <1>1 DEF DagTypeOK
<1>3. PICK st \in EngineState : st = eng[e]
  BY <1>1 DEF DagTypeOK
<1>4. ASSUME NEW n \in Node, NEW status \in NodeStatus
      PROVE  /\ Moved(e, n, status, "none") \in EngineState
             /\ Moved(e, n, status, "none").phase = st.phase
  BY <1>1, <1>3, MovedType DEF Task
<1>5. ASSUME NEW n \in Node, NEW status \in NodeStatus
      PROVE  Raised(Moved(e, n, status, "none")) \in EngineState
  BY <1>4, RaisedType
<1>6. CASE CheckApproval(e)
  <2>0. /\ ckpt' = ckpt /\ fence' = fence /\ call' \in [Engine -> [Node -> CallState]]
        /\ approval' \in Engine \cup {NoEngine}
    BY <1>2, <1>6 DEF CheckApproval
  <2>1. CASE approval' = e /\ Become(e, [st EXCEPT !.phase = "admitting"])
    <3>1. PICK s \in EngineState : s = [st EXCEPT !.phase = "admitting"]
      BY DEF EngineState, Phase
    <3>2. Become(e, s) /\ (s.phase \in Saver => fence[e] # 0)
      BY <2>1, <3>1 DEF EngineState, Saver
    <3> QED
      BY <1>1, <2>0, <3>2, BecomeStep
  <2>2. CASE approval' = approval /\ Become(e, [st EXCEPT !.phase = "refused"])
    <3>1. PICK s \in EngineState : s = [st EXCEPT !.phase = "refused"]
      BY DEF EngineState, Phase
    <3>2. Become(e, s) /\ (s.phase \in Saver => fence[e] # 0)
      BY <2>2, <3>1 DEF EngineState, Saver
    <3> QED
      BY <1>1, <2>0, <3>2, BecomeStep
  <2> QED
    BY <1>3, <1>6, <2>1, <2>2 DEF CheckApproval
<1>7. CASE ResumeRun(e)
  <2>1. PICK denied \in SUBSET Deniable :
        LET reopened == [n \in Node |-> IF eng[e].local[n].status = "SKIPPED"
                            THEN [eng[e].local[n] EXCEPT !.status = "PENDING"]
                            ELSE eng[e].local[n]]
            checked == [n \in Node |-> IF n \in denied /\ reopened[n].status = "PENDING"
                            THEN [reopened[n] EXCEPT !.status = "DENIED"]
                            ELSE reopened[n]]
        IN  SaveAs(e, [eng[e] EXCEPT !.phase = "wave", !.local = checked], Raised(eng[e]))
    BY <1>7 DEF ResumeRun
  <2> DEFINE reopened == [n \in Node |-> IF st.local[n].status = "SKIPPED"
                            THEN [st.local[n] EXCEPT !.status = "PENDING"]
                            ELSE st.local[n]]
             checked == [n \in Node |-> IF n \in denied /\ reopened[n].status = "PENDING"
                            THEN [reopened[n] EXCEPT !.status = "DENIED"]
                            ELSE reopened[n]]
  <2>2. SaveAs(e, [st EXCEPT !.phase = "wave", !.local = checked], Raised(st))
    BY <1>3, <2>1
  <2>3. PICK ro \in [Node -> NodeState] : ro = reopened
    BY DEF EngineState, NodeState, NodeStatus
  <2>4. PICK ch \in [Node -> NodeState] : ch = checked
    <3> HIDE DEF reopened
    <3> QED
      BY <2>3 DEF NodeState, NodeStatus
  <2> HIDE DEF reopened, checked
  <2>5. PICK s \in EngineState : s = [st EXCEPT !.phase = "wave", !.local = ch]
    BY DEF EngineState, Phase
  <2>6. PICK r \in EngineState : r = Raised(st)
    BY RaisedType
  <2>7. /\ fence[e] # 0 /\ fence' = fence /\ approval' = approval
        /\ call' \in [Engine -> [Node -> CallState]]
    BY <1>1, <1>2, <1>7 DEF ResumeRun, Saver
  <2> QED
    BY <1>1, <2>2, <2>4, <2>5, <2>6, <2>7, SaveCovers
<1>8. CASE Report(e)
  <2>1. PICK s \in EngineState : s = [st EXCEPT !.phase = "done"]
    BY DEF EngineState, Phase
  <2>2. PICK r \in EngineState : r = Raised(st)
    BY RaisedType
  <2>3. /\ fence[e] # 0 /\ fence' = fence /\ approval' = approval
        /\ call' \in [Engine -> [Node -> CallState]]
        /\ SaveAs(e, s, r)
    BY <1>1, <1>2, <1>3, <1>8, <2>1, <2>2 DEF Report, Saver
  <2> QED
    BY <1>1, <2>3, SaveCovers
<1>9. CASE Crash(e)
  <2>1. PICK s \in EngineState : s = [IdleEngine EXCEPT !.phase = "dead"]
    BY DEF IdleEngine, EngineState, Phase, Task, FreshNodes, FreshNode, NodeState, NodeStatus
  <2>2. /\ ckpt' = ckpt /\ fence' = fence /\ call' \in [Engine -> [Node -> CallState]]
        /\ approval' \in Engine \cup {NoEngine} /\ Become(e, s)
        /\ (s.phase \in Saver => fence[e] # 0)
    BY <1>2, <1>9, <2>1 DEF Crash, IdleEngine, Saver
  <2> QED
    BY <1>1, <2>2, BecomeStep
<1>10. CASE NextWave(e)
  <2> DEFINE stop == st.aborted /\ FailFast
             nodes == Propagate(IF stop THEN SkipPending(st.local) ELSE st.local)
             batch == {n \in Node : Ready(nodes, n) /\ ~stop}
  <2>1. PICK local \in [Node -> NodeState] : local = st.local
    BY DEF EngineState
  <2>2. (IF stop THEN SkipPending(local) ELSE local) \in [Node -> NodeState]
    BY PropagateType
  <2>3. PICK w \in [Node -> NodeState] : w = nodes
    BY <2>1, <2>2, PropagateType
  <2>4. PICK b \in SUBSET Node : b = batch
    OBVIOUS
  <2>5. PICK r \in EngineState : r = Raised(st) /\ r.phase = "raised"
    BY RaisedType
  <2>6. /\ fence[e] # 0 /\ fence' = fence /\ approval' = approval
        /\ call' \in [Engine -> [Node -> CallState]]
        /\ approval' \in Engine \cup {NoEngine}
    BY <1>1, <1>2, <1>10 DEF NextWave, Saver
  <2>7. CASE ckpt' = ckpt /\ Become(e, r)
    BY <1>1, <2>6, <2>7, BecomeStep
  <2>8. CASE /\ ~ (fence[e] < ckpt.fence)
             /\ ckpt' = [fence |-> fence[e], nodes |-> st.local]
             /\ Become(e, [st EXCEPT !.local = w, !.queue = b])
    <3>1. PICK s \in EngineState : s = [st EXCEPT !.local = w, !.queue = b]
      BY DEF EngineState
    <3>2. GoesOn(e, s)
      BY <1>1, <2>6, <2>8, <3>1 DEF GoesOn, Become
    <3>3. fence[e] >= ckpt.fence
      BY <1>1, <2>8 DEF DagTypeOK
    <3> QED
      BY <1>3, <2>6, <2>8, <3>2, <3>3 DEF Saving, Covered
  <2>9. CASE SaveAs(e, [st EXCEPT !.local = w, !.phase = "rollback"], r)
    <3>1. PICK s \in EngineState : s = [st EXCEPT !.local = w, !.phase = "rollback"]
      BY DEF EngineState, Phase
    <3> QED
      BY <1>1, <2>6, <2>9, <3>1, SaveCovers
  <2>10. IF b # {}
         THEN IF fence[e] < ckpt.fence
              THEN UNCHANGED ckpt /\ Become(e, Raised(st))
              ELSE /\ ckpt' = [fence |-> fence[e], nodes |-> st.local]
                   /\ Become(e, [st EXCEPT !.local = w, !.queue = b])
         ELSE SaveAs(e, [st EXCEPT !.local = w, !.phase = "rollback"], Raised(st))
    BY <1>3, <1>10, <2>3, <2>4 DEF NextWave
  <2> HIDE DEF stop, nodes, batch
  <2> QED
    BY <2>5, <2>7, <2>8, <2>9, <2>10
<1>11. ASSUME NEW n \in Node,
              \/ Reconcile(e, n) \/ StartTask(e, n) \/ TakeLock(e, n)
              \/ Succeed(e, n) \/ Fail(e, n) \/ LoseTrack(e, n) \/ Break(e, n)
              \/ StartUndo(e, n) \/ FinishUndo(e, n)
       PROVE  Covered(e)
  <2>1. ASSUME \/ Reconcile(e, n) \/ Succeed(e, n) \/ Fail(e, n) \/ Break(e, n)
        PROVE  /\ ckpt' = ckpt /\ fence' = fence /\ approval' \in Engine \cup {NoEngine}
               /\ fence[e] # 0
    BY <1>1, <1>2, <2>1 DEF Reconcile, Succeed, Fail, Break, Running, Saver
  <2>2. ASSUME StartTask(e, n) \/ TakeLock(e, n) \/ LoseTrack(e, n) \/ StartUndo(e, n)
               \/ FinishUndo(e, n)
        PROVE  fence' = fence /\ approval' = approval /\ fence[e] # 0
    BY <1>1, <2>2 DEF StartTask, TakeLock, LoseTrack, StartUndo, FinishUndo, Running, Saver
  <2>3. ASSUME NEW ns \in NodeState, Become(e, Put(eng[e], n, ns, "none")), call' = call,
               Reconcile(e, n) \/ Succeed(e, n) \/ Break(e, n)
        PROVE  Covered(e)
    <3>1. PICK s \in EngineState : s = Put(st, n, ns, "none")
      BY PutType DEF Task
    <3>2. Become(e, s) /\ call' \in [Engine -> [Node -> CallState]]
      BY <1>2, <1>3, <2>3, <3>1
    <3> QED
      BY <1>1, <2>1, <2>3, <3>2, BecomeStep
  <2>4. CASE Reconcile(e, n)
    <3>1. ASSUME NEW status \in NodeStatus
          PROVE  [eng[e].local[n] EXCEPT !.status = status] \in NodeState
      BY <1>3 DEF EngineState, NodeState
    <3>2. PICK ns \in NodeState :
             ns = [eng[e].local[n] EXCEPT !.status = "SUCCESS", !.effect = TRUE]
      BY <1>3 DEF EngineState, NodeState, NodeStatus
    <3>3. PICK ni \in NodeState : ni = [eng[e].local[n] EXCEPT !.status = "INDETERMINATE"]
      BY <3>1 DEF NodeStatus
    <3>4. PICK np \in NodeState : np = [eng[e].local[n] EXCEPT !.status = "PENDING"]
      BY <3>1 DEF NodeStatus
    <3>5. /\ call' = call
          /\ \/ Become(e, Put(eng[e], n, ns, "none"))
             \/ Become(e, Put(eng[e], n, ni, "none"))
             \/ Become(e, Put(eng[e], n, np, "none"))
      BY <2>4, <3>2, <3>3, <3>4 DEF Reconcile, Moved
    <3> QED
      BY <2>3, <2>4, <3>5
  <2>5. CASE Succeed(e, n)
    <3>1. PICK ref \in BOOLEAN :
             Become(e, Put(eng[e], n,
                 [status |-> "SUCCESS", result |-> TRUE, effect |-> ref], "none"))
      BY <2>5 DEF Succeed
    <3>2. [status |-> "SUCCESS", result |-> TRUE, effect |-> ref] \in NodeState
      BY DEF NodeState, NodeStatus
    <3>3. call' = call
      BY <2>5 DEF Succeed
    <3> QED
      BY <2>3, <2>5, <3>1, <3>2, <3>3
  <2>6. CASE Fail(e, n)
    <3>1. PICK m \in EngineState : m = Moved(e, n, "FAILED", "none")
      BY <1>4 DEF NodeStatus
    <3>2. PICK b \in BOOLEAN :
             b = (\/ m.aborted
                  \/ FailFast /\ OnFailure[n] # "isolate_branch"
                  \/ OnFailure[n] = "abort_plan")
      OBVIOUS
    <3>3. PICK s \in EngineState : s = [m EXCEPT !.aborted = b]
      BY DEF EngineState
    <3>4. Become(e, s)
      BY <2>6, <3>1, <3>2, <3>3 DEF Fail
    <3>5. [call EXCEPT ![e][n] = "lost"] \in [Engine -> [Node -> CallState]]
      BY <1>1, CallType DEF CallState
    <3>6. call' \in [Engine -> [Node -> CallState]]
      BY <1>2, <2>6, <3>5 DEF Fail
    <3> QED
      BY <1>1, <2>1, <2>6, <3>4, <3>6, BecomeStep
  <2>7. CASE Break(e, n)
    <3>1. eng[e].local[n] \in NodeState
      BY <1>3 DEF EngineState
    <3>2. PICK p \in EngineState : p = Put(st, n, st.local[n], "none")
      BY <1>3, <3>1, PutType DEF Task
    <3>3. PICK r \in EngineState : r = Raised(p)
      BY RaisedType
    <3>4. Become(e, r) /\ call' \in [Engine -> [Node -> CallState]]
      BY <1>2, <1>3, <2>7, <3>2, <3>3 DEF Break
    <3> QED
      BY <1>1, <2>1, <2>7, <3>4, BecomeStep
  <2>8. CASE StartTask(e, n)
    <3>1. PICK rest \in SUBSET Node : rest = eng[e].queue \ {n}
      BY <1>3 DEF EngineState
    <3>2. CASE /\ Become(e, [Put(eng[e], n, eng[e].local[n], "waiting") EXCEPT !.queue = rest])
               /\ UNCHANGED <<ckpt, call>>
      <4>1. eng[e].local[n] \in NodeState
        BY <1>3 DEF EngineState
      <4>2. PICK p \in EngineState : p = Put(st, n, st.local[n], "waiting")
        BY <1>3, <4>1, PutType DEF Task
      <4>3. PICK s \in EngineState : s = [p EXCEPT !.queue = rest]
        BY DEF EngineState
      <4>4. /\ Become(e, s) /\ call' \in [Engine -> [Node -> CallState]]
            /\ approval' \in Engine \cup {NoEngine} /\ ckpt' = ckpt
        BY <1>2, <1>3, <2>2, <2>8, <3>2, <4>2, <4>3
      <4> QED
        BY <1>1, <2>2, <2>8, <4>4, BecomeStep
    <3>3. CASE Execute(e, n, rest)
      BY <2>2, <2>8, <3>3, ExecuteStep DEF StartTask, Running, Saver
    <3> QED
      BY <2>8, <3>1, <3>2, <3>3 DEF StartTask
  <2>9. CASE TakeLock(e, n)
    <3>1. PICK q \in SUBSET Node : q = eng[e].queue
      BY <1>3 DEF EngineState
    <3>2. Execute(e, n, q) /\ eng[e].phase \in Saver
      BY <2>9, <3>1 DEF TakeLock, Running, Saver
    <3> QED
      BY <2>2, <2>9, <3>2, ExecuteStep
  <2>10. ASSUME NEW s1 \in NodeStatus, NEW s2 \in NodeStatus, NEW t \in Task,
                SaveAs(e, Moved(e, n, s1, t), Raised(Moved(e, n, s2, "none"))),
                call' \in [Engine -> [Node -> CallState]],
                LoseTrack(e, n) \/ StartUndo(e, n) \/ FinishUndo(e, n)
         PROVE  Covered(e)
    <3>1. PICK s \in EngineState : s = Moved(e, n, s1, t)
      BY <1>1, MovedType
    <3>2. PICK r \in EngineState : r = Raised(Moved(e, n, s2, "none"))
      BY <1>5
    <3> QED
      BY <1>1, <2>2, <2>10, <3>1, <3>2, SaveCovers
  <2>11. CASE LoseTrack(e, n)
    <3>1. PICK s \in NodeStatus :
             SaveAs(e, Moved(e, n, s, "none"), Raised(Moved(e, n, "INDETERMINATE", "none")))
      BY <2>11 DEF LoseTrack, NodeStatus
    <3>2. call' = call
      BY <2>11 DEF LoseTrack
    <3> QED
      BY <1>2, <2>10, <2>11, <3>1, <3>2 DEF NodeStatus, Task
  <2>12. CASE StartUndo(e, n)
    <3>1. PICK s \in NodeStatus, t \in Task :
             SaveAs(e, Moved(e, n, s, t), Raised(Moved(e, n, "COMPENSATION_PENDING", "none")))
      BY <2>12 DEF StartUndo, NodeStatus, Task
    <3>2. call' = call
      BY <2>12 DEF StartUndo
    <3> QED
      BY <1>2, <2>10, <2>12, <3>1, <3>2 DEF NodeStatus
  <2>13. CASE FinishUndo(e, n)
    <3>1. PICK outcome \in UndoOutcome, undone \in BOOLEAN :
             /\ call' = [f \in Engine |-> [m \in Node |->
                   IF undone /\ m = n /\ call[f][m] = "committed" THEN "undone" ELSE call[f][m]]]
             /\ SaveAs(e, Moved(e, n, outcome, "none"), Raised(Moved(e, n, outcome, "none")))
      BY <2>13 DEF FinishUndo
    <3>2. call' \in [Engine -> [Node -> CallState]]
      BY <1>2, <3>1 DEF CallState
    <3>3. outcome \in NodeStatus
      BY DEF UndoOutcome, NodeStatus
    <3> QED
      BY <2>10, <2>13, <3>1, <3>2, <3>3 DEF Task
  <2> QED
    BY <1>11, <2>4, <2>5, <2>6, <2>7, <2>8, <2>9, <2>11, <2>12, <2>13
<1> QED
  BY <1>6, <1>7, <1>8, <1>9, <1>10, <1>11

-----------------------------------------------------------------------------
(* The theorems                                                            *)

\* The first checkpoint: nobody has a fence token, and token 1 is handed out.
LEMMA CreateStep ==
    ASSUME FenceInv, NEW e \in Engine, Create(e)
    PROVE  FenceInv' /\ ckpt'.nodes = ckpt.nodes
<1>1. DagTypeOK /\ ckpt.fence = 0 /\ ckpt.nodes = FreshNodes
  BY DEF FenceInv, NothingStored, Create
<1>2. \A f \in Engine : fence[f] = 0
  BY <1>1 DEF FenceInv, FencesDistinct, DagTypeOK
<1>3. PICK s \in EngineState : s = [eng[e] EXCEPT !.phase = "wave"]
  <2>1. PICK st \in EngineState : st = eng[e]
    BY <1>1 DEF DagTypeOK
  <2>2. [st EXCEPT !.phase = "wave"] \in EngineState
    BY DEF EngineState, Phase
  <2> QED
    BY <2>1, <2>2
<1>4. FreshNodes \in [Node -> NodeState]
  BY DEF FreshNodes, FreshNode, NodeState, NodeStatus
<1>5. /\ eng' = [eng EXCEPT ![e] = s] /\ fence' = [fence EXCEPT ![e] = 1]
      /\ ckpt' = [fence |-> 1, nodes |-> FreshNodes]
      /\ approval' = approval /\ call' = call
  BY <1>3 DEF Create, Become
<1>6. DagTypeOK'
  BY <1>1, <1>4, <1>5 DEF DagTypeOK
<1>7. FencesDistinct' /\ NothingStored' /\ ckpt'.nodes = ckpt.nodes
  BY <1>1, <1>2, <1>5 DEF FencesDistinct, NothingStored, DagTypeOK
<1>8. SaversFenced'
  BY <1>1, <1>5 DEF FenceInv, SaversFenced, DagTypeOK
<1> QED
  BY <1>6, <1>7, <1>8 DEF FenceInv

\* A takeover: the token is ahead of every other, and nothing else is stored.
LEMMA LeaseStep ==
    ASSUME FenceInv, NEW e \in Engine, AcquireLease(e)
    PROVE  FenceInv' /\ ckpt'.nodes = ckpt.nodes
<1>1. /\ DagTypeOK /\ ckpt.fence \in Nat /\ ckpt.nodes \in [Node -> NodeState]
      /\ fence \in [Engine -> Nat] /\ eng \in [Engine -> EngineState]
  BY DEF FenceInv, DagTypeOK
<1>2. PICK w \in [Node -> NodeState] : w = ckpt.nodes
  BY <1>1
<1>3. PICK t \in [Node -> Task] :
         t = [n \in Node |-> IF ckpt.nodes[n].status \in Unresolved
                             THEN "reconciling" ELSE "none"]
  BY DEF Task
<1>4. PICK s \in EngineState :
         s = [eng[e] EXCEPT !.phase = "reconcile", !.local = w, !.task = t]
  BY <1>1 DEF EngineState, Phase
<1>5. PICK k \in Nat : k = ckpt.fence + 1 /\ k > ckpt.fence /\ k # 0
  BY <1>1
<1>6. /\ eng' = [eng EXCEPT ![e] = s] /\ fence' = [fence EXCEPT ![e] = k]
      /\ ckpt' = [fence |-> k, nodes |-> w]
      /\ approval' = approval /\ call' = call
  BY <1>2, <1>3, <1>4, <1>5 DEF AcquireLease, Become
<1>7. DagTypeOK'
  BY <1>1, <1>6 DEF DagTypeOK
<1>8. \A f \in Engine : fence[f] \in Nat /\ fence[f] < k
  BY <1>1, <1>5 DEF FenceInv, FencesDistinct
<1>9. FencesDistinct'
  BY <1>1, <1>6, <1>8 DEF FenceInv, FencesDistinct
<1>10. NothingStored' /\ ckpt'.nodes = ckpt.nodes
  BY <1>2, <1>5, <1>6 DEF NothingStored
<1>11. SaversFenced'
  BY <1>1, <1>5, <1>6 DEF FenceInv, SaversFenced
<1> QED
  BY <1>7, <1>9, <1>10, <1>11 DEF FenceInv

\* What a provider does with a call touches no checkpoint and no engine.
LEMMA ProviderStep ==
    ASSUME FenceInv, NEW e \in Engine, NEW n \in Node, ProviderCommit(e, n)
    PROVE  FenceInv' /\ ckpt'.nodes = ckpt.nodes
<1>1. PICK fate \in {"committed", "lost"} : call' = [call EXCEPT ![e][n] = fate]
  BY DEF ProviderCommit
<1>2. call' \in [Engine -> [Node -> CallState]]
  BY <1>1, CallType DEF CallState, FenceInv
<1> QED
  BY <1>2 DEF FenceInv, DagTypeOK, FencesDistinct, SaversFenced, NothingStored, ProviderCommit

\* The newest engine is the one that changed the stored node states.
NewestWrote ==
    ckpt'.nodes # ckpt.nodes =>
        \E e \in Engine : /\ fence'[e] = ckpt'.fence
                          /\ \A f \in Engine \ {e} : fence'[f] < fence'[e]
                          /\ ckpt'.nodes \in {eng[e].local, eng'[e].local}

\* Every step preserves the invariant and writes with the newest token.
LEMMA FenceStep ==
    ASSUME FenceInv, [Next]_vars
    PROVE  FenceInv' /\ NewestWrote
<1>1. CASE UNCHANGED vars
  BY <1>1 DEF vars, FenceInv, DagTypeOK, FencesDistinct, SaversFenced, NothingStored, NewestWrote
<1>2. ASSUME NEW e \in Engine, Covered(e) PROVE FenceInv' /\ NewestWrote
  <2>1. PICK st \in EngineState : Quiet(e, st) \/ Saving(e, st)
    BY <1>2 DEF Covered
  <2>2. CASE Quiet(e, st)
    BY <2>2, QuietStep DEF NewestWrote
  <2>3. CASE Saving(e, st)
    BY <2>3, SavingStep DEF NewestWrote
  <2> QED
    BY <2>1, <2>2, <2>3
<1>3. CASE Next
  <2>1. PICK e \in Engine : \/ CheckApproval(e) \/ AcquireLease(e) \/ Step(e) \/ Crash(e)
                            \/ \E n \in Node : ProviderCommit(e, n)
    BY <1>3 DEF Next
  <2>2. CASE Create(e)
    BY <2>2, CreateStep DEF NewestWrote
  <2>3. CASE AcquireLease(e)
    BY <2>3, LeaseStep DEF NewestWrote
  <2>4. CASE \E n \in Node : ProviderCommit(e, n)
    BY <2>4, ProviderStep DEF NewestWrote
  <2>5. CASE \/ CheckApproval(e) \/ ResumeRun(e) \/ NextWave(e) \/ Report(e) \/ Crash(e)
             \/ \E n \in Node : \/ Reconcile(e, n) \/ StartTask(e, n) \/ TakeLock(e, n)
                                \/ Succeed(e, n) \/ Fail(e, n) \/ LoseTrack(e, n) \/ Break(e, n)
                                \/ StartUndo(e, n) \/ FinishUndo(e, n)
    BY <1>2, <2>5, CoveredSteps
  <2> QED
    BY <2>1, <2>2, <2>3, <2>4, <2>5 DEF Step
<1> QED
  BY <1>1, <1>3

\* Before the first step nobody has a token.
LEMMA FenceInit == Init => FenceInv
BY DEF Init, FenceInv, DagTypeOK, FencesDistinct, SaversFenced, NothingStored, IdleEngine,
       EngineState, Phase, Task, CallState, FreshNodes, FreshNode, NodeState, NodeStatus, Saver

\* For every plan, any number of engines and any crashes and takeovers, the
\* state is well-typed and no two engines hold the same fence token.
THEOREM Fencing == Spec => [](DagTypeOK /\ FencesDistinct)
<1>1. FenceInv => DagTypeOK /\ FencesDistinct
  BY DEF FenceInv
<1>2. FenceInv /\ [Next]_vars => FenceInv'
  BY FenceStep
<1> QED
  BY <1>1, <1>2, FenceInit, PTL DEF Spec

\* The condition on the fence token in store.save is enough: once an execution
\* was taken over, the engine it was taken from changes no stored node state.
THEOREM NewestWrites == Spec => OnlyNewestWrites
<1>1. FenceInv /\ [Next]_vars => FenceInv' /\ NewestWrote
  BY FenceStep
<1>2. Spec => [][NewestWrote]_vars
  BY <1>1, FenceInit, PTL DEF Spec
<1> QED
  BY <1>2 DEF OnlyNewestWrites, NewestWrote

=============================================================================
