-------------------------- MODULE DagEffectsProofs --------------------------
(***************************************************************************)
(* What the stored states of an execution and its engines know of the      *)
(* effects at the provider, for every plan, any number of engines and any  *)
(* crashes and takeovers.                                                  *)
(***************************************************************************)
EXTENDS DagExecutionProofs

\* A node has an effect, or may still get one.
MayExist(n) == Committed(n) \/ MayCommit(n)

\* The statuses of a node from the time its compensation is begun.
RolledBack == {"COMPENSATION_PENDING"} \cup UndoOutcome

\* The engine whose saves the store takes.
Newest(e) == fence[e] = ckpt.fence /\ eng[e].phase \in Saver

\* The effect of a node is being undone, or was.
Retracted(n) == \E f \in Engine : eng[f].task[n] = "undoing" \/ call[f][n] = "undone"

\* A status that tells the truth about a node's effect: it does not deny one,
\* SUCCESS has one, a node that is rolled back gets no further one, and a node
\* that was or is being undone, by whichever engine, is known to be.
Tells(n, status) ==
    /\ MayExist(n) => status \in Effectful
    /\ status = "SUCCESS" /\ n \in Mutating => Committed(n)
    /\ status \in RolledBack => ~MayCommit(n)
    /\ Retracted(n) => status \in RolledBack

Knows(nodes) == \A n \in Node : Tells(n, nodes[n].status)

\* What an engine awaits agrees with its phase and its node states.
Waits(st) ==
    \A n \in Node :
        /\ st.task[n] = "reconciling" => st.phase = "reconcile" /\ st.local[n].status \in Unresolved
        /\ st.task[n] = "undoing" => /\ st.phase = "rollback" /\ st.local[n].status = "COMPENSATION_PENDING"
                                     /\ \A m \in Node \ {n} : st.task[m] = "none"
        /\ st.task[n] \in {"waiting", "calling"} \/ n \in st.queue => st.phase \in {"wave", "raised"}
        /\ st.task[n] = "calling" =>
              st.local[n].status = IF n \in Mutating THEN "DISPATCHED" ELSE "PENDING"
        /\ st.task[n] = "waiting" \/ n \in st.queue =>
              /\ st.local[n].status = "PENDING"
              /\ \A d \in DependsOn[n] : st.local[d].status = "SUCCESS"
        /\ n \in st.queue => st.task[n] = "none"

\* Before it holds a token, an engine has the states of a new execution.
Fresh(st) ==
    st.phase \in {"idle", "admitting"} =>
        st.local = FreshNodes /\ st.queue = {} /\ \A n \in Node : st.task[n] = "none"

\* Once the waves are over, what is pending waits for something rolled back.
LeftPending(st) ==
    st.phase \in {"rollback", "done"} =>
        \A n \in Node : st.local[n].status = "PENDING" =>
            \E d \in DependsOn[n] : st.local[d].status \notin Blocking \cup {"SUCCESS"}

Shape == \A e \in Engine : Waits(eng[e]) /\ Fresh(eng[e]) /\ LeftPending(eng[e])

OnlyMutatingCalls == \A e \in Engine, n \in Node : call[e][n] # "none" => n \in Mutating

\* While the newest engine calls, its call is the only one that may have an effect.
CallsAlone ==
    \A e \in Engine, n \in Mutating : Newest(e) /\ eng[e].task[n] = "calling" =>
        /\ call[e][n] # "undone"
        /\ \A f \in Engine \ {e} : call[f][n] \notin {"sent", "committed"}

Informed == Knows(ckpt.nodes) /\ \A e \in Engine : Newest(e) => Knows(eng[e].local)

EffectInv ==
    FenceInv /\ Shape /\ OnlyMutatingCalls /\ OneEffectPerNode /\ CallsAlone /\ Informed

\* The lock of a node's resource is free in engine e.
LockFree(e, n) ==
    \A m \in Mutating \ {n} : ResourceOf[m] = ResourceOf[n] /\ ResourceOf[n] # NoResource
                                 => eng[e].task[m] # "calling"

\* What a step may add: a call of a node without effect whose dependencies are in
\* place and whose resource is free, and the compensation of an effect that exists.
Placed ==
    \A e \in Engine, n \in Node :
        /\ call[e][n] # "sent" /\ call'[e][n] = "sent" =>
              /\ \A f \in Engine : call[f][n] \notin Counted
              /\ \A d \in DependsOn[n] \cap Mutating : Committed(d)
        /\ eng[e].task[n] # "undoing" /\ eng'[e].task[n] = "undoing" => Committed(n)
        /\ eng[e].task[n] # "calling" /\ eng'[e].task[n] = "calling" /\ n \in Mutating =>
              LockFree(e, n)'

-----------------------------------------------------------------------------
(* Engines                                                                 *)

\* st is engine e with another status and task of node n.
Like(st, e, n, status, t) ==
    /\ st \in EngineState
    /\ \A m \in Node \ {n} : st.local[m] = eng[e].local[m] /\ st.task[m] = eng[e].task[m]
    /\ st.local[n].status = status /\ st.task[n] = t

\* What Moved, Put and Raised leave alone.
LEMMA MovedLike ==
    ASSUME DagTypeOK, NEW e \in Engine, NEW n \in Node, NEW s \in NodeStatus, NEW t \in Task
    PROVE  /\ Like(Moved(e, n, s, t), e, n, s, t)
           /\ Moved(e, n, s, t).phase = eng[e].phase /\ Moved(e, n, s, t).queue = eng[e].queue
<1>1. PICK st \in EngineState : st = eng[e]
  BY DEF DagTypeOK
<1>2. PICK old \in NodeState : old = st.local[n]
  BY DEF EngineState
<1>3. PICK ns \in NodeState : ns = [old EXCEPT !.status = s]
  BY DEF NodeState
<1>4. ns.status = s
  BY <1>3 DEF NodeState
<1>5. Moved(e, n, s, t) = [st EXCEPT !.local = [st.local EXCEPT ![n] = ns],
                                     !.task = [st.task EXCEPT ![n] = t]]
  BY <1>1, <1>2, <1>3 DEF Moved, Put
<1>6. Moved(e, n, s, t) \in EngineState
  BY MovedType
<1> QED
  BY <1>1, <1>4, <1>5, <1>6 DEF Like, EngineState

\* _settle writes one node's state and its task's place, and nothing else of the
\* engine's memory.
LEMMA PutLike ==
    ASSUME DagTypeOK, NEW e \in Engine, NEW n \in Node, NEW ns \in NodeState, NEW t \in Task
    PROVE  /\ Like(Put(eng[e], n, ns, t), e, n, ns.status, t)
           /\ Put(eng[e], n, ns, t).phase = eng[e].phase /\ Put(eng[e], n, ns, t).queue = eng[e].queue
<1>1. PICK st \in EngineState : st = eng[e]
  BY DEF DagTypeOK
<1>2. Put(eng[e], n, ns, t) = [st EXCEPT !.local = [st.local EXCEPT ![n] = ns],
                                         !.task = [st.task EXCEPT ![n] = t]]
  BY <1>1 DEF Put
<1>3. Put(st, n, ns, t) \in EngineState
  BY PutType
<1> QED
  BY <1>1, <1>2, <1>3 DEF Like, EngineState

\* An engine that raises keeps its nodes, tasks and queue.
LEMMA RaisedLike ==
    ASSUME NEW st \in EngineState
    PROVE  /\ Raised(st) \in EngineState /\ Raised(st).phase = "raised"
           /\ Raised(st).local = st.local /\ Raised(st).task = st.task /\ Raised(st).queue = st.queue
BY DEF Raised, EngineState, Phase

-----------------------------------------------------------------------------
(* What is known                                                           *)

\* The statuses that deny an effect. They all say the same.
Inert == {"PENDING", "SKIPPED", "DENIED", "FAILED"}

\* A status that denies an effect can be exchanged for any other one that does.
LEMMA InertSame ==
    ASSUME NEW n \in Node, NEW s \in Inert, NEW r \in Inert, Tells(n, s)
    PROVE  Tells(n, r)
BY DEF Tells, Inert, Effectful, RolledBack, UndoOutcome

\* A status stays true while no call is added and no compensation is begun.
LEMMA TellsKept ==
    ASSUME NEW n \in Node, NEW s, Tells(n, s),
           MayCommit(n)' => MayCommit(n), MayExist(n)' => MayExist(n),
           s = "SUCCESS" /\ Committed(n) => Committed(n)',
           Retracted(n)' => Retracted(n)
    PROVE  Tells(n, s)'
BY DEF Tells

\* When the newest engine has saved what it has, it is enough that it knows.
LEMMA SavedInformed ==
    ASSUME FenceInv', NEW e \in Engine, fence'[e] = ckpt'.fence, ckpt'.fence # 0,
           ckpt'.nodes = eng'[e].local,
           \A n \in Node : Tells(n, eng[e].local[n].status)'
    PROVE  Informed'
<1>1. Knows(ckpt.nodes)'
  BY DEF Knows
<1>2. ASSUME NEW f \in Engine, Newest(f)' PROVE f = e
  BY <1>2 DEF FenceInv, FencesDistinct, Newest
<1> QED
  BY <1>1, <1>2 DEF Informed, Knows

\* Otherwise nobody else must have learned of anything they do not know.
LEMMA QuietInformed ==
    ASSUME FenceInv, Informed, NEW e \in Engine, \A f \in Engine \ {e} : eng'[f] = eng[f],
           fence' = fence, ckpt'.fence = ckpt.fence,
           ckpt'.nodes = ckpt.nodes \/ (Newest(e) /\ ckpt'.nodes = eng[e].local),
           \A n \in Node, s \in NodeStatus : Tells(n, s) => Tells(n, s)',
           Newest(e)' => \A n \in Node : Tells(n, eng[e].local[n].status)'
    PROVE  Informed'
<1>1. /\ \A n \in Node : ckpt.nodes[n].status \in NodeStatus
      /\ \A f \in Engine, n \in Node : eng[f].local[n].status \in NodeStatus
  BY DEF FenceInv, DagTypeOK, EngineState, NodeState
<1>2. Knows(ckpt.nodes)'
  BY <1>1 DEF Informed, Knows
<1>3. ASSUME NEW f \in Engine \ {e}, Newest(f)' PROVE Newest(f) /\ eng'[f] = eng[f]
  BY <1>3 DEF Newest
<1>4. ASSUME NEW f \in Engine, Newest(f)' PROVE Knows(eng[f].local)'
  BY <1>1, <1>3, <1>4 DEF Informed, Knows
<1> QED
  BY <1>2, <1>4 DEF Informed

\* Calls stay apart while none is added.
LEMMA CallsKept ==
    ASSUME OnlyMutatingCalls, OneEffectPerNode, CallsAlone,
           \A f \in Engine, n \in Node :
              /\ call'[f][n] # "none" => call[f][n] # "none" \/ n \in Mutating
              /\ call'[f][n] \in Counted => call[f][n] \in Counted
              /\ call'[f][n] \in {"sent", "committed"} => call[f][n] \in {"sent", "committed"}
              /\ Newest(f)' /\ eng'[f].task[n] = "calling" /\ n \in Mutating =>
                    /\ Newest(f) /\ eng[f].task[n] = "calling"
                    /\ call'[f][n] = "undone" => call[f][n] = "undone"
    PROVE  OnlyMutatingCalls' /\ OneEffectPerNode' /\ CallsAlone'
<1>1. OnlyMutatingCalls' /\ OneEffectPerNode'
  BY DEF OnlyMutatingCalls, OneEffectPerNode
<1>2. CallsAlone'
  BY NodesAssumption DEF CallsAlone
<1> QED
  BY <1>1, <1>2

-----------------------------------------------------------------------------
(* Steps of a task                                                         *)

\* The shape of the engine that takes a step is all that can change.
LEMMA ShapeKept ==
    ASSUME Shape, NEW e \in Engine, \A f \in Engine \ {e} : eng'[f] = eng[f],
           Waits(eng'[e]), Fresh(eng'[e]), LeftPending(eng'[e])
    PROVE  Shape'
BY DEF Shape, Waits, Fresh, LeftPending

\* How a task of a wave may leave its node.
TaskLeaves(e, n, st, status, t) ==
    /\ Running(e) /\ Like(st, e, n, status, t) /\ st.phase \in {"wave", "raised"}
    /\ st.queue \subseteq eng[e].queue /\ n \notin st.queue
    /\ eng[e].local[n].status # "SUCCESS"
    /\ t \in {"none", "waiting", "calling"}
    /\ t = "calling" => status = IF n \in Mutating THEN "DISPATCHED" ELSE "PENDING"
    /\ t = "waiting" => /\ status = "PENDING"
                        /\ \A d \in DependsOn[n] : eng[e].local[d].status = "SUCCESS"

\* An engine's memory keeps its shape when a task leaves its node in a state that
\* fits the task.
LEMMA TaskShape ==
    ASSUME DagTypeOK, Shape, NEW e \in Engine, NEW n \in Node, NEW st, NEW status, NEW t,
           TaskLeaves(e, n, st, status, t)
    PROVE  Waits(st) /\ Fresh(st) /\ LeftPending(st)
<1>1. Fresh(st) /\ LeftPending(st)
  BY DEF TaskLeaves, Fresh, LeftPending
<1>2. Waits(eng[e]) /\ eng[e].phase \in {"wave", "raised"}
  BY DEF Shape, TaskLeaves, Running
<1>3. ASSUME NEW m \in Node \ {n}
      PROVE  /\ st.task[m] = eng[e].task[m] /\ st.local[m] = eng[e].local[m]
             /\ m \in st.queue => m \in eng[e].queue
             /\ eng[e].task[m] = "waiting" \/ m \in eng[e].queue => n \notin DependsOn[m]
  BY <1>2, <1>3 DEF TaskLeaves, Like, Waits
<1>4. ASSUME NEW m \in Node \ {n}, eng[e].task[m] = "waiting" \/ m \in eng[e].queue
      PROVE  \A d \in DependsOn[m] : st.local[d].status = "SUCCESS"
  <2>1. DependsOn[m] \subseteq Node \ {n}
    BY <1>3, <1>4, NodesAssumption
  <2> QED
    BY <1>2, <1>3, <1>4, <2>1 DEF Waits
<1>5. ASSUME t = "waiting" PROVE \A d \in DependsOn[n] : st.local[d].status = "SUCCESS"
  <2>1. DependsOn[n] \subseteq Node \ {n}
    BY <1>5, NodesAssumption DEF TaskLeaves
  <2> QED
    BY <1>3, <1>5, <2>1 DEF TaskLeaves
<1> QED
  BY <1>1, <1>2, <1>3, <1>4, <1>5 DEF Waits, TaskLeaves, Like

\* How a step may change the calls of a node without adding one: a failure is
\* known to have had no effect, a compensation undoes what was committed.
CallsFade(e, n) ==
    \A f \in Engine, m \in Node :
        \/ call'[f][m] = call[f][m]
        \/ /\ m = n /\ n \in Mutating
           /\ call'[f][m] = "lost" /\ call[f][m] \notin {"committed", "undone"}
        \/ /\ m = n /\ eng[e].task[n] = "undoing"
           /\ call'[f][m] = "undone" /\ call[f][m] = "committed"

\* A step about one node that sends and begins nothing keeps the invariant, if
\* the newest engine still tells the truth about the node.
LEMMA NodeStep ==
    ASSUME EffectInv, FenceInv', NEW e \in Engine, NEW n \in Node, NEW st,
           NEW status \in NodeStatus, NEW t,
           Like(st, e, n, status, t), Waits(st), Fresh(st), LeftPending(st),
           st.phase \in Saver, eng[e].phase \in Saver,
           eng' = [eng EXCEPT ![e] = st], fence' = fence,
           ckpt' = ckpt \/ (Newest(e) /\ ckpt' = [fence |-> fence[e], nodes |-> st.local]),
           CallsFade(e, n),
           t # "undoing", t = "calling" => n \notin Mutating,
           Newest(e) => Tells(n, status) \/ Tells(n, status)'
    PROVE  EffectInv' /\ Placed
<1>1. /\ DagTypeOK /\ eng \in [Engine -> EngineState] /\ call \in [Engine -> [Node -> CallState]]
      /\ eng'[e] = st /\ \A f \in Engine \ {e} : eng'[f] = eng[f]
  BY DEF EffectInv, FenceInv, DagTypeOK
<1>2. Shape'
  BY <1>1, ShapeKept DEF EffectInv
<1>3. ckpt'.fence = ckpt.fence /\ \A f \in Engine : Newest(f)' => Newest(f)
  <2>1. ckpt'.fence = ckpt.fence
    BY DEF Newest
  <2> QED
    BY <1>1, <2>1 DEF Newest
<1>4. \A f \in Engine, m \in Node : /\ eng'[f].task[m] = "undoing" => eng[f].task[m] = "undoing"
                                    /\ eng'[f].task[m] = "calling" /\ m \in Mutating =>
                                          eng[f].task[m] = "calling"
  BY <1>1 DEF Like
<1>5. ASSUME NEW f \in Engine, Newest(f), eng[f].task[n] = "calling" PROVE eng[e].task[n] # "undoing"
  <2>1. eng[f].local[n].status \notin RolledBack
    BY <1>5 DEF EffectInv, Shape, Waits, RolledBack, UndoOutcome
  <2> QED
    BY <1>5, <2>1 DEF EffectInv, Informed, Knows, Tells, Retracted
<1>6. OnlyMutatingCalls' /\ OneEffectPerNode' /\ CallsAlone'
  <2>1. OnlyMutatingCalls /\ OneEffectPerNode /\ CallsAlone
    BY DEF EffectInv
  <2>2. \A f \in Engine, m \in Node :
           /\ call'[f][m] # "none" => call[f][m] # "none" \/ m \in Mutating
           /\ call'[f][m] \in Counted => call[f][m] \in Counted
           /\ call'[f][m] \in {"sent", "committed"} => call[f][m] \in {"sent", "committed"}
    BY DEF CallsFade, Counted
  <2>3. \A f \in Engine, m \in Node :
           Newest(f)' /\ eng'[f].task[m] = "calling" /\ m \in Mutating =>
              /\ Newest(f) /\ eng[f].task[m] = "calling"
              /\ call'[f][m] = "undone" => call[f][m] = "undone"
    BY <1>3, <1>4, <1>5 DEF CallsFade
  <2> QED
    BY <2>1, <2>2, <2>3, CallsKept
<1>7. ASSUME NEW m \in Node, NEW s \in NodeStatus, Tells(m, s) PROVE Tells(m, s)'
  <2>1. /\ MayCommit(m)' => MayCommit(m)
        /\ MayExist(m)' => MayExist(m)
    BY DEF MayCommit, MayExist, Committed, CallsFade
  <2>2. s = "SUCCESS" /\ Committed(m) => Committed(m)'
    BY <1>7 DEF Committed, CallsFade, Tells, Retracted, RolledBack, UndoOutcome
  <2>3. Retracted(m)' => Retracted(m)
    BY <1>4 DEF Retracted, CallsFade
  <2> QED
    BY <1>7, <2>1, <2>2, <2>3, TellsKept
<1>8. ASSUME Newest(e) PROVE \A m \in Node : Tells(m, eng[e].local[m].status)'
  <2>1. \A m \in Node \ {n} : eng'[e].local[m].status = eng[e].local[m].status
                              /\ eng[e].local[m].status \in NodeStatus
    BY <1>1 DEF Like, EngineState, NodeState
  <2>2. ASSUME NEW m \in Node \ {n} PROVE Tells(m, eng[e].local[m].status)'
    BY <1>7, <1>8, <2>1 DEF EffectInv, Informed, Knows
  <2>3. eng'[e].local[n].status = status
    BY <1>1 DEF Like
  <2> QED
    BY <1>7, <1>8, <2>2, <2>3
<1>9. Informed'
  <2>1. CASE ckpt' = ckpt
    BY <1>1, <1>3, <1>7, <1>8, <2>1, QuietInformed DEF EffectInv
  <2>2. CASE Newest(e) /\ ckpt' = [fence |-> fence[e], nodes |-> st.local]
    BY <1>1, <1>3, <1>8, <2>2, SavedInformed DEF EffectInv, FenceInv, SaversFenced
  <2> QED
    BY <2>1, <2>2
<1>10. Placed
  BY <1>4 DEF Placed, CallsFade
<1> QED
  BY <1>2, <1>6, <1>9, <1>10 DEF EffectInv

\* The same for a step of a task.
LEMMA TaskStep ==
    ASSUME EffectInv, FenceInv', NEW e \in Engine, NEW n \in Node, NEW st,
           NEW status \in NodeStatus, NEW t,
           TaskLeaves(e, n, st, status, t),
           eng' = [eng EXCEPT ![e] = st], fence' = fence,
           ckpt' = ckpt \/ (Newest(e) /\ ckpt' = [fence |-> fence[e], nodes |-> st.local]),
           \/ call' = call
           \/ call' = [call EXCEPT ![e][n] = "lost"] /\ call[e][n] \notin {"committed", "undone"}
              /\ n \in Mutating,
           t = "calling" => n \notin Mutating,
           Newest(e) => Tells(n, status) \/ Tells(n, status)'
    PROVE  EffectInv' /\ Placed
<1>1. DagTypeOK /\ Shape /\ call \in [Engine -> [Node -> CallState]]
  BY DEF EffectInv, FenceInv, DagTypeOK
<1>2. Waits(st) /\ Fresh(st) /\ LeftPending(st)
  BY <1>1, TaskShape
<1>3. Like(st, e, n, status, t) /\ st.phase \in Saver /\ eng[e].phase \in Saver /\ t # "undoing"
  BY DEF TaskLeaves, Running, Saver
<1>4. CallsFade(e, n)
  BY <1>1 DEF CallsFade
<1> QED
  BY <1>2, <1>3, <1>4, NodeStep

\* The newest engine sends the call of a pending node, and has saved that it does.
LEMMA SendStep ==
    ASSUME EffectInv, FenceInv', NEW e \in Engine, NEW n \in Mutating, NEW st,
           TaskLeaves(e, n, st, "DISPATCHED", "calling"),
           eng[e].local[n].status = "PENDING",
           \A d \in DependsOn[n] : eng[e].local[d].status = "SUCCESS",
           LockFree(e, n), eng' = [eng EXCEPT ![e] = st], fence' = fence,
           Newest(e), ckpt' = [fence |-> fence[e], nodes |-> st.local],
           call' = [call EXCEPT ![e][n] = "sent"]
    PROVE  EffectInv' /\ Placed
<1>1. /\ DagTypeOK /\ eng \in [Engine -> EngineState] /\ call \in [Engine -> [Node -> CallState]]
      /\ eng'[e] = st /\ \A f \in Engine \ {e} : eng'[f] = eng[f]
      /\ n \in Node
  BY NodesAssumption DEF EffectInv, FenceInv, DagTypeOK
<1>2. Shape'
  BY <1>1, TaskShape, ShapeKept DEF EffectInv
<1>3. \A m \in Node : Tells(m, eng[e].local[m].status)
  BY DEF EffectInv, Informed, Knows
<1>4. ~MayExist(n) /\ ~Retracted(n)
  BY <1>1, <1>3 DEF Tells, Effectful, RolledBack, UndoOutcome
<1>5. /\ call'[e][n] = "sent"
      /\ \A f \in Engine, m \in Node : f # e \/ m # n => call'[f][m] = call[f][m]
  BY <1>1
<1>6. /\ \A f \in Engine \ {e} : call'[f][n] \notin Counted
      /\ \A f \in Engine : call[f][n] \notin Counted
  BY <1>1, <1>4, <1>5 DEF MayExist, Committed, MayCommit, Retracted, Counted
<1>7. \A f \in Engine, m \in Node : eng'[f].task[m] = "undoing" => eng[f].task[m] = "undoing" /\ m # n
  BY <1>1, <1>4 DEF TaskLeaves, Like, Retracted
<1>8. \A f \in Engine : Newest(f)' => f = e
  <2>1. fence'[e] = ckpt'.fence /\ fence'[e] # 0
    BY DEF Newest, EffectInv, FenceInv, SaversFenced
  <2> QED
    BY <2>1 DEF Newest, FenceInv, FencesDistinct
<1>9. OnlyMutatingCalls'
  BY <1>5 DEF EffectInv, OnlyMutatingCalls
<1>10. OneEffectPerNode'
  BY <1>5, <1>6 DEF EffectInv, OneEffectPerNode
<1>11. CallsAlone'
  <2>1. \A m \in Mutating \ {n} : eng'[e].task[m] = eng[e].task[m]
    BY <1>1, NodesAssumption DEF TaskLeaves, Like
  <2> QED
    BY <1>5, <1>6, <1>8, <2>1, NodesAssumption DEF EffectInv, CallsAlone, Counted
<1>12. \A m \in Node : Tells(m, eng[e].local[m].status)'
  <2>1. ASSUME NEW m \in Node \ {n} PROVE Tells(m, eng[e].local[m].status)'
    <3>1. /\ (MayCommit(m)' <=> MayCommit(m)) /\ (MayExist(m)' <=> MayExist(m))
          /\ (Committed(m)' <=> Committed(m)) /\ (Retracted(m)' => Retracted(m))
      BY <1>5, <1>7 DEF MayCommit, MayExist, Committed, Retracted
    <3>2. eng'[e].local[m] = eng[e].local[m]
      BY <1>1 DEF TaskLeaves, Like
    <3> QED
      BY <1>3, <1>7, <3>1, <3>2, TellsKept
  <2>2. eng'[e].local[n].status = "DISPATCHED"
    BY <1>1 DEF TaskLeaves, Like
  <2>3. Tells(n, "DISPATCHED")'
    <3>1. ~Retracted(n)'
      BY <1>1, <1>5, <1>6, <1>7 DEF Retracted, Counted
    <3> QED
      BY <3>1 DEF Tells, Effectful, RolledBack, UndoOutcome
  <2> QED
    BY <2>1, <2>2, <2>3
<1>13. Informed'
  <2>1. fence'[e] = ckpt'.fence /\ fence'[e] # 0 /\ ckpt'.nodes = eng'[e].local
    BY <1>1 DEF Newest, EffectInv, FenceInv, SaversFenced
  <2> QED
    BY <1>12, <2>1, SavedInformed
<1>14. Placed
  <2>1. ASSUME NEW d \in DependsOn[n] \cap Mutating PROVE Committed(d)
    <3>1. d \in Node /\ eng[e].local[d].status = "SUCCESS"
      BY NodesAssumption
    <3>2. Tells(d, "SUCCESS")
      BY <1>3, <3>1
    <3> QED
      BY <3>2 DEF Tells
  <2>2. \A f \in Engine, m \in Node : (f # e \/ m # n) /\ eng'[f].task[m] = "calling" =>
           eng[f].task[m] = "calling"
    BY <1>1 DEF TaskLeaves, Like
  <2>3. LockFree(e, n)'
    BY <1>1, <2>2, NodesAssumption DEF LockFree
  <2> QED
    BY <1>5, <1>6, <1>7, <2>1, <2>2, <2>3 DEF Placed
<1> QED
  BY <1>2, <1>9, <1>10, <1>11, <1>13, <1>14 DEF EffectInv

\* The steps of a task up to the call of the executor.
LEMMA ExecuteKeeps ==
    ASSUME EffectInv, FenceInv', NEW e \in Engine, NEW n \in Node, NEW q \in SUBSET Node,
           Running(e), q \subseteq eng[e].queue, n \notin q,
           eng[e].local[n].status = "PENDING",
           \A d \in DependsOn[n] : eng[e].local[d].status = "SUCCESS",
           Resolvable(e, n) /\ n \in Mutating => LockFree(e, n),
           Execute(e, n, q), fence' = fence
    PROVE  EffectInv' /\ Placed
<1> DEFINE st(status, t) == [Moved(e, n, status, t) EXCEPT !.queue = q]
           counted == [Moved(e, n, IF n \in Mutating THEN "DISPATCHED" ELSE "PENDING", "calling")
                           EXCEPT !.queue = q, !.calls = @ + 1]
<1>1. DagTypeOK /\ FenceInv /\ eng[e].phase \in {"wave", "raised"}
  BY DEF EffectInv, FenceInv, Running
<1>2. ASSUME NEW status \in NodeStatus, NEW t \in Task
      PROVE  /\ Like(st(status, t), e, n, status, t)
             /\ st(status, t).phase = eng[e].phase /\ st(status, t).queue = q
  <2>1. PICK s : /\ s = Moved(e, n, status, t) /\ Like(s, e, n, status, t)
                 /\ s.phase = eng[e].phase
    BY <1>1, MovedLike
  <2>2. /\ [s EXCEPT !.queue = q] \in EngineState
        /\ [s EXCEPT !.queue = q].queue = q /\ [s EXCEPT !.queue = q].phase = s.phase
        /\ [s EXCEPT !.queue = q].local = s.local /\ [s EXCEPT !.queue = q].task = s.task
    BY <2>1 DEF Like, EngineState
  <2> QED
    BY <2>1, <2>2 DEF Like
<1>3. /\ Like(counted, e, n, IF n \in Mutating THEN "DISPATCHED" ELSE "PENDING", "calling")
      /\ counted.phase = eng[e].phase /\ counted.queue = q
  <2>1. (IF n \in Mutating THEN "DISPATCHED" ELSE "PENDING") \in NodeStatus /\ "calling" \in Task
    BY DEF NodeStatus, Task
  <2>2. PICK status \in NodeStatus : status = IF n \in Mutating THEN "DISPATCHED" ELSE "PENDING"
    BY <2>1
  <2>3. PICK s : /\ s = Moved(e, n, status, "calling") /\ Like(s, e, n, status, "calling")
                 /\ s.phase = eng[e].phase
    BY <1>1, <2>1, MovedLike
  <2>4. PICK r \in EngineState : r = [s EXCEPT !.queue = q]
    BY <2>3 DEF Like, EngineState
  <2>5. [r EXCEPT !.calls = r.calls + 1] \in EngineState
    BY DEF EngineState
  <2>6. PICK c \in EngineState : c = [r EXCEPT !.calls = r.calls + 1]
    BY <2>5
  <2>7. c.queue = q /\ c.phase = s.phase /\ c.local = s.local /\ c.task = s.task
    BY <2>3, <2>4, <2>6 DEF Like, EngineState
  <2>8. c = counted
    BY <2>2, <2>3, <2>4, <2>6 DEF EngineState
  <2> QED
    BY <2>2, <2>3, <2>7, <2>8 DEF Like
<1>4. /\ Like(Raised(st("DISPATCHED", "none")), e, n, "DISPATCHED", "none")
      /\ Raised(st("DISPATCHED", "none")).phase = "raised"
      /\ Raised(st("DISPATCHED", "none")).queue = q
  <2>1. "DISPATCHED" \in NodeStatus /\ "none" \in Task
    BY DEF NodeStatus, Task
  <2>2. PICK s : s = st("DISPATCHED", "none") /\ Like(s, e, n, "DISPATCHED", "none") /\ s.queue = q
    BY <1>2, <2>1
  <2>3. /\ Raised(s) \in EngineState /\ Raised(s).phase = "raised" /\ Raised(s).local = s.local
        /\ Raised(s).task = s.task /\ Raised(s).queue = s.queue
    BY <2>2, RaisedLike DEF Like
  <2> QED
    BY <2>2, <2>3 DEF Like
<1> HIDE DEF st, counted
<1>5. Newest(e) => Tells(n, "PENDING")
  BY DEF EffectInv, Informed, Knows
<1>6. ASSUME NEW status \in {"FAILED", "DENIED", "SKIPPED"},
             Become(e, st(status, "none")), UNCHANGED <<ckpt, call>>
      PROVE  EffectInv' /\ Placed
  <2>1. status \in NodeStatus /\ "none" \in Task /\ (Newest(e) => Tells(n, status))
    BY <1>5, InertSame DEF NodeStatus, Task, Inert
  <2>2. PICK s : s = st(status, "none")
    OBVIOUS
  <2>3. TaskLeaves(e, n, s, status, "none")
    BY <1>1, <1>2, <2>1, <2>2 DEF TaskLeaves
  <2>4. eng' = [eng EXCEPT ![e] = s] /\ ckpt' = ckpt /\ call' = call
    BY <1>6, <2>2 DEF Become
  <2> QED
    BY <2>1, <2>3, <2>4, TaskStep
<1>7. ASSUME n \in Transform, UNCHANGED <<ckpt, call>>,
             Become(e, [Put(eng[e], n, [eng[e].local[n] EXCEPT !.status = "SUCCESS",
                                             !.result = TRUE], "none") EXCEPT !.queue = q])
      PROVE  EffectInv' /\ Placed
  <2>1. eng[e].local[n] \in NodeState
    BY <1>1 DEF DagTypeOK, EngineState
  <2>2. PICK old \in NodeState : old = eng[e].local[n]
    BY <2>1
  <2>3. PICK ns \in NodeState : ns = [old EXCEPT !.status = "SUCCESS", !.result = TRUE]
    BY DEF NodeState, NodeStatus
  <2>4. ns.status = "SUCCESS"
    BY <2>3 DEF NodeState
  <2>5. PICK p : /\ p = Put(eng[e], n, ns, "none") /\ Like(p, e, n, "SUCCESS", "none")
                 /\ p.phase = eng[e].phase
    <3>1. "none" \in Task
      BY DEF Task
    <3> QED
      BY <1>1, <2>4, <3>1, PutLike
  <2>6. PICK s : s = [p EXCEPT !.queue = q]
    OBVIOUS
  <2>7. s \in EngineState /\ s.queue = q /\ s.phase = p.phase /\ s.local = p.local /\ s.task = p.task
    BY <2>5, <2>6 DEF Like, EngineState
  <2>8. TaskLeaves(e, n, s, "SUCCESS", "none")
    BY <1>1, <2>5, <2>7 DEF TaskLeaves, Like
  <2>9. eng' = [eng EXCEPT ![e] = s]
    BY <1>7, <2>2, <2>3, <2>5, <2>6 DEF Become
  <2>10. Newest(e) => Tells(n, "SUCCESS")
    BY <1>5, <1>7, NodesAssumption DEF Tells, Effectful, RolledBack, UndoOutcome
  <2> QED
    BY <1>7, <2>8, <2>9, <2>10, TaskStep DEF NodeStatus
<1>8. ASSUME n \notin Mutating, Become(e, counted), UNCHANGED <<ckpt, call>>
      PROVE  EffectInv' /\ Placed
  <2>1. TaskLeaves(e, n, counted, "PENDING", "calling")
    BY <1>1, <1>3, <1>8 DEF TaskLeaves
  <2> QED
    BY <1>5, <1>8, <2>1, TaskStep DEF Become, NodeStatus
<1>9. ASSUME n \in Mutating, LockFree(e, n), SaveAs(e, counted, Raised(st("DISPATCHED", "none"))),
             call' = IF fence[e] < ckpt.fence THEN call ELSE [call EXCEPT ![e][n] = "sent"]
      PROVE  EffectInv' /\ Placed
  <2>1. CASE fence[e] < ckpt.fence
    <3>1. TaskLeaves(e, n, Raised(st("DISPATCHED", "none")), "DISPATCHED", "none")
      BY <1>1, <1>4 DEF TaskLeaves
    <3>2. ~Newest(e)
      BY <1>1, <2>1 DEF Newest, DagTypeOK
    <3>3. PICK x : x = Raised(st("DISPATCHED", "none"))
      OBVIOUS
    <3>4. eng' = [eng EXCEPT ![e] = x] /\ ckpt' = ckpt /\ call' = call
      BY <1>9, <2>1, <3>3 DEF SaveAs, Become
    <3>5. TaskLeaves(e, n, x, "DISPATCHED", "none") /\ "DISPATCHED" \in NodeStatus
      BY <3>1, <3>3 DEF NodeStatus
    <3> QED
      BY <3>2, <3>4, <3>5, TaskStep
  <2>2. CASE ~(fence[e] < ckpt.fence)
    <3>1. TaskLeaves(e, n, counted, "DISPATCHED", "calling")
      BY <1>1, <1>3, <1>9 DEF TaskLeaves
    <3>2. ckpt' = [fence |-> fence[e], nodes |-> counted.local] /\ eng' = [eng EXCEPT ![e] = counted]
          /\ call' = [call EXCEPT ![e][n] = "sent"]
      BY <1>9, <2>2 DEF SaveAs, Become
    <3>3. Newest(e)
      <4>1. fence[e] \in Nat /\ ckpt.fence \in Nat /\ fence[e] <= ckpt.fence
        BY <1>1 DEF FenceInv, FencesDistinct, DagTypeOK
      <4> QED
        BY <1>1, <2>2, <4>1 DEF Newest, Saver
    <3> QED
      BY <1>9, <3>1, <3>2, <3>3, SendStep
  <2> QED
    BY <2>1, <2>2
<1> QED
  BY <1>6, <1>7, <1>8, <1>9 DEF Execute, st, counted

\* Every step of a task, from the queue to its end.
LEMMA TaskKeeps ==
    ASSUME EffectInv, FenceInv', NEW e \in Engine, NEW n \in Node,
           \/ StartTask(e, n) \/ TakeLock(e, n) \/ Succeed(e, n) \/ Fail(e, n)
           \/ LoseTrack(e, n) \/ Break(e, n)
    PROVE  EffectInv' /\ Placed
<1>1. /\ DagTypeOK /\ FenceInv /\ Waits(eng[e]) /\ eng[e].phase \in {"wave", "raised"} /\ Running(e)
      /\ fence' = fence /\ eng[e] \in EngineState /\ "none" \in Task
  BY DEF EffectInv, FenceInv, Shape, DagTypeOK, Task, StartTask, TakeLock, Succeed, Fail, LoseTrack,
         Break, Running
<1>2. Newest(e) => Tells(n, eng[e].local[n].status)
  BY DEF EffectInv, Informed, Knows
<1>3. CASE StartTask(e, n)
  <2>1. PICK q \in SUBSET Node : q = eng[e].queue \ {n}
    BY <1>1 DEF EngineState
  <2>2. /\ eng[e].local[n].status = "PENDING" /\ n \in eng[e].queue
        /\ \A d \in DependsOn[n] : eng[e].local[d].status = "SUCCESS"
    BY <1>1, <1>3 DEF StartTask, Waits
  <2>3. CASE Execute(e, n, q) /\ ~(Resolvable(e, n) /\ Contenders(e, n) # {})
    <3>1. Resolvable(e, n) /\ n \in Mutating => LockFree(e, n)
      BY <2>3 DEF Contenders, LockFree
    <3> QED
      BY <1>1, <2>1, <2>2, <2>3, <3>1, ExecuteKeeps
  <2>4. CASE /\ Become(e, [Put(eng[e], n, eng[e].local[n], "waiting") EXCEPT !.queue = q])
             /\ UNCHANGED <<ckpt, call>>
    <3>1. PICK ns \in NodeState : ns = eng[e].local[n] /\ "waiting" \in Task
      BY <1>1 DEF EngineState, Task
    <3>2. PICK p : /\ p = Put(eng[e], n, ns, "waiting") /\ Like(p, e, n, ns.status, "waiting")
                   /\ p.phase = eng[e].phase
      BY <1>1, <3>1, PutLike
    <3>3. PICK s : s = [p EXCEPT !.queue = q]
      OBVIOUS
    <3>4. s \in EngineState /\ s.queue = q /\ s.phase = p.phase /\ s.local = p.local /\ s.task = p.task
      BY <3>2, <3>3 DEF Like, EngineState
    <3>5. TaskLeaves(e, n, s, "PENDING", "waiting")
      BY <1>1, <2>1, <2>2, <3>1, <3>2, <3>4 DEF TaskLeaves, Like
    <3>6. eng' = [eng EXCEPT ![e] = s] /\ ckpt' = ckpt /\ call' = call
      BY <2>4, <3>1, <3>2, <3>3 DEF Become
    <3> QED
      BY <1>1, <1>2, <2>2, <3>5, <3>6, TaskStep DEF NodeStatus
  <2> QED
    BY <1>3, <2>1, <2>3, <2>4 DEF StartTask
<1>4. CASE TakeLock(e, n)
  <2>1. PICK q \in SUBSET Node : q = eng[e].queue
    BY <1>1 DEF EngineState
  <2>2. /\ eng[e].local[n].status = "PENDING" /\ n \notin q
        /\ \A d \in DependsOn[n] : eng[e].local[d].status = "SUCCESS"
        /\ Execute(e, n, q)
    BY <1>1, <1>4, <2>1 DEF TakeLock, Waits
  <2>3. n \in Mutating => LockFree(e, n)
    BY <1>4 DEF TakeLock, Contenders, LockFree
  <2> QED
    BY <1>1, <2>1, <2>2, <2>3, ExecuteKeeps
<1>5. ASSUME eng[e].task[n] = "calling"
      PROVE  /\ n \notin eng[e].queue
             /\ eng[e].local[n].status = IF n \in Mutating THEN "DISPATCHED" ELSE "PENDING"
  BY <1>1, <1>5 DEF Waits
<1>6. ASSUME eng[e].task[n] = "calling", Newest(e)
      PROVE  /\ ~Retracted(n)
             /\ n \in Mutating =>
                   /\ call[e][n] # "undone"
                   /\ \A f \in Engine \ {e} : call[f][n] \notin {"sent", "committed"}
             /\ n \notin Mutating => \A f \in Engine : call[f][n] = "none"
  BY <1>2, <1>5, <1>6 DEF Tells, RolledBack, UndoOutcome, EffectInv, CallsAlone, OnlyMutatingCalls
<1>7. CASE Succeed(e, n)
  <2>1. PICK ref \in BOOLEAN : Become(e, Put(eng[e], n,
              [status |-> "SUCCESS", result |-> TRUE, effect |-> ref], "none"))
    BY <1>7 DEF Succeed
  <2>2. PICK ns \in NodeState : ns = [status |-> "SUCCESS", result |-> TRUE, effect |-> ref]
    BY DEF NodeState, NodeStatus
  <2>3. PICK s : /\ s = Put(eng[e], n, ns, "none") /\ Like(s, e, n, "SUCCESS", "none")
                 /\ s.phase = eng[e].phase /\ s.queue = eng[e].queue
    <3>1. ns.status = "SUCCESS"
      BY <2>2
    <3> QED
      BY <1>1, <3>1, PutLike
  <2>4. TaskLeaves(e, n, s, "SUCCESS", "none")
    BY <1>1, <1>5, <1>7, <2>3 DEF TaskLeaves, Succeed
  <2>5. eng' = [eng EXCEPT ![e] = s] /\ ckpt' = ckpt /\ call' = call
    BY <1>7, <2>1, <2>2, <2>3 DEF Become, Succeed
  <2>6. Newest(e) => Tells(n, "SUCCESS")
    BY <1>6, <1>7 DEF Succeed, Tells, Effectful, RolledBack, UndoOutcome, Committed
  <2> QED
    BY <1>1, <2>4, <2>5, <2>6, TaskStep DEF NodeStatus
<1>8. CASE Fail(e, n)
  <2>1. PICK m : /\ m = Moved(e, n, "FAILED", "none") /\ Like(m, e, n, "FAILED", "none")
                 /\ m.phase = eng[e].phase /\ m.queue = eng[e].queue
    BY <1>1, MovedLike DEF NodeStatus
  <2>2. PICK b \in BOOLEAN :
             b = (\/ m.aborted
                  \/ FailFast /\ OnFailure[n] # "isolate_branch"
                  \/ OnFailure[n] = "abort_plan")
    OBVIOUS
  <2>3. PICK s : s = [m EXCEPT !.aborted = b]
    OBVIOUS
  <2>4. s \in EngineState /\ s.queue = m.queue /\ s.phase = m.phase /\ s.local = m.local /\ s.task = m.task
    BY <2>1, <2>3 DEF Like, EngineState
  <2>5. eng' = [eng EXCEPT ![e] = s] /\ ckpt' = ckpt
    BY <1>8, <2>1, <2>2, <2>3 DEF Become, Fail
  <2>6. TaskLeaves(e, n, s, "FAILED", "none")
    BY <1>1, <1>5, <1>8, <2>1, <2>4 DEF TaskLeaves, Like, Fail
  <2>7. /\ call' = IF n \in Mutating THEN [call EXCEPT ![e][n] = "lost"] ELSE call
        /\ call[e][n] \notin {"committed", "undone"} /\ eng[e].task[n] = "calling"
        /\ call \in [Engine -> [Node -> CallState]] /\ eng \in [Engine -> EngineState]
    BY <1>1, <1>8 DEF Fail, DagTypeOK
  <2>8. ASSUME Newest(e) PROVE Tells(n, "FAILED")'
    <3>1. \A f \in Engine : call'[f][n] \notin {"sent", "committed"}
      BY <1>6, <2>7, <2>8
    <3>2. \A f \in Engine : eng'[f].task[n] # "undoing"
      BY <1>6, <2>5, <2>6, <2>7, <2>8 DEF TaskLeaves, Like, Retracted
    <3>3. \A f \in Engine : call'[f][n] # "undone"
      BY <1>6, <2>7, <2>8 DEF Retracted
    <3> QED
      BY <3>1, <3>2, <3>3 DEF Tells, MayExist, Committed, MayCommit, Retracted, RolledBack, UndoOutcome
  <2> QED
    BY <1>1, <2>5, <2>6, <2>7, <2>8, TaskStep DEF NodeStatus
<1>9. CASE LoseTrack(e, n)
  <2>1. PICK status \in {"DEAD_LETTER", "INDETERMINATE"} :
           SaveAs(e, Moved(e, n, status, "none"), Raised(Moved(e, n, "INDETERMINATE", "none")))
    BY <1>9 DEF LoseTrack
  <2>2. status \in NodeStatus /\ "INDETERMINATE" \in NodeStatus
    BY DEF NodeStatus
  <2>3. PICK s : /\ s = Moved(e, n, status, "none") /\ Like(s, e, n, status, "none")
                 /\ s.phase = eng[e].phase /\ s.queue = eng[e].queue
    BY <1>1, <2>2, MovedLike
  <2>4. PICK m : /\ m = Moved(e, n, "INDETERMINATE", "none") /\ Like(m, e, n, "INDETERMINATE", "none")
                 /\ m.queue = eng[e].queue
    BY <1>1, <2>2, MovedLike
  <2>5. /\ Raised(m) \in EngineState /\ Raised(m).phase = "raised" /\ Raised(m).local = m.local
        /\ Raised(m).task = m.task /\ Raised(m).queue = m.queue
    BY <2>4, RaisedLike DEF Like
  <2>6. eng[e].task[n] = "calling" /\ call' = call
    BY <1>9 DEF LoseTrack
  <2>7. Newest(e) => Tells(n, status)
    BY <1>6, <2>6 DEF Tells, Effectful, RolledBack, UndoOutcome
  <2>8. CASE fence[e] < ckpt.fence
    <3>1. TaskLeaves(e, n, Raised(m), "INDETERMINATE", "none")
      BY <1>1, <1>5, <2>4, <2>5, <2>6 DEF TaskLeaves, Like
    <3>2. ~Newest(e)
      BY <1>1, <2>8 DEF Newest, DagTypeOK
    <3>3. PICK r : r = Raised(m) /\ eng' = [eng EXCEPT ![e] = r] /\ ckpt' = ckpt
      BY <2>1, <2>4, <2>8 DEF SaveAs, Become
    <3> QED
      BY <1>1, <2>2, <2>6, <3>1, <3>2, <3>3, TaskStep
  <2>9. CASE ~(fence[e] < ckpt.fence)
    <3>1. TaskLeaves(e, n, s, status, "none")
      BY <1>1, <1>5, <2>3, <2>6 DEF TaskLeaves
    <3>2. ckpt' = [fence |-> fence[e], nodes |-> s.local] /\ eng' = [eng EXCEPT ![e] = s]
      BY <2>1, <2>3, <2>9 DEF SaveAs, Become
    <3>3. Newest(e)
      <4>1. fence[e] \in Nat /\ ckpt.fence \in Nat /\ fence[e] <= ckpt.fence
        BY <1>1 DEF FenceInv, FencesDistinct, DagTypeOK
      <4> QED
        BY <1>1, <2>9, <4>1 DEF Newest, Saver
    <3> QED
      BY <1>1, <2>2, <2>6, <2>7, <3>1, <3>2, <3>3, TaskStep
  <2> QED
    BY <2>8, <2>9
<1>10. CASE Break(e, n)
  <2>1. PICK ns \in NodeState : ns = eng[e].local[n]
    BY <1>1 DEF EngineState
  <2>2. PICK p : /\ p = Put(eng[e], n, ns, "none") /\ Like(p, e, n, ns.status, "none")
                 /\ p.queue = eng[e].queue
    BY <1>1, PutLike
  <2>3. /\ Raised(p) \in EngineState /\ Raised(p).phase = "raised" /\ Raised(p).local = p.local
        /\ Raised(p).task = p.task /\ Raised(p).queue = p.queue
    BY <2>2, RaisedLike DEF Like
  <2>4. TaskLeaves(e, n, Raised(p), ns.status, "none")
    <3>1. Running(e) /\ eng[e].task[n] = "calling"
      BY <1>10 DEF Break
    <3>2. Like(Raised(p), e, n, ns.status, "none")
      BY <2>2, <2>3 DEF Like
    <3>3. Raised(p).queue = eng[e].queue /\ n \notin eng[e].queue /\ eng[e].local[n].status # "SUCCESS"
      BY <1>1, <1>5, <2>1, <2>2, <2>3, <3>1
    <3> QED
      BY <2>3, <3>1, <3>2, <3>3 DEF TaskLeaves
  <2>5. PICK r : r = Raised(p) /\ eng' = [eng EXCEPT ![e] = r] /\ ckpt' = ckpt /\ call' = call
    BY <1>10, <2>1, <2>2 DEF Break, Become
  <2>6. PICK status \in NodeStatus : status = ns.status
    BY DEF NodeState
  <2>7. TaskLeaves(e, n, r, status, "none") /\ (Newest(e) => Tells(n, status))
    BY <1>2, <2>1, <2>4, <2>5, <2>6
  <2> QED
    BY <1>1, <2>5, <2>7, TaskStep
<1> QED
  BY <1>3, <1>4, <1>7, <1>8, <1>9, <1>10

-----------------------------------------------------------------------------
(* Steps of the coroutine                                                  *)

\* A step that moves statuses among the inert ones at most, and adds no call,
\* no task and no compensation; a save takes what the engine had or has.
LEMMA CoroutineStep ==
    ASSUME EffectInv, FenceInv', NEW e \in Engine, NEW st \in EngineState,
           eng' = [eng EXCEPT ![e] = st], fence' = fence, call' = call,
           Waits(st), Fresh(st), LeftPending(st),
           \A n \in Node : /\ st.task[n] = eng[e].task[n] \/ st.task[n] = "none"
                           /\ \/ st.local[n].status = eng[e].local[n].status
                              \/ st.local[n].status \in Inert /\ eng[e].local[n].status \in Inert
                              \/ st.phase \notin Saver,
           st.phase \in Saver => eng[e].phase \in Saver,
           \/ ckpt' = ckpt
           \/ Newest(e) /\ ckpt' = [fence |-> fence[e], nodes |-> eng[e].local]
           \/ Newest(e) /\ ckpt' = [fence |-> fence[e], nodes |-> st.local] /\ st.phase \in Saver
    PROVE  EffectInv' /\ Placed
<1>1. /\ DagTypeOK /\ FenceInv /\ eng \in [Engine -> EngineState]
      /\ eng'[e] = st /\ \A f \in Engine \ {e} : eng'[f] = eng[f]
  BY DEF EffectInv, FenceInv, DagTypeOK
<1>2. Shape'
  BY <1>1, ShapeKept DEF EffectInv
<1>3. ckpt'.fence = ckpt.fence /\ \A f \in Engine : Newest(f)' => Newest(f)
  <2>1. ckpt'.fence = ckpt.fence
    BY DEF Newest
  <2> QED
    BY <1>1, <2>1 DEF Newest
<1>4. \A f \in Engine, m \in Node : /\ eng'[f].task[m] = "undoing" => eng[f].task[m] = "undoing"
                                    /\ eng'[f].task[m] = "calling" => eng[f].task[m] = "calling"
  BY <1>1
<1>5. OnlyMutatingCalls' /\ OneEffectPerNode' /\ CallsAlone'
  <2>1. OnlyMutatingCalls /\ OneEffectPerNode /\ CallsAlone
    BY DEF EffectInv
  <2> QED
    BY <1>3, <1>4, <2>1, CallsKept
<1>6. ASSUME NEW m \in Node, NEW s \in NodeStatus, Tells(m, s) PROVE Tells(m, s)'
  BY <1>4, <1>6, TellsKept DEF MayCommit, MayExist, Committed, Retracted
<1>7. ASSUME Newest(e), st.phase \in Saver PROVE \A m \in Node : Tells(m, eng[e].local[m].status)'
  <2> SUFFICES ASSUME NEW m \in Node PROVE Tells(m, st.local[m].status)'
    BY <1>1
  <2>1. st.local[m].status \in NodeStatus
    BY DEF EngineState, NodeState
  <2>2. Tells(m, eng[e].local[m].status)
    BY <1>7 DEF EffectInv, Informed, Knows
  <2>3. Tells(m, st.local[m].status)
    BY <1>7, <2>2, InertSame
  <2> QED
    BY <1>6, <2>1, <2>3
<1>8. Informed'
  <2>1. Newest(e)' => Newest(e) /\ st.phase \in Saver
    BY <1>1, <1>3 DEF Newest
  <2>2. CASE ckpt'.nodes = ckpt.nodes \/ (Newest(e) /\ ckpt'.nodes = eng[e].local)
    BY <1>1, <1>3, <1>6, <1>7, <2>1, <2>2, QuietInformed DEF EffectInv
  <2>3. CASE Newest(e) /\ ckpt' = [fence |-> fence[e], nodes |-> st.local] /\ st.phase \in Saver
    BY <1>1, <1>3, <1>7, <2>3, SavedInformed DEF Newest, FenceInv, SaversFenced
  <2> QED
    BY <2>2, <2>3
<1>9. Placed
  BY <1>4 DEF Placed
<1> QED
  BY <1>2, <1>5, <1>8, <1>9 DEF EffectInv

\* A status after propagate: the old one, or SKIPPED for a pending node; what
\* is still pending has no blocking dependency.
LEMMA PropagateLeaves ==
    ASSUME NEW nodes \in [Node -> NodeState], NEW n \in Node
    PROVE  /\ \/ Propagate(nodes)[n] = nodes[n]
              \/ nodes[n].status = "PENDING" /\ Propagate(nodes)[n].status = "SKIPPED"
           /\ Propagate(nodes)[n].status = "PENDING" =>
                 \A d \in DependsOn[n] : Propagate(nodes)[d].status \notin Blocking
<1>1. \A m \in Node : Skip(nodes[m]).status = "SKIPPED"
  BY DEF Skip, NodeState
<1>2. \/ Propagate(nodes)[n] = nodes[n]
      \/ nodes[n].status = "PENDING" /\ Propagate(nodes)[n].status = "SKIPPED"
  BY <1>1 DEF Propagate
<1>3. ASSUME Propagate(nodes)[n].status = "PENDING", NEW d \in DependsOn[n],
             Propagate(nodes)[d].status \in Blocking
      PROVE  FALSE
  <2>1. d \in Node /\ nodes[n].status = "PENDING"
    BY <1>2, <1>3, NodesAssumption
  <2>2. PICK skipped \in SUBSET Node : SkipClosed(nodes, skipped) /\ n \notin skipped
    BY <1>1, <1>3, <2>1 DEF Propagate
  <2>3. nodes[d].status \in Blocking \/ d \in skipped
    BY <1>3, <2>1, <2>2 DEF Propagate
  <2> QED
    BY <2>1, <2>2, <2>3 DEF SkipClosed
<1> QED
  BY <1>2, <1>3

\* An engine with nothing under way waits for nothing.
LEMMA IdleWaits ==
    ASSUME NEW st, st.queue = {}, \A n \in Node : st.task[n] = "none"
    PROVE  Waits(st)
BY DEF Waits

\* The engine of a refused save has its node states and waits for nothing.
LEMMA RefusedKeeps ==
    ASSUME EffectInv, FenceInv', NEW e \in Engine, Idle(e), eng[e].phase \in Saver,
           Become(e, Raised(eng[e])), fence' = fence, call' = call, ckpt' = ckpt
    PROVE  EffectInv' /\ Placed
<1>1. eng[e] \in EngineState
  BY DEF EffectInv, FenceInv, DagTypeOK
<1>2. PICK r \in EngineState : /\ r = Raised(eng[e]) /\ r.phase = "raised" /\ r.local = eng[e].local
                               /\ r.task = eng[e].task /\ r.queue = eng[e].queue
  BY <1>1, RaisedLike
<1>3. Waits(r) /\ Fresh(r) /\ LeftPending(r)
  BY <1>2, IdleWaits DEF Idle, Fresh, LeftPending
<1>4. eng' = [eng EXCEPT ![e] = r]
  BY <1>2 DEF Become
<1> QED
  BY <1>2, <1>3, <1>4, CoroutineStep

\* A save that is taken is one of the newest engine.
LEMMA TakenIsNewest ==
    ASSUME FenceInv, NEW e \in Engine, eng[e].phase \in Saver, ~(fence[e] < ckpt.fence)
    PROVE  Newest(e)
<1>1. fence[e] \in Nat /\ ckpt.fence \in Nat /\ fence[e] <= ckpt.fence
  BY DEF FenceInv, FencesDistinct, DagTypeOK
<1> QED
  BY <1>1 DEF Newest

\* A wave that begins, or a run that ends, tells of every node what its engine knew.
LEMMA WaveKeeps ==
    ASSUME EffectInv, FenceInv', NEW e \in Engine, NextWave(e)
    PROVE  EffectInv' /\ Placed
<1>1. PICK st \in EngineState : st = eng[e] /\ st.queue = {} /\ \A n \in Node : st.task[n] = "none"
  BY DEF EffectInv, FenceInv, DagTypeOK, NextWave, Idle
<1>2. /\ fence' = fence /\ call' = call /\ st.phase = "wave" /\ eng[e].phase \in Saver
      /\ FenceInv /\ Idle(e)
  BY <1>1 DEF NextWave, Saver, EffectInv
<1> DEFINE stop == st.aborted /\ FailFast
           before == IF stop THEN SkipPending(st.local) ELSE st.local
           nodes == Propagate(before)
           batch == {n \in Node : Ready(nodes, n) /\ ~stop}
<1>3. /\ before \in [Node -> NodeState] /\ nodes \in [Node -> NodeState]
      /\ \A n \in Node : \/ before[n].status = st.local[n].status
                         \/ st.local[n].status = "PENDING" /\ before[n].status = "SKIPPED"
      /\ stop => \A n \in Node : before[n].status # "PENDING"
  <2>1. st.local \in [Node -> NodeState]
    BY DEF EngineState
  <2>2. /\ before \in [Node -> NodeState]
        /\ \A n \in Node : \/ before[n].status = st.local[n].status
                           \/ st.local[n].status = "PENDING" /\ before[n].status = "SKIPPED"
        /\ stop => \A n \in Node : before[n].status # "PENDING"
    <3>1. \A n \in Node : Skip(st.local[n]).status = "SKIPPED"
      BY <2>1 DEF Skip, NodeState
    <3> QED
      BY <2>1, <3>1, PropagateType DEF SkipPending
  <2> QED
    BY <2>2, PropagateType
<1> HIDE DEF before
<1>4. \A n \in Node : /\ \/ nodes[n].status = st.local[n].status
                         \/ nodes[n].status \in Inert /\ st.local[n].status \in Inert
                      /\ stop => nodes[n].status # "PENDING"
                      /\ nodes[n].status = "PENDING" =>
                            \A d \in DependsOn[n] : nodes[d].status \notin Blocking
  BY <1>3, PropagateLeaves DEF Inert
<1>5. \A n \in batch : nodes[n].status = "PENDING" /\ \A d \in DependsOn[n] : nodes[d].status = "SUCCESS"
  BY DEF Ready
<1>6. batch = {} => \A n \in Node : nodes[n].status = "PENDING" =>
                        \E d \in DependsOn[n] : nodes[d].status \notin Blocking \cup {"SUCCESS"}
  BY <1>4 DEF Ready
<1>7. IF batch # {}
      THEN IF fence[e] < ckpt.fence
           THEN UNCHANGED ckpt /\ Become(e, Raised(st))
           ELSE /\ ckpt' = [fence |-> fence[e], nodes |-> st.local]
                /\ Become(e, [st EXCEPT !.local = nodes, !.queue = batch])
      ELSE SaveAs(e, [st EXCEPT !.local = nodes, !.phase = "rollback"], Raised(st))
  BY <1>1 DEF NextWave, before
<1>8. PICK w \in [Node -> NodeState] : w = nodes
  BY <1>3
<1>9. PICK b \in SUBSET Node : b = batch
  OBVIOUS
<1> HIDE DEF nodes, batch, stop
<1>10. CASE fence[e] < ckpt.fence
  BY <1>1, <1>2, <1>7, <1>10, RefusedKeeps DEF SaveAs
<1>11. CASE ~(fence[e] < ckpt.fence) /\ b # {}
  <2>1. PICK s \in EngineState : s = [st EXCEPT !.local = w, !.queue = b]
    BY DEF EngineState
  <2>2. s.local = w /\ s.queue = b /\ s.phase = "wave" /\ s.task = st.task
    BY <1>2, <2>1 DEF EngineState
  <2>3. eng' = [eng EXCEPT ![e] = s] /\ ckpt' = [fence |-> fence[e], nodes |-> eng[e].local]
    BY <1>1, <1>7, <1>8, <1>9, <1>11, <2>1 DEF Become
  <2>4. Waits(s) /\ Fresh(s) /\ LeftPending(s)
    BY <1>1, <1>5, <1>8, <1>9, <2>2 DEF Waits, Fresh, LeftPending
  <2>5. \A n \in Node : /\ s.task[n] = eng[e].task[n] \/ s.task[n] = "none"
                        /\ \/ s.local[n].status = eng[e].local[n].status
                           \/ s.local[n].status \in Inert /\ eng[e].local[n].status \in Inert
                           \/ s.phase \notin Saver
    BY <1>1, <1>4, <1>8, <2>2
  <2>6. Newest(e)
    BY <1>2, <1>11, TakenIsNewest
  <2>7. fence' = fence /\ call' = call /\ eng[e].phase \in Saver
    BY <1>2
  <2> QED
    BY <2>2, <2>3, <2>4, <2>5, <2>6, <2>7, CoroutineStep
<1>12. CASE ~(fence[e] < ckpt.fence) /\ b = {}
  <2>1. PICK s \in EngineState : s = [st EXCEPT !.local = w, !.phase = "rollback"]
    BY DEF EngineState, Phase
  <2>2. s.local = w /\ s.queue = {} /\ s.phase = "rollback" /\ s.task = st.task /\ s.phase \in Saver
    BY <1>1, <2>1 DEF EngineState, Saver
  <2>3. eng' = [eng EXCEPT ![e] = s] /\ ckpt' = [fence |-> fence[e], nodes |-> s.local]
    BY <1>7, <1>8, <1>9, <1>12, <2>1 DEF SaveAs, Become
  <2>4. Waits(s) /\ Fresh(s) /\ LeftPending(s)
    BY <1>1, <1>6, <1>8, <1>9, <1>12, <2>2, IdleWaits DEF Fresh, LeftPending
  <2>5. \A n \in Node : /\ s.task[n] = eng[e].task[n] \/ s.task[n] = "none"
                        /\ \/ s.local[n].status = eng[e].local[n].status
                           \/ s.local[n].status \in Inert /\ eng[e].local[n].status \in Inert
                           \/ s.phase \notin Saver
    BY <1>1, <1>4, <1>8, <2>2
  <2>6. Newest(e)
    BY <1>2, <1>12, TakenIsNewest
  <2>7. fence' = fence /\ call' = call /\ eng[e].phase \in Saver
    BY <1>2
  <2> QED
    BY <2>2, <2>3, <2>4, <2>5, <2>6, <2>7, CoroutineStep
<1> QED
  BY <1>10, <1>11, <1>12

\* The steps of admit, of resume after the reconciliation, and the report.
LEMMA CoroutineKeeps ==
    ASSUME EffectInv, FenceInv', NEW e \in Engine,
           CheckApproval(e) \/ ResumeRun(e) \/ Report(e) \/ Crash(e)
    PROVE  EffectInv' /\ Placed
<1>1. PICK st \in EngineState : st = eng[e]
  BY DEF EffectInv, FenceInv, DagTypeOK
<1>2. /\ FenceInv /\ Waits(st) /\ Fresh(st) /\ LeftPending(st)
      /\ fence' = fence /\ call' = call
  BY <1>1 DEF EffectInv, Shape, CheckApproval, ResumeRun, Report, Crash
<1>3. CASE CheckApproval(e)
  <2>1. PICK p \in {"admitting", "refused"} : Become(e, [eng[e] EXCEPT !.phase = p])
    BY <1>3 DEF CheckApproval
  <2>2. PICK s \in EngineState : s = [st EXCEPT !.phase = p]
    BY DEF EngineState, Phase
  <2>3. /\ s.local = st.local /\ s.queue = st.queue /\ s.phase = p /\ s.task = st.task
        /\ s.phase \notin Saver /\ st.phase = "idle"
    BY <1>1, <1>3, <2>2 DEF EngineState, Saver, CheckApproval
  <2>4. Waits(s) /\ Fresh(s) /\ LeftPending(s)
    BY <1>2, <2>3, IdleWaits DEF Fresh, LeftPending
  <2>5. eng' = [eng EXCEPT ![e] = s] /\ ckpt' = ckpt
    BY <1>1, <1>3, <2>1, <2>2 DEF Become, CheckApproval
  <2> QED
    BY <1>1, <1>2, <2>3, <2>4, <2>5, CoroutineStep
<1>4. CASE Crash(e)
  <2>1. PICK s \in EngineState : s = [IdleEngine EXCEPT !.phase = "dead"]
    BY DEF IdleEngine, EngineState, Phase, Task, FreshNodes, FreshNode, NodeState, NodeStatus
  <2>2. /\ s.queue = {} /\ s.phase = "dead" /\ s.phase \notin Saver
        /\ \A n \in Node : s.task[n] = "none"
    BY <2>1 DEF IdleEngine, EngineState, Saver
  <2>3. Waits(s) /\ Fresh(s) /\ LeftPending(s)
    BY <2>2, IdleWaits DEF Fresh, LeftPending
  <2>4. eng' = [eng EXCEPT ![e] = s] /\ ckpt' = ckpt
    BY <1>4, <2>1 DEF Become, Crash
  <2> QED
    BY <1>2, <2>2, <2>3, <2>4, CoroutineStep
<1>5. CASE Report(e)
  <2>1. Idle(e) /\ eng[e].phase = "rollback" /\ eng[e].phase \in Saver
    BY <1>5 DEF Report, Saver
  <2>2. PICK s \in EngineState : s = [st EXCEPT !.phase = "done"]
    BY DEF EngineState, Phase
  <2>3. s.local = st.local /\ s.queue = st.queue /\ s.phase = "done" /\ s.task = st.task
    BY <2>2 DEF EngineState
  <2>4. Waits(s) /\ Fresh(s) /\ LeftPending(s)
    BY <1>1, <1>2, <2>1, <2>3, IdleWaits DEF Fresh, LeftPending, Idle
  <2>5. CASE fence[e] < ckpt.fence
    BY <1>2, <1>5, <2>1, <2>5, RefusedKeeps DEF SaveAs, Report
  <2>6. CASE ~(fence[e] < ckpt.fence)
    <3>1. eng' = [eng EXCEPT ![e] = s] /\ ckpt' = [fence |-> fence[e], nodes |-> s.local]
      BY <1>1, <1>5, <2>2, <2>6 DEF SaveAs, Become, Report
    <3>2. Newest(e) /\ s.phase \in Saver
      BY <1>2, <2>1, <2>3, <2>6, TakenIsNewest DEF Saver
    <3> QED
      BY <1>1, <1>2, <2>1, <2>3, <2>4, <3>1, <3>2, CoroutineStep
  <2> QED
    BY <2>5, <2>6
<1>6. CASE ResumeRun(e)
  <2>1. PICK denied \in SUBSET Deniable :
        LET reopened == [n \in Node |-> IF eng[e].local[n].status = "SKIPPED"
                            THEN [eng[e].local[n] EXCEPT !.status = "PENDING"]
                            ELSE eng[e].local[n]]
            checked == [n \in Node |-> IF n \in denied /\ reopened[n].status = "PENDING"
                            THEN [reopened[n] EXCEPT !.status = "DENIED"]
                            ELSE reopened[n]]
        IN  SaveAs(e, [eng[e] EXCEPT !.phase = "wave", !.local = checked], Raised(eng[e]))
    BY <1>6 DEF ResumeRun
  <2> DEFINE reopened == [n \in Node |-> IF st.local[n].status = "SKIPPED"
                            THEN [st.local[n] EXCEPT !.status = "PENDING"]
                            ELSE st.local[n]]
             checked == [n \in Node |-> IF n \in denied /\ reopened[n].status = "PENDING"
                            THEN [reopened[n] EXCEPT !.status = "DENIED"]
                            ELSE reopened[n]]
  <2>2. SaveAs(e, [st EXCEPT !.phase = "wave", !.local = checked], Raised(st))
    BY <1>1, <2>1
  <2>3. /\ reopened \in [Node -> NodeState]
        /\ \A n \in Node : \/ reopened[n].status = st.local[n].status
                           \/ st.local[n].status = "SKIPPED" /\ reopened[n].status = "PENDING"
    BY DEF EngineState, NodeState, NodeStatus
  <2>4. PICK ro \in [Node -> NodeState] : ro = reopened
    BY <2>3
  <2> HIDE DEF reopened
  <2>5. /\ checked \in [Node -> NodeState]
        /\ \A n \in Node : \/ checked[n].status = ro[n].status
                           \/ ro[n].status = "PENDING" /\ checked[n].status = "DENIED"
    BY <2>4 DEF NodeState, NodeStatus
  <2>6. PICK ch \in [Node -> NodeState] : ch = checked
    BY <2>5
  <2> HIDE DEF checked
  <2>7. \A n \in Node : \/ ch[n].status = st.local[n].status
                        \/ ch[n].status \in Inert /\ st.local[n].status \in Inert
    BY <2>3, <2>4, <2>5, <2>6 DEF Inert
  <2>8. PICK s \in EngineState : s = [st EXCEPT !.phase = "wave", !.local = ch]
    BY DEF EngineState, Phase
  <2>9. /\ s.local = ch /\ s.queue = st.queue /\ s.phase = "wave" /\ s.task = st.task
        /\ Idle(e) /\ s.phase \in Saver /\ eng[e].phase \in Saver
    BY <1>6, <2>8 DEF EngineState, ResumeRun, Saver
  <2>10. Waits(s) /\ Fresh(s) /\ LeftPending(s)
    BY <1>1, <2>9, IdleWaits DEF Fresh, LeftPending, Idle
  <2>11. CASE fence[e] < ckpt.fence
    BY <1>1, <1>2, <2>2, <2>9, <2>11, RefusedKeeps DEF SaveAs
  <2>12. CASE ~(fence[e] < ckpt.fence)
    <3>1. eng' = [eng EXCEPT ![e] = s] /\ ckpt' = [fence |-> fence[e], nodes |-> s.local]
      BY <2>2, <2>6, <2>8, <2>9, <2>12 DEF SaveAs, Become
    <3>2. Newest(e)
      BY <1>2, <2>9, <2>12, TakenIsNewest
    <3> QED
      BY <1>1, <1>2, <2>7, <2>9, <2>10, <3>1, <3>2, CoroutineStep
  <2> QED
    BY <2>11, <2>12
<1> QED
  BY <1>3, <1>4, <1>5, <1>6

-----------------------------------------------------------------------------
(* Reconciliation and rollback                                             *)

\* A node's outcome is read back: an effect is taken for absent only when it is.
LEMMA ReconcileKeeps ==
    ASSUME EffectInv, FenceInv', NEW e \in Engine, NEW n \in Node, Reconcile(e, n)
    PROVE  EffectInv' /\ Placed
<1>1. /\ DagTypeOK /\ Waits(eng[e]) /\ eng[e].phase = "reconcile" /\ eng[e].phase \in Saver
      /\ eng[e].task[n] = "reconciling" /\ eng[e].local[n].status \in Unresolved
      /\ ckpt' = ckpt /\ fence' = fence /\ call' = call
      /\ eng[e] \in EngineState /\ "none" \in Task
  BY DEF EffectInv, FenceInv, DagTypeOK, Shape, Waits, Reconcile, Saver, Task
<1>2. ASSUME Newest(e) PROVE ~Retracted(n)
  <2>1. Tells(n, eng[e].local[n].status)
    BY <1>2 DEF EffectInv, Informed, Knows
  <2> QED
    BY <1>1, <2>1 DEF Tells, Unresolved, RolledBack, UndoOutcome
<1>3. ASSUME NEW status \in NodeStatus, NEW s, Like(s, e, n, status, "none"),
             s.phase = eng[e].phase, s.queue = eng[e].queue, Become(e, s),
             Newest(e) => Tells(n, status)
      PROVE  EffectInv' /\ Placed
  <2>1. Waits(s) /\ Fresh(s) /\ LeftPending(s)
    BY <1>1, <1>3 DEF Like, Waits, Fresh, LeftPending
  <2>2. CallsFade(e, n) /\ eng' = [eng EXCEPT ![e] = s]
    BY <1>1, <1>3 DEF CallsFade, Become
  <2> QED
    BY <1>1, <1>3, <2>1, <2>2, NodeStep
<1>4. ASSUME NEW status \in {"INDETERMINATE", "PENDING"}, Become(e, Moved(e, n, status, "none")),
             status = "PENDING" => ~MayExist(n)
      PROVE  EffectInv' /\ Placed
  <2>1. status \in NodeStatus
    BY DEF NodeStatus
  <2>2. PICK s : /\ s = Moved(e, n, status, "none") /\ Like(s, e, n, status, "none")
                 /\ s.phase = eng[e].phase /\ s.queue = eng[e].queue
    BY <1>1, <2>1, MovedLike
  <2>3. Newest(e) => Tells(n, status)
    BY <1>2, <1>4 DEF Tells, Effectful, RolledBack, UndoOutcome
  <2> QED
    BY <1>3, <1>4, <2>1, <2>2, <2>3
<1>5. ASSUME Committed(n), Become(e, Put(eng[e], n,
                [eng[e].local[n] EXCEPT !.status = "SUCCESS", !.effect = TRUE], "none"))
      PROVE  EffectInv' /\ Placed
  <2>1. PICK old \in NodeState : old = eng[e].local[n]
    BY <1>1 DEF EngineState
  <2>2. PICK ns \in NodeState : ns = [old EXCEPT !.status = "SUCCESS", !.effect = TRUE]
    BY DEF NodeState, NodeStatus
  <2>3. ns.status = "SUCCESS" /\ "SUCCESS" \in NodeStatus
    BY <2>2 DEF NodeState, NodeStatus
  <2>4. PICK s : /\ s = Put(eng[e], n, ns, "none") /\ Like(s, e, n, "SUCCESS", "none")
                 /\ s.phase = eng[e].phase /\ s.queue = eng[e].queue
    BY <1>1, <2>3, PutLike
  <2>5. Newest(e) => Tells(n, "SUCCESS")
    BY <1>2, <1>5 DEF Tells, Effectful, RolledBack, UndoOutcome
  <2> QED
    BY <1>3, <1>5, <2>1, <2>2, <2>3, <2>4, <2>5
<1> QED
  BY <1>4, <1>5 DEF Reconcile, MayExist

\* A compensation is begun for a committed effect, and saved as begun.
LEMMA StartUndoKeeps ==
    ASSUME EffectInv, FenceInv', NEW e \in Engine, NEW n \in Node, StartUndo(e, n)
    PROVE  EffectInv' /\ Placed
<1>1. /\ DagTypeOK /\ FenceInv /\ LeftPending(eng[e]) /\ eng[e].phase = "rollback" /\ eng[e].phase \in Saver
      /\ Idle(e) /\ eng[e].local[n].status = "SUCCESS" /\ n \in Mutating
      /\ fence' = fence /\ call' = call
      /\ {"COMPENSATION_PENDING", "COMPENSATION_UNSAFE"} \subseteq NodeStatus
      /\ {"none", "undoing"} \subseteq Task
  BY NodesAssumption DEF EffectInv, FenceInv, Shape, StartUndo, Saver, LatestCandidate, Candidates,
                         NodeStatus, Task
<1>2. ASSUME Newest(e) PROVE Committed(n) /\ ~MayCommit(n)
  <2>1. Committed(n)
    BY <1>1, <1>2 DEF EffectInv, Informed, Knows, Tells
  <2> QED
    BY <2>1 DEF EffectInv, OneEffectPerNode, Committed, MayCommit, Counted
<1>3. ASSUME NEW status \in {"COMPENSATION_PENDING", "COMPENSATION_UNSAFE"}, NEW t \in {"none", "undoing"}
      PROVE  /\ Like(Moved(e, n, status, t), e, n, status, t)
             /\ Moved(e, n, status, t).phase = "rollback" /\ Moved(e, n, status, t).queue = {}
             /\ status = "COMPENSATION_PENDING" \/ t = "none" => Waits(Moved(e, n, status, t))
             /\ Fresh(Moved(e, n, status, t)) /\ LeftPending(Moved(e, n, status, t))
  <2>1. PICK s : /\ s = Moved(e, n, status, t) /\ Like(s, e, n, status, t)
                 /\ s.phase = eng[e].phase /\ s.queue = eng[e].queue
    BY <1>1, MovedLike
  <2>2. status = "COMPENSATION_PENDING" \/ t = "none" => Waits(s)
    BY <1>1, <2>1 DEF Like, Waits, Idle
  <2>3. Fresh(s) /\ s.phase = "rollback" /\ s.queue = {}
    BY <1>1, <2>1 DEF Fresh, Idle
  <2>4. LeftPending(s)
    <3>1. ASSUME NEW m \in Node, s.local[m].status = "PENDING"
          PROVE  \E d \in DependsOn[m] : s.local[d].status \notin Blocking \cup {"SUCCESS"}
      <4>1. m # n /\ eng[e].local[m].status = "PENDING"
        BY <2>1, <3>1 DEF Like
      <4>2. PICK d \in DependsOn[m] : eng[e].local[d].status \notin Blocking \cup {"SUCCESS"}
        BY <1>1, <4>1 DEF LeftPending
      <4>3. d # n /\ d \in Node
        BY <1>1, <4>2, NodesAssumption
      <4> QED
        BY <2>1, <4>2, <4>3 DEF Like
    <3> QED
      BY <3>1 DEF LeftPending
  <2> QED
    BY <2>1, <2>2, <2>3, <2>4
<1>4. CASE fence[e] < ckpt.fence
  <2>1. PICK m : /\ m = Moved(e, n, "COMPENSATION_PENDING", "none")
                 /\ Like(m, e, n, "COMPENSATION_PENDING", "none") /\ m.queue = {}
    BY <1>3
  <2>2. PICK r : /\ r = Raised(m) /\ r \in EngineState /\ r.phase = "raised" /\ r.local = m.local
                 /\ r.task = m.task /\ r.queue = m.queue
    BY <2>1, RaisedLike DEF Like
  <2>3. /\ Like(r, e, n, "COMPENSATION_PENDING", "none") /\ Fresh(r) /\ LeftPending(r)
        /\ r.phase \in Saver
    BY <2>1, <2>2 DEF Like, Fresh, LeftPending, Saver
  <2>4. Waits(r)
    <3>1. \A m2 \in Node : r.task[m2] = "none"
      BY <1>1, <2>3 DEF Like, Idle
    <3> QED
      BY <2>1, <2>2, <3>1, IdleWaits
  <2>5. ckpt' = ckpt /\ eng' = [eng EXCEPT ![e] = r]
    BY <1>4, <2>1, <2>2 DEF StartUndo, SaveAs, Become
  <2>6. ~Newest(e) /\ CallsFade(e, n)
    BY <1>1, <1>4 DEF Newest, DagTypeOK, CallsFade
  <2> QED
    BY <1>1, <2>3, <2>4, <2>5, <2>6, NodeStep
<1>5. CASE ~(fence[e] < ckpt.fence)
  <2>1. Newest(e)
    BY <1>1, <1>5, TakenIsNewest
  <2>2. CASE SaveAs(e, Moved(e, n, "COMPENSATION_UNSAFE", "none"),
                       Raised(Moved(e, n, "COMPENSATION_PENDING", "none")))
    <3>1. PICK s : /\ s = Moved(e, n, "COMPENSATION_UNSAFE", "none")
                   /\ Like(s, e, n, "COMPENSATION_UNSAFE", "none") /\ s.phase = "rollback"
                   /\ Waits(s) /\ Fresh(s) /\ LeftPending(s)
      BY <1>3
    <3>2. ckpt' = [fence |-> fence[e], nodes |-> s.local] /\ eng' = [eng EXCEPT ![e] = s]
      BY <1>5, <2>2, <3>1 DEF SaveAs, Become
    <3>3. Tells(n, "COMPENSATION_UNSAFE") /\ CallsFade(e, n) /\ s.phase \in Saver
      BY <1>1, <1>2, <2>1, <3>1 DEF Tells, Effectful, RolledBack, UndoOutcome, CallsFade, Saver
    <3>4. "COMPENSATION_UNSAFE" \in NodeStatus /\ eng[e].phase \in Saver /\ fence' = fence
      BY <1>1
    <3>5. PICK status \in NodeStatus : status = "COMPENSATION_UNSAFE"
      BY <3>4
    <3>6. /\ Like(s, e, n, status, "none") /\ Waits(s) /\ Fresh(s) /\ LeftPending(s)
          /\ s.phase \in Saver /\ eng[e].phase \in Saver /\ fence' = fence
          /\ CallsFade(e, n) /\ (Newest(e) => Tells(n, status))
      BY <3>1, <3>3, <3>4, <3>5
    <3> QED
      BY <2>1, <3>2, <3>6, NodeStep
  <2>3. CASE SaveAs(e, Moved(e, n, "COMPENSATION_PENDING", "undoing"),
                       Raised(Moved(e, n, "COMPENSATION_PENDING", "none")))
    <3>1. PICK s : /\ s = Moved(e, n, "COMPENSATION_PENDING", "undoing")
                   /\ Like(s, e, n, "COMPENSATION_PENDING", "undoing") /\ s.phase = "rollback"
                   /\ Waits(s) /\ Fresh(s) /\ LeftPending(s)
      BY <1>3
    <3>2. ckpt' = [fence |-> fence[e], nodes |-> s.local] /\ eng' = [eng EXCEPT ![e] = s]
      BY <1>5, <2>3, <3>1 DEF SaveAs, Become
    <3>3. eng'[e] = s /\ \A f \in Engine \ {e} : eng'[f] = eng[f]
      BY <1>1, <3>2 DEF DagTypeOK
    <3>4. Shape'
      BY <3>1, <3>3, ShapeKept DEF EffectInv
    <3>5. \A f \in Engine, m \in Node :
             /\ eng'[f].task[m] = "undoing" => eng[f].task[m] = "undoing" \/ m = n
             /\ eng'[f].task[m] = "calling" => eng[f].task[m] = "calling"
      BY <3>1, <3>3 DEF Like
    <3>6. ckpt'.fence = ckpt.fence /\ \A f \in Engine : Newest(f)' => Newest(f)
      <4>1. ckpt'.fence = ckpt.fence
        BY <2>1, <3>2 DEF Newest
      <4> QED
        BY <1>1, <3>3, <4>1 DEF Newest
    <3>7. OnlyMutatingCalls' /\ OneEffectPerNode' /\ CallsAlone'
      <4>1. OnlyMutatingCalls /\ OneEffectPerNode /\ CallsAlone
        BY DEF EffectInv
      <4> QED
        BY <1>1, <3>5, <3>6, <4>1, CallsKept
    <3>8. ASSUME NEW m \in Node PROVE Tells(m, eng[e].local[m].status)'
      <4>1. /\ (MayCommit(m)' <=> MayCommit(m)) /\ (MayExist(m)' <=> MayExist(m))
            /\ (Committed(m)' <=> Committed(m))
        BY <1>1 DEF MayCommit, MayExist, Committed
      <4>2. CASE m = n
        <5>1. eng'[e].local[m].status = "COMPENSATION_PENDING"
          BY <3>1, <3>3, <4>2 DEF Like
        <5>2. Tells(m, "COMPENSATION_PENDING")'
          BY <1>2, <2>1, <4>1, <4>2 DEF Tells, Effectful, RolledBack, UndoOutcome
        <5> QED
          BY <5>1, <5>2
      <4>3. CASE m # n
        <5>1. eng'[e].local[m] = eng[e].local[m]
          BY <3>1, <3>3, <4>3 DEF Like
        <5>2. Tells(m, eng[e].local[m].status)
          BY <2>1 DEF EffectInv, Informed, Knows
        <5>3. Retracted(m)' => Retracted(m)
          BY <1>1, <3>5, <4>3 DEF Retracted
        <5> QED
          BY <4>1, <5>1, <5>2, <5>3, TellsKept
      <4> QED
        BY <4>2, <4>3
    <3>9. Informed'
      BY <1>1, <2>1, <3>2, <3>3, <3>6, <3>8, SavedInformed DEF Newest, FenceInv, SaversFenced
    <3>10. Placed
      BY <1>1, <1>2, <2>1, <3>5 DEF Placed
    <3> QED
      BY <3>4, <3>7, <3>9, <3>10 DEF EffectInv
  <2> QED
    BY <2>2, <2>3 DEF StartUndo
<1> QED
  BY <1>4, <1>5

\* A compensation that is reported as done has left nothing to undo.
LEMMA FinishUndoKeeps ==
    ASSUME EffectInv, FenceInv', NEW e \in Engine, NEW n \in Node, FinishUndo(e, n)
    PROVE  EffectInv' /\ Placed
<1>1. PICK outcome \in UndoOutcome, undone \in BOOLEAN :
         /\ outcome = "COMPENSATED" => undone
         /\ call' = [f \in Engine |-> [m \in Node |->
               IF undone /\ m = n /\ call[f][m] = "committed" THEN "undone" ELSE call[f][m]]]
         /\ SaveAs(e, Moved(e, n, outcome, "none"), Raised(Moved(e, n, outcome, "none")))
  BY DEF FinishUndo
<1>2. /\ DagTypeOK /\ FenceInv /\ LeftPending(eng[e]) /\ eng[e].phase = "rollback" /\ eng[e].phase \in Saver
      /\ eng[e].task[n] = "undoing" /\ eng[e].local[n].status = "COMPENSATION_PENDING"
      /\ \A m \in Node \ {n} : eng[e].task[m] = "none"
      /\ eng[e].queue = {} /\ fence' = fence
      /\ outcome \in NodeStatus /\ "none" \in Task
  <2>1. Waits(eng[e]) /\ eng[e].phase = "rollback" /\ eng[e].task[n] = "undoing" /\ fence' = fence
    BY DEF EffectInv, Shape, FinishUndo
  <2>2. eng[e].queue \in SUBSET Node
    BY DEF EffectInv, FenceInv, DagTypeOK, EngineState
  <2> QED
    BY <2>1, <2>2 DEF EffectInv, FenceInv, Shape, Waits, Saver, NodeStatus, UndoOutcome, Task
<1>3. CallsFade(e, n)
  BY <1>1, <1>2 DEF CallsFade
<1>4. PICK s : /\ s = Moved(e, n, outcome, "none") /\ Like(s, e, n, outcome, "none")
               /\ s.phase = "rollback" /\ s.queue = {}
  BY <1>2, MovedLike
<1>5. \A m \in Node : s.task[m] = "none"
  BY <1>2, <1>4 DEF Like
<1>6. CASE fence[e] < ckpt.fence
  <2>1. PICK r : /\ r = Raised(s) /\ r \in EngineState /\ r.phase = "raised" /\ r.local = s.local
                 /\ r.task = s.task /\ r.queue = s.queue
    BY <1>4, RaisedLike DEF Like
  <2>2. Like(r, e, n, outcome, "none") /\ Fresh(r) /\ LeftPending(r) /\ r.phase \in Saver
    BY <1>4, <2>1 DEF Like, Fresh, LeftPending, Saver
  <2>3. Waits(r)
    BY <1>4, <1>5, <2>1, IdleWaits
  <2>4. ckpt' = ckpt /\ eng' = [eng EXCEPT ![e] = r] /\ ~Newest(e)
    BY <1>1, <1>2, <1>4, <1>6, <2>1 DEF SaveAs, Become, Newest, DagTypeOK
  <2> QED
    BY <1>2, <1>3, <2>2, <2>3, <2>4, NodeStep
<1>7. CASE ~(fence[e] < ckpt.fence)
  <2>1. Newest(e) /\ s.phase \in Saver
    BY <1>2, <1>4, <1>7, TakenIsNewest DEF Saver
  <2>2. Waits(s) /\ Fresh(s)
    BY <1>4, <1>5, IdleWaits DEF Fresh
  <2>3. LeftPending(s)
    <3>1. ASSUME NEW m \in Node, s.local[m].status = "PENDING"
          PROVE  \E d \in DependsOn[m] : s.local[d].status \notin Blocking \cup {"SUCCESS"}
      <4>1. m # n /\ eng[e].local[m].status = "PENDING"
        BY <1>4, <3>1 DEF Like, UndoOutcome
      <4>2. PICK d \in DependsOn[m] : eng[e].local[d].status \notin Blocking \cup {"SUCCESS"}
        BY <1>2, <4>1 DEF LeftPending
      <4>3. d \in Node /\ (s.local[d] = eng[e].local[d] \/ s.local[d].status = outcome)
        BY <1>4, <4>2, NodesAssumption DEF Like
      <4> QED
        BY <4>2, <4>3 DEF UndoOutcome, Blocking
    <3> QED
      BY <3>1 DEF LeftPending
  <2>4. ckpt' = [fence |-> fence[e], nodes |-> s.local] /\ eng' = [eng EXCEPT ![e] = s]
    BY <1>1, <1>4, <1>7 DEF SaveAs, Become
  <2>5. Tells(n, outcome)'
    <3>1. ~MayCommit(n)
      BY <1>2, <2>1 DEF EffectInv, Informed, Knows, Tells, RolledBack
    <3>2. ~MayCommit(n)' /\ (outcome = "COMPENSATED" => ~MayExist(n)')
      BY <1>1, <3>1 DEF MayCommit, MayExist, Committed
    <3> QED
      BY <3>2 DEF Tells, RolledBack, UndoOutcome, Effectful
  <2> QED
    BY <1>2, <1>3, <1>4, <2>1, <2>2, <2>3, <2>4, <2>5, NodeStep
<1> QED
  BY <1>6, <1>7

-----------------------------------------------------------------------------
(* The first checkpoint, takeovers and the provider                        *)

\* Before the first checkpoint nothing was called; a takeover starts from
\* what is stored, which knows.
LEMMA BeginKeeps ==
    ASSUME EffectInv, FenceInv', NEW e \in Engine, Create(e) \/ AcquireLease(e)
    PROVE  EffectInv' /\ Placed
<1>1. /\ DagTypeOK /\ FenceInv /\ eng[e] \in EngineState /\ call' = call
      /\ eng[e].phase \in {"idle", "admitting"} /\ Fresh(eng[e])
      /\ eng[e].queue = {} /\ eng[e].local = FreshNodes
      /\ ckpt.nodes \in [Node -> NodeState]
  BY DEF EffectInv, FenceInv, DagTypeOK, Shape, Create, AcquireLease, Fresh
<1>2. PICK s \in EngineState :
         /\ eng' = [eng EXCEPT ![e] = s] /\ s.local = ckpt.nodes /\ ckpt'.nodes = ckpt.nodes
         /\ s.phase \in {"wave", "reconcile"} /\ s.queue = {}
         /\ fence'[e] = ckpt'.fence /\ ckpt'.fence # 0
         /\ \A n \in Node : \/ s.task[n] = "none"
                            \/ /\ s.task[n] = "reconciling" /\ s.phase = "reconcile"
                               /\ ckpt.nodes[n].status \in Unresolved
  <2>1. CASE Create(e)
    <3>1. PICK s \in EngineState : s = [eng[e] EXCEPT !.phase = "wave"]
      BY <1>1 DEF EngineState, Phase
    <3>2. s.phase = "wave" /\ s.local = eng[e].local /\ s.task = eng[e].task /\ s.queue = eng[e].queue
      BY <1>1, <3>1 DEF EngineState
    <3>3. ckpt.nodes = FreshNodes /\ ckpt' = [fence |-> 1, nodes |-> FreshNodes]
          /\ fence' = [fence EXCEPT ![e] = 1] /\ eng' = [eng EXCEPT ![e] = s]
      BY <1>1, <2>1, <3>1 DEF Create, Become, FenceInv, NothingStored
    <3>4. fence'[e] = 1 /\ ckpt'.fence = 1 /\ ckpt'.nodes = ckpt.nodes
      BY <1>1, <3>3 DEF DagTypeOK
    <3>5. s.local = ckpt.nodes /\ s.queue = {} /\ \A n \in Node : s.task[n] = "none"
      BY <1>1, <3>2, <3>3 DEF Fresh
    <3>6. /\ eng' = [eng EXCEPT ![e] = s] /\ s.local = ckpt.nodes /\ ckpt'.nodes = ckpt.nodes
          /\ s.phase \in {"wave", "reconcile"} /\ s.queue = {}
          /\ fence'[e] = ckpt'.fence /\ ckpt'.fence # 0
      BY <3>2, <3>3, <3>4, <3>5
    <3> QED
      BY <3>5, <3>6
  <2>2. CASE AcquireLease(e)
    <3>1. PICK t \in [Node -> Task] :
             t = [n \in Node |-> IF ckpt.nodes[n].status \in Unresolved THEN "reconciling" ELSE "none"]
      BY DEF Task
    <3>2. PICK w \in [Node -> NodeState] : w = ckpt.nodes
      BY <1>1
    <3>3. PICK s \in EngineState : s = [eng[e] EXCEPT !.phase = "reconcile", !.local = w, !.task = t]
      BY <1>1 DEF EngineState, Phase
    <3>4. s.phase = "reconcile" /\ s.local = w /\ s.task = t /\ s.queue = eng[e].queue
      BY <1>1, <3>3 DEF EngineState
    <3>5. PICK k \in Nat : k = ckpt.fence + 1 /\ k # 0
      BY <1>1 DEF DagTypeOK
    <3>6. ckpt' = [fence |-> k, nodes |-> w] /\ fence' = [fence EXCEPT ![e] = k]
          /\ eng' = [eng EXCEPT ![e] = s]
      BY <2>2, <3>1, <3>2, <3>3, <3>5 DEF AcquireLease, Become
    <3>7. fence'[e] = k
      BY <1>1, <3>6 DEF DagTypeOK
    <3> QED
      BY <1>1, <3>1, <3>2, <3>4, <3>5, <3>6, <3>7
  <2> QED
    BY <2>1, <2>2
<1>3. eng'[e] = s /\ \A f \in Engine \ {e} : eng'[f] = eng[f]
  BY <1>1, <1>2 DEF DagTypeOK
<1>4. Waits(s) /\ Fresh(s) /\ LeftPending(s)
  BY <1>2 DEF Waits, Fresh, LeftPending
<1>5. Shape'
  BY <1>3, <1>4, ShapeKept DEF EffectInv
<1>6. \A f \in Engine, m \in Node :
         /\ eng'[f].task[m] = "undoing" => eng[f].task[m] = "undoing"
         /\ eng'[f].task[m] = "calling" => eng[f].task[m] = "calling" /\ f # e
  BY <1>2, <1>3
<1>7. \A f \in Engine : Newest(f)' => f = e
  BY <1>2 DEF Newest, FenceInv, FencesDistinct
<1>8. OnlyMutatingCalls' /\ OneEffectPerNode' /\ CallsAlone'
  <2>1. OnlyMutatingCalls /\ OneEffectPerNode /\ CallsAlone
    BY DEF EffectInv
  <2> QED
    BY <1>1, <1>6, <1>7, <2>1, CallsKept
<1>9. ASSUME NEW m \in Node PROVE Tells(m, eng[e].local[m].status)'
  <2>1. Tells(m, ckpt.nodes[m].status) /\ eng'[e].local[m].status = ckpt.nodes[m].status
    BY <1>2, <1>3 DEF EffectInv, Informed, Knows
  <2>2. /\ (MayCommit(m)' <=> MayCommit(m)) /\ (MayExist(m)' <=> MayExist(m))
        /\ (Committed(m)' <=> Committed(m)) /\ (Retracted(m)' => Retracted(m))
    BY <1>1, <1>6 DEF MayCommit, MayExist, Committed, Retracted
  <2> QED
    BY <2>1, <2>2, TellsKept
<1>10. Informed'
  BY <1>2, <1>3, <1>9, SavedInformed
<1>11. Placed
  BY <1>1, <1>6 DEF Placed
<1> QED
  BY <1>5, <1>8, <1>10, <1>11 DEF EffectInv

\* What a provider does with a call was to be expected.
LEMMA ProviderKeeps ==
    ASSUME EffectInv, FenceInv', NEW e \in Engine, NEW n \in Node, ProviderCommit(e, n)
    PROVE  EffectInv' /\ Placed
<1>1. PICK fate \in {"committed", "lost"} : call' = [call EXCEPT ![e][n] = fate]
  BY DEF ProviderCommit
<1>2. /\ call \in [Engine -> [Node -> CallState]] /\ call[e][n] = "sent"
      /\ ckpt' = ckpt /\ eng' = eng /\ fence' = fence
  BY DEF ProviderCommit, EffectInv, FenceInv, DagTypeOK
<1>3. \A f \in Engine, m \in Node : \/ call'[f][m] = call[f][m]
                                    \/ call[f][m] = "sent" /\ call'[f][m] \in {"committed", "lost"}
  BY <1>1, <1>2
<1>4. OnlyMutatingCalls' /\ OneEffectPerNode' /\ CallsAlone'
  <2>1. OnlyMutatingCalls /\ OneEffectPerNode /\ CallsAlone
    BY DEF EffectInv
  <2>2. \A f \in Engine : Newest(f)' <=> Newest(f)
    BY <1>2 DEF Newest
  <2> QED
    BY <1>2, <1>3, <2>1, <2>2, CallsKept DEF Counted
<1>5. ASSUME NEW m \in Node, NEW s \in NodeStatus, Tells(m, s) PROVE Tells(m, s)'
  <2>1. /\ MayCommit(m)' => MayCommit(m)
        /\ MayExist(m)' => MayExist(m)
        /\ Committed(m) => Committed(m)'
        /\ Retracted(m)' => Retracted(m)
    BY <1>2, <1>3 DEF MayCommit, MayExist, Committed, Retracted
  <2> QED
    BY <1>5, <2>1, TellsKept
<1>6. Informed'
  <2>1. ASSUME Newest(e)' PROVE \A m \in Node : Tells(m, eng[e].local[m].status)'
    <3>1. \A m \in Node : eng[e].local[m].status \in NodeStatus
      BY DEF EffectInv, FenceInv, DagTypeOK, EngineState, NodeState
    <3> QED
      BY <1>2, <1>5, <2>1, <3>1 DEF EffectInv, Informed, Knows, Newest
  <2> QED
    BY <1>2, <1>5, <2>1, QuietInformed DEF EffectInv
<1>7. Shape' /\ Placed
  BY <1>2, <1>3 DEF EffectInv, Shape, Waits, Fresh, LeftPending, Placed
<1> QED
  BY <1>4, <1>6, <1>7 DEF EffectInv

-----------------------------------------------------------------------------
(* The theorems                                                            *)

\* Every step keeps the invariant, and adds only what is in its place.
LEMMA EffectStep ==
    ASSUME EffectInv, [Next]_vars
    PROVE  EffectInv' /\ Placed
<1>1. FenceInv'
  BY FenceStep DEF EffectInv
<1>2. CASE UNCHANGED vars
  <2>1. ckpt' = ckpt /\ fence' = fence /\ eng' = eng /\ call' = call
    BY <1>2 DEF vars
  <2> QED
    BY <1>1, <2>1 DEF EffectInv, Shape, Waits, Fresh, LeftPending, OnlyMutatingCalls, OneEffectPerNode,
                 CallsAlone, Newest, Informed, Knows, Tells, Retracted, MayExist, MayCommit, Committed,
                 Placed
<1>3. CASE Next
  <2>1. PICK e \in Engine : \/ CheckApproval(e) \/ AcquireLease(e) \/ Step(e) \/ Crash(e)
                            \/ \E n \in Node : ProviderCommit(e, n)
    BY <1>3 DEF Next
  <2>2. CASE CheckApproval(e) \/ ResumeRun(e) \/ Report(e) \/ Crash(e)
    BY <1>1, <2>2, CoroutineKeeps
  <2>3. CASE Create(e) \/ AcquireLease(e)
    BY <1>1, <2>3, BeginKeeps
  <2>4. CASE NextWave(e)
    BY <1>1, <2>4, WaveKeeps
  <2>5. ASSUME NEW n \in Node, \/ StartTask(e, n) \/ TakeLock(e, n) \/ Succeed(e, n) \/ Fail(e, n)
                               \/ LoseTrack(e, n) \/ Break(e, n)
        PROVE  EffectInv' /\ Placed
    BY <1>1, <2>5, TaskKeeps
  <2>6. ASSUME NEW n \in Node, Reconcile(e, n) \/ StartUndo(e, n) \/ FinishUndo(e, n)
        PROVE  EffectInv' /\ Placed
    BY <1>1, <2>6, ReconcileKeeps, StartUndoKeeps, FinishUndoKeeps
  <2>7. ASSUME NEW n \in Node, ProviderCommit(e, n) PROVE EffectInv' /\ Placed
    BY <1>1, <2>7, ProviderKeeps
  <2> QED
    BY <2>1, <2>2, <2>3, <2>4, <2>5, <2>6, <2>7 DEF Step
<1> QED
  BY <1>2, <1>3

\* Before the first step there is nothing to know.
LEMMA EffectInit == Init => EffectInv
<1> SUFFICES ASSUME Init PROVE EffectInv
  OBVIOUS
<1>1. \A e \in Engine : /\ eng[e].phase = "idle" /\ eng[e].local = FreshNodes /\ eng[e].queue = {}
                        /\ \A n \in Node : eng[e].task[n] = "none" /\ call[e][n] = "none"
  BY DEF Init, IdleEngine
<1>2. Shape
  BY <1>1, IdleWaits DEF Shape, Fresh, LeftPending
<1>3. OnlyMutatingCalls /\ OneEffectPerNode /\ CallsAlone
  BY <1>1, NodesAssumption DEF OnlyMutatingCalls, OneEffectPerNode, CallsAlone, Counted
<1>4. Informed
  <2>1. \A n \in Node : ckpt.nodes[n].status = "PENDING"
    BY DEF Init, FreshNodes, FreshNode
  <2>2. ASSUME NEW n \in Node PROVE Tells(n, "PENDING")
    BY <1>1 DEF Tells, Retracted, MayExist, Committed, MayCommit, RolledBack, UndoOutcome
  <2>3. \A e \in Engine : ~Newest(e)
    BY <1>1 DEF Newest, Saver
  <2> QED
    BY <2>1, <2>2, <2>3 DEF Informed, Knows
<1> QED
  BY <1>2, <1>3, <1>4, FenceInit DEF EffectInv

\* The invariant of the executions.
LEMMA EffectInvariant == Spec => []EffectInv
<1>1. EffectInv /\ [Next]_vars => EffectInv'
  BY EffectStep
<1> QED
  BY <1>1, EffectInit, PTL DEF Spec

\* A report of the newest engine says what it knows.
LEMMA ReportKnows ==
    ASSUME EffectInv
    PROVE  ReportIsTrue
<1> SUFFICES ASSUME NEW e \in Engine, eng[e].phase = "done", fence[e] = ckpt.fence
             PROVE  LET nodes == eng[e].local
                    IN  /\ \A n \in Node : nodes[n].status \notin Effectful => ~Committed(n) /\ ~MayCommit(n)
                        /\ Verdict(e) = "COMPLETED" => \A n \in Mutating : Committed(n)
                        /\ \A n \in Node : nodes[n].status = "PENDING" =>
                              \E d \in DependsOn[n] : nodes[d].status \notin Blocking \cup {"SUCCESS"}
  BY DEF ReportIsTrue
<1>1. \A n \in Node : Tells(n, eng[e].local[n].status)
  BY DEF EffectInv, Informed, Knows, Newest, Saver
<1>2. \A n \in Node : eng[e].local[n].status \notin Effectful => ~Committed(n) /\ ~MayCommit(n)
  BY <1>1 DEF Tells, MayExist
<1>3. ASSUME Verdict(e) = "COMPLETED" PROVE \A n \in Mutating : Committed(n)
  <2>1. \A n \in Node : eng[e].local[n].status = "SUCCESS"
    <3> DEFINE nodes == eng[e].local
               has(status) == \E n \in Node : nodes[n].status = status
               aborted == eng[e].aborted /\ \A n \in Node : nodes[n].status # "SUCCESS"
    <3>1. PlanStatus(nodes, aborted) = "COMPLETED"
      BY <1>3 DEF Verdict
    <3>2. CASE has("DEAD_LETTER") \/ has("INDETERMINATE")
      BY <3>1, <3>2 DEF PlanStatus
    <3>3. CASE ~has("DEAD_LETTER") /\ ~has("INDETERMINATE")
      BY <3>1, <3>3 DEF PlanStatus
    <3> QED
      BY <3>2, <3>3
  <2> QED
    BY <1>1, <2>1, NodesAssumption DEF Tells
<1>4. \A n \in Node : eng[e].local[n].status = "PENDING" =>
         \E d \in DependsOn[n] : eng[e].local[d].status \notin Blocking \cup {"SUCCESS"}
  BY DEF EffectInv, Shape, LeftPending
<1> QED
  BY <1>2, <1>3, <1>4

\* For every plan, any number of engines, and any crashes, takeovers and lost
\* calls: the stored states deny no effect that exists or may come to exist, a
\* node takes effect once, and the newest report agrees with the effects.
THEOREM EffectsKnown == Spec => []EffectsAccounted
<1>1. EffectInv => EffectsAccounted
  <2> SUFFICES ASSUME EffectInv PROVE EffectsAccounted
    OBVIOUS
  <2>1. DagTypeOK /\ OneEffectPerNode
    BY DEF EffectInv, FenceInv
  <2>2. NoHiddenEffect
    BY DEF EffectInv, Informed, Knows, Tells, MayExist, NoHiddenEffect
  <2>3. ReportIsTrue
    BY ReportKnows
  <2> QED
    BY <2>1, <2>2, <2>3 DEF EffectsAccounted
<1> QED
  BY <1>1, EffectInvariant, PTL

\* How a step may change the calls of a node.
Sends(e, n) == call' = [call EXCEPT ![e][n] = "sent"]
Loses(e, n) == call[e][n] \notin {"committed", "undone"} /\ call' = [call EXCEPT ![e][n] = "lost"]
Commits(e, n) == call[e][n] = "sent" /\ call' = [call EXCEPT ![e][n] = "committed"]
Retracts(n) ==
    call' = [f \in Engine |-> [m \in Node |->
                IF m = n /\ call[f][m] = "committed" THEN "undone" ELSE call[f][m]]]

\* There are no other changes of calls.
LEMMA CallMoves ==
    ASSUME DagTypeOK, [Next]_vars
    PROVE  \/ call' = call
           \/ \E e \in Engine, n \in Node :
                 Sends(e, n) \/ Loses(e, n) \/ Commits(e, n) \/ Retracts(n)
<1> DEFINE Moves == \/ call' = call
                    \/ \E e \in Engine, n \in Node :
                          Sends(e, n) \/ Loses(e, n) \/ Commits(e, n) \/ Retracts(n)
<1>1. ASSUME UNCHANGED vars PROVE Moves
  BY <1>1 DEF vars
<1>2. ASSUME NEW e \in Engine,
             \/ CheckApproval(e) \/ AcquireLease(e) \/ Create(e) \/ ResumeRun(e) \/ NextWave(e)
             \/ Report(e) \/ Crash(e)
      PROVE  Moves
  BY <1>2 DEF CheckApproval, AcquireLease, Create, ResumeRun, NextWave, Report, Crash
<1>3. ASSUME NEW e \in Engine, NEW n \in Node, NEW q, Execute(e, n, q) PROVE Moves
  BY <1>3 DEF Execute, Sends
<1>4. ASSUME NEW e \in Engine, NEW n \in Node,
             \/ Reconcile(e, n) \/ StartTask(e, n) \/ TakeLock(e, n) \/ Succeed(e, n) \/ LoseTrack(e, n)
             \/ Break(e, n) \/ StartUndo(e, n)
      PROVE  Moves
  <2>1. CASE StartTask(e, n) \/ TakeLock(e, n)
    BY <1>3, <2>1 DEF StartTask, TakeLock
  <2>2. CASE Reconcile(e, n) \/ Succeed(e, n) \/ LoseTrack(e, n) \/ Break(e, n) \/ StartUndo(e, n)
    BY <2>2 DEF Reconcile, Succeed, LoseTrack, Break, StartUndo
  <2> QED
    BY <1>4, <2>1, <2>2
<1>5. ASSUME NEW e \in Engine, NEW n \in Node, Fail(e, n) PROVE Moves
  BY <1>5 DEF Fail, Loses
<1>6. ASSUME NEW e \in Engine, NEW n \in Node, FinishUndo(e, n) PROVE Moves
  <2>1. PICK undone \in BOOLEAN : call' = [f \in Engine |-> [m \in Node |->
                IF undone /\ m = n /\ call[f][m] = "committed" THEN "undone" ELSE call[f][m]]]
    BY <1>6 DEF FinishUndo
  <2>2. CASE undone
    BY <2>1, <2>2 DEF Retracts
  <2>3. CASE ~undone
    BY <2>1, <2>3 DEF DagTypeOK
  <2> QED
    BY <2>2, <2>3
<1>7. ASSUME NEW e \in Engine, NEW n \in Node, ProviderCommit(e, n) PROVE Moves
  BY <1>7 DEF ProviderCommit, Loses, Commits
<1> HIDE DEF Moves
<1>8. Moves
  <2>1. CASE Next
    <3>1. PICK e \in Engine : \/ CheckApproval(e) \/ AcquireLease(e) \/ Step(e) \/ Crash(e)
                              \/ \E n \in Node : ProviderCommit(e, n)
      BY <2>1 DEF Next
    <3> QED
      BY <1>2, <1>4, <1>5, <1>6, <1>7, <3>1 DEF Step
  <2> QED
    BY <1>1, <2>1
<1> QED
  BY <1>8 DEF Moves

\* The ways of one effect, as EffectOnce has them.
EffectMoves(n) ==
    \/ /\ EffectOf(n) = "none" /\ EffectOf(n)' = "open"
       /\ \A d \in DependsOn[n] \cap Mutating : EffectOf(d) = "done"
    \/ EffectOf(n) = "open" /\ EffectOf(n)' \in {"done", "none"}
    \/ EffectOf(n) = "done" /\ EffectOf(n)' = "undone"
    \/ EffectOf(n)' = EffectOf(n)

\* A step changes the effect of one node, in one of these ways.
LEMMA OneEffectMoves ==
    ASSUME EffectInv, [Next]_vars
    PROVE  \/ \A n \in Node : EffectOf(n)' = EffectOf(n)
           \/ \E n \in Node : /\ EffectMoves(n)
                              /\ \A m \in Node \ {n} : EffectOf(m)' = EffectOf(m)
<1>1. call \in [Engine -> [Node -> CallState]] /\ DagTypeOK /\ OneEffectPerNode
  BY DEF EffectInv, FenceInv, DagTypeOK
<1>2. ASSUME NEW m \in Node, \A f \in Engine : call'[f][m] = call[f][m]
      PROVE  EffectOf(m)' = EffectOf(m)
  BY <1>2 DEF EffectOf, Committed, MayCommit
<1>3. CASE call' = call
  BY <1>2, <1>3
<1>4. ASSUME NEW e \in Engine, NEW n \in Node,
             Sends(e, n) \/ Loses(e, n) \/ Commits(e, n) \/ Retracts(n)
      PROVE  EffectMoves(n) /\ \A m \in Node \ {n} : EffectOf(m)' = EffectOf(m)
  <2>1. \A m \in Node \ {n}, f \in Engine : call'[f][m] = call[f][m]
    BY <1>1, <1>4 DEF Sends, Loses, Commits, Retracts
  <2> SUFFICES EffectMoves(n)
    BY <1>2, <2>1
  <2>2. CASE Sends(e, n)
    <3>1. call'[e][n] = "sent" /\ \A f \in Engine \ {e} : call'[f][n] = call[f][n]
      BY <1>1, <2>2 DEF Sends
    <3>2. CASE call[e][n] = "sent"
      <4>1. EffectOf(n)' = EffectOf(n)
        BY <1>2, <3>1, <3>2
      <4> QED
        BY <4>1 DEF EffectMoves
    <3>3. CASE call[e][n] # "sent"
      <4>1. /\ \A f \in Engine : call[f][n] \notin Counted
            /\ \A d \in DependsOn[n] \cap Mutating : Committed(d)
        BY <3>1, <3>3, EffectStep DEF Placed
      <4>2. EffectOf(n) = "none" /\ EffectOf(n)' = "open"
        BY <3>1, <4>1 DEF EffectOf, Committed, MayCommit, Counted
      <4>3. \A d \in DependsOn[n] \cap Mutating : EffectOf(d) = "done"
        BY <4>1 DEF EffectOf
      <4> QED
        BY <4>2, <4>3 DEF EffectMoves
    <3> QED
      BY <3>2, <3>3
  <2>3. ASSUME Loses(e, n) \/ Commits(e, n)
        PROVE  /\ \A f \in Engine \ {e} : call'[f][n] = call[f][n]
               /\ \/ call'[e][n] = "lost" /\ call[e][n] \notin {"committed", "undone"}
                  \/ call'[e][n] = "committed" /\ call[e][n] = "sent"
    BY <1>1, <2>3 DEF Loses, Commits
  <2>4. CASE (Loses(e, n) \/ Commits(e, n)) /\ call[e][n] = "sent"
    <3>1. \A f \in Engine \ {e} : call[f][n] \notin Counted /\ call'[f][n] \notin Counted
      BY <1>1, <2>3, <2>4 DEF OneEffectPerNode, Counted
    <3>2. EffectOf(n) = "open" /\ EffectOf(n)' \in {"done", "none"}
      BY <2>3, <2>4, <3>1 DEF EffectOf, Committed, MayCommit, Counted
    <3> QED
      BY <3>2 DEF EffectMoves
  <2>5. CASE Loses(e, n) /\ call[e][n] # "sent"
    <3>1. EffectOf(n)' = EffectOf(n)
      BY <2>3, <2>5 DEF EffectOf, Committed, MayCommit
    <3> QED
      BY <3>1 DEF EffectMoves
  <2>6. CASE Retracts(n)
    <3>1. \A f \in Engine : call'[f][n] = IF call[f][n] = "committed" THEN "undone" ELSE call[f][n]
      BY <2>6 DEF Retracts
    <3>2. CASE Committed(n)
      <4>1. PICK f \in Engine : call[f][n] = "committed"
        BY <3>2 DEF Committed
      <4>2. \A g \in Engine \ {f} : call[g][n] \notin Counted
        BY <1>1, <4>1 DEF OneEffectPerNode, Counted
      <4>3. EffectOf(n) = "done" /\ EffectOf(n)' = "undone"
        BY <3>1, <4>1, <4>2 DEF EffectOf, Committed, MayCommit, Counted
      <4> QED
        BY <4>3 DEF EffectMoves
    <3>3. CASE ~Committed(n)
      <4>1. EffectOf(n)' = EffectOf(n)
        BY <1>2, <3>1, <3>3 DEF Committed
      <4> QED
        BY <4>1 DEF EffectMoves
    <3> QED
      BY <3>2, <3>3
  <2> QED
    BY <1>4, <2>2, <2>4, <2>5, <2>6 DEF Commits
<1> QED
  BY <1>1, <1>3, <1>4, CallMoves

\* Every step is one of EffectOnce, or changes no effect.
LEMMA EffectOnceStep ==
    ASSUME EffectInv, [Next]_vars
    PROVE  [Effects!EffectNext]_[n \in Node |-> EffectOf(n)]
<1> DEFINE effect == [n \in Node |-> EffectOf(n)]
<1>1. effect' = [n \in Node |-> EffectOf(n)']
  OBVIOUS
<1>2. CASE \A n \in Node : EffectOf(n)' = EffectOf(n)
  BY <1>1, <1>2
<1>3. ASSUME NEW n \in Node, EffectMoves(n), EffectOf(n)' # EffectOf(n),
             \A m \in Node \ {n} : EffectOf(m)' = EffectOf(m)
      PROVE  Effects!Attempt(n) \/ Effects!Settle(n) \/ Effects!Undo(n)
  <2>1. effect' = [effect EXCEPT ![n] = EffectOf(n)'] /\ \A m \in Node : effect[m] = EffectOf(m)
    <3>1. PICK new : new = [m \in Node |-> EffectOf(m)'] /\ new = effect'
      BY <1>1
    <3>2. PICK old : old = [m \in Node |-> EffectOf(m)] /\ old = effect
      OBVIOUS
    <3>3. \A m \in Node : new[m] = EffectOf(m)' /\ old[m] = EffectOf(m)
      BY <3>1, <3>2
    <3>4. new = [old EXCEPT ![n] = EffectOf(n)']
      BY <1>3, <3>1, <3>2, <3>3
    <3> QED
      BY <3>1, <3>2, <3>3, <3>4
  <2>2. CASE EffectOf(n) = "none"
    <3>1. /\ EffectOf(n)' = "open" /\ \A d \in DependsOn[n] \cap Mutating : EffectOf(d) = "done"
          /\ DependsOn[n] \cap Mutating \subseteq Node
      BY <1>3, <2>2, NodesAssumption DEF EffectMoves
    <3>2. /\ effect[n] = "none" /\ effect' = [effect EXCEPT ![n] = "open"]
          /\ \A d \in [m \in Node |-> DependsOn[m] \cap Mutating][n] : effect[d] = "done"
      BY <2>1, <2>2, <3>1
    <3> QED
      BY <3>2 DEF Effects!Attempt
  <2>3. CASE EffectOf(n) = "open"
    BY <1>3, <2>1, <2>3 DEF EffectMoves, Effects!Settle
  <2>4. CASE EffectOf(n) = "done"
    BY <1>3, <2>1, <2>4 DEF EffectMoves, Effects!Undo
  <2> QED
    BY <1>3, <2>2, <2>3, <2>4 DEF EffectMoves
<1>4. CASE \E n \in Node : EffectMoves(n) /\ \A m \in Node \ {n} : EffectOf(m)' = EffectOf(m)
  BY <1>2, <1>3, <1>4 DEF Effects!EffectNext
<1> QED
  BY <1>2, <1>4, OneEffectMoves

\* For every plan, any number of engines and any crashes and takeovers: each effect
\* is brought about as EffectOnce says, a mutating call leaves an engine only when the
\* effects it depends on are in place, and only an effect that exists is compensated.
THEOREM EffectsPlaced == Spec => EffectsInPlace
<1> DEFINE effect == [n \in Node |-> EffectOf(n)]
           Undoes == \A e \in Engine, n \in Node :
                        eng[e].task[n] # "undoing" /\ eng'[e].task[n] = "undoing" => Committed(n)
<1>1. Init => Effects!EffectInit
  <2> SUFFICES ASSUME Init PROVE \A n \in Node : EffectOf(n) = "none"
    BY DEF Effects!EffectInit
  <2> QED
    BY DEF Init, EffectOf, Committed, MayCommit
<1>2. EffectInv /\ [Next]_vars => [Effects!EffectNext]_effect
  BY EffectOnceStep
<1>3. EffectInv /\ [Next]_vars => Undoes
  BY EffectStep DEF Placed
<1>4. Spec => Effects!EffectInit /\ [][Effects!EffectNext]_effect /\ [][Undoes]_vars
  <2> HIDE DEF effect, Undoes
  <2> QED
    BY <1>1, <1>2, <1>3, EffectInvariant, PTL DEF Spec
<1> QED
  BY <1>4, PTL DEF EffectsInPlace, ImplementsEffects, Effects!EffectSpec, UndoesWhatExists

\* For every plan: mutating calls of an engine about one resource never overlap.
THEOREM ResourcesSerial == Spec => []ResourceSerial
<1>1. ResourceSerial /\ EffectInv /\ [Next]_vars => ResourceSerial'
  <2> SUFFICES ASSUME ResourceSerial, EffectInv, [Next]_vars,
                      NEW n \in Mutating, NEW m \in Mutating, NEW e \in Engine,
                      ResourceOf[n] = ResourceOf[m], ResourceOf[n] # NoResource,
                      eng'[e].task[n] = "calling", eng'[e].task[m] = "calling", n # m
               PROVE  FALSE
    BY DEF ResourceSerial
  <2>1. Placed
    BY EffectStep
  <2>2. eng[e].task[n] = "calling" /\ eng[e].task[m] = "calling"
    BY <2>1, NodesAssumption DEF Placed, LockFree
  <2> QED
    BY <2>2 DEF ResourceSerial
<1>2. Init => ResourceSerial
  BY NodesAssumption DEF Init, IdleEngine, ResourceSerial
<1> QED
  BY <1>1, <1>2, EffectInvariant, PTL DEF Spec
=============================================================================
