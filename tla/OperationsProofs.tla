-------------------------- MODULE OperationsProofs --------------------------
(***************************************************************************)
(* Proofs about the operations side: locks, governed tools, rotations,     *)
(* backups, migrations, signatures and the acceptance, each over its own   *)
(* specification, and most of them side by side, as MCOperations composes  *)
(* them.                                                                   *)
(***************************************************************************)
EXTENDS MCOperations, TLAPS, FiniteSetTheorems, WellFoundedInduction

-----------------------------------------------------------------------------
(* The policy                                                              *)

\* A more severe verdict has a greater number.
LEMMA StrictnessNumber == ASSUME NEW v PROVE Strictness(v) \in {0, 1, 2}
  BY DEF Strictness

\* A client holds an answer from the cached document, or none that counts.
PromiseIsCached == promised \in {NotCached, cached}

\* Every use of the policy leaves a filled cache alone; what empties it or fills it
\* anew ends the promise.
LEMMA PromiseKept ==
    ASSUME PromiseIsCached, PolicyNext \/ UNCHANGED policyVars PROVE PromiseIsCached'
<1>1. CASE CachePolicy
  BY <1>1 DEF CachePolicy, ActivePolicy, PromiseIsCached
<1>2. CASE RefreshPolicy \/ EditPolicyFile \/ PolicyRestart \/ HermesPolicyEvaluate
           \/ UNCHANGED policyVars
  BY <1>2 DEF RefreshPolicy, EditPolicyFile, PolicyRestart, HermesPolicyEvaluate, policyVars,
              PromiseIsCached
<1> QED  BY <1>1, <1>2 DEF PolicyNext

\* The lock tools only use the policy.
LEMMA LocksUsePolicy == LocksNext => PolicyNext \/ UNCHANGED policyVars
  BY DEF LocksNext, LockAcquire, LockRelease, LockTimePasses, RecoverLocks, PolicyNext

\* So do the tools of plans and stores.
LEMMA ToolsUsePolicy == ToolsNext => PolicyNext \/ UNCHANGED policyVars
<1>1. PlansNext => CachePolicy \/ UNCHANGED policyVars
  BY DEF PlansNext, PlanStep, CreatePlan, UpdatePlanStatus, CreateGrant, GrantTimePasses,
         RespondGrant, ConsumeForPlan, CheckPlanCall
<1>2. StoresNext => CachePolicy \/ UNCHANGED policyVars
  BY DEF StoresNext, SagaStart, SagaCompensate, CheckpointCreate, QuotaStatus
<1> QED  BY <1>1, <1>2 DEF ToolsNext, PolicyNext

\* What hermes_policy_evaluate answered is no weaker than what _enforce_policy
\* decides, whatever document is active, but for a label that does not parse.
LEMMA PreviewIsStrict == ASSUME PromiseIsCached PROVE PreviewNeverWeaker
<1> SUFFICES ASSUME promised # NotCached, NEW a \in Tool,
                    NEW class \in MutationClass \cup {NotGiven, Unparseable},
                    NEW label \in TrustLabel \cup {NotGiven, Unparseable}
             PROVE  \/ Strictness(Preview(promised, a, class, label))
                            >= Strictness(PolicyDecisionFromInputs(a, label))
                    \/ /\ label = Unparseable
                       /\ Preview(promised, a, class, label) = "ALLOW"
                       /\ PolicyDecisionFromInputs(a, label) = "REQUIRE_APPROVAL"
  BY DEF PreviewNeverWeaker
<1> DEFINE d == promised
           declared == ClassifyAction(d, a)
           claimed == IF class \in MutationClass THEN class ELSE MutationFromAction(d, a)
           trust == IF label \in TrustLabel THEN label ELSE "unknown"
           enforcedTrust == CASE label = NotGiven -> "unknown"
                              [] label = Unparseable -> "untrusted_content"
                              [] OTHER -> label
           decided == PolicyDecisionFromInputs(a, label)
           shown == Preview(d, a, class, label)
<1>0. ActivePolicy = d
  BY DEF PromiseIsCached, ActivePolicy
<1>1. CASE d = NoDocument
  <2>1. shown = "error" /\ decided = "error"
    BY <1>0, <1>1 DEF Preview, PolicyDecisionFromInputs
  <2>2. Strictness(shown) = Strictness(decided)
    BY <2>1
  <2> QED  BY <2>2, StrictnessNumber
<1>2. CASE d # NoDocument
  <2>1. label # Unparseable => trust = enforcedTrust
    BY DEF TrustLabel, NotGiven, Unparseable
  <2>2. decided = EvaluatePolicy(d, a, MutationFromAction(d, a), enforcedTrust)
    BY <1>0, <1>2, Zenon DEF PolicyDecisionFromInputs
  <2>3. shown = EvaluatePolicy(d, a, claimed, trust)
    BY <1>2, Zenon DEF Preview
  <2> HIDE DEF d, trust, enforcedTrust, decided, shown
  <2>4. declared \in {"none", "write", Unknown}
    BY DEF ClassifyAction
  <2>5. declared # Unknown => MutationFromAction(d, a) = declared
    BY Zenon DEF MutationFromAction
  <2>6. CASE a \in d.deny \cup d.approve \/ declared = Unknown
    <3>1. decided = shown
      BY <2>2, <2>3, <2>6 DEF EvaluatePolicy
    <3> QED  BY <3>1, StrictnessNumber DEF shown, decided, d
  <2>7. CASE a \notin d.deny \cup d.approve /\ declared # Unknown
    <3>1. decided = IF EffectiveClass(declared, declared) # "none" \/ HighRisk(enforcedTrust)
                    THEN "REQUIRE_APPROVAL" ELSE "ALLOW"
      BY <2>2, <2>5, <2>7 DEF EvaluatePolicy
    <3>2. shown = IF EffectiveClass(declared, claimed) # "none" \/ HighRisk(trust)
                  THEN "REQUIRE_APPROVAL" ELSE "ALLOW"
      BY <2>3, <2>7 DEF EvaluatePolicy
    <3>3. EffectiveClass(declared, declared) # "none" => EffectiveClass(declared, claimed) # "none"
      BY <2>4, <2>7 DEF EffectiveClass, Unknown
    <3>4. \/ decided = "REQUIRE_APPROVAL" /\ shown = "REQUIRE_APPROVAL"
          \/ decided = "ALLOW" /\ shown \in {"ALLOW", "REQUIRE_APPROVAL"}
          \/ label = Unparseable /\ decided = "REQUIRE_APPROVAL" /\ shown = "ALLOW"
      BY <2>1, <3>1, <3>2, <3>3
    <3>5. Strictness("ALLOW") = 0 /\ Strictness("REQUIRE_APPROVAL") = 1
      BY DEF Strictness
    <3>6. CASE label = Unparseable /\ decided = "REQUIRE_APPROVAL" /\ shown = "ALLOW"
      BY <3>6 DEF shown, decided, d
    <3>7. CASE ~(label = Unparseable /\ decided = "REQUIRE_APPROVAL" /\ shown = "ALLOW")
      <4>1. Strictness(shown) >= Strictness(decided)
        BY <3>4, <3>5, <3>7
      <4> QED  BY <4>1 DEF shown, decided, d
    <3> QED  BY <3>6, <3>7
  <2> QED  BY <2>6, <2>7
<1> QED  BY <1>1, <1>2

-----------------------------------------------------------------------------
(* Locks                                                                   *)

\* Except for readers, the pairs exclude one another both ways.
LEMMA ExclusionIsMutual ==
    ASSUME NEW s \in LockType, NEW t \in LockType, s # "READ_SHARED", t # "READ_SHARED",
           <<s, t>> \notin Incompatible
    PROVE  <<t, s>> \notin Incompatible
  BY DEF Incompatible, LockType

\* Reaping changes the status of active rows whose time is over, and nothing else.
LEMMA ReapingExpires ==
    ASSUME LocksTypeOK
    PROVE  /\ Reaped(lock) \in [LockKey \X Owner -> LockRow \cup {NoRow}]
           /\ \A r \in LockKey \X Owner :
                 /\ Reaped(lock)[r].type = lock[r].type
                 /\ Reaped(lock)[r].status = "active" => lock[r].status = "active"
<1> DEFINE E(r) == [lock[r] EXCEPT !.status = "expired"]
<1>1. DOMAIN lock = LockKey \X Owner
  BY DEF LocksTypeOK
<1>2. ASSUME NEW r \in LockKey \X Owner
      PROVE  /\ Reaped(lock)[r] \in LockRow \cup {NoRow}
             /\ Reaped(lock)[r].type = lock[r].type
             /\ Reaped(lock)[r].status = "active" => lock[r].status = "active"
  <2>1. lock[r] \in LockRow \cup {NoRow}
    BY DEF LocksTypeOK
  <2>2. CASE lock[r].status = "active" /\ lock[r].due = "past"
    <3>1. Reaped(lock)[r] = E(r)
      BY <1>1, <2>2 DEF Reaped
    <3>2. lock[r] \in LockRow
      BY <2>1, <2>2 DEF NoRow
    <3>3. E(r) \in LockRow /\ E(r).type = lock[r].type /\ E(r).status = "expired"
      BY <3>2 DEF LockRow
    <3> HIDE DEF E
    <3> QED  BY <2>2, <3>1, <3>3
  <2>3. CASE ~(lock[r].status = "active" /\ lock[r].due = "past")
    <3>1. Reaped(lock)[r] = lock[r]
      BY <1>1, <2>3 DEF Reaped
    <3> QED  BY <2>1, <3>1
  <2> QED  BY <2>2, <2>3
<1>3. Reaped(lock) = [r \in LockKey \X Owner |-> Reaped(lock)[r]]
  BY <1>1 DEF Reaped
<1>4. Reaped(lock) \in [LockKey \X Owner -> LockRow \cup {NoRow}]
  BY <1>2, <1>3
<1> QED  BY <1>2, <1>4

\* acquire, release, the clock and recovery keep the exclusion of writers.
LEMMA LocksStep ==
    ASSUME LocksTypeOK, WritersExclude, LocksNext
    PROVE  LocksTypeOK' /\ WritersExclude'
<1> DEFINE Rows == [LockKey \X Owner -> LockRow \cup {NoRow}]
           Exclude(rows) == \A k \in LockKey, o1, o2 \in Owner :
                (o1 # o2 /\ rows[<<k, o1>>].status = "active" /\ rows[<<k, o2>>].status = "active"
                    /\ "READ_SHARED" \notin {rows[<<k, o1>>].type, rows[<<k, o2>>].type})
                => <<rows[<<k, o1>>].type, rows[<<k, o2>>].type>> \notin Incompatible
<1>1. lock \in Rows /\ DOMAIN lock = LockKey \X Owner
  BY DEF LocksTypeOK
<1>2. Exclude(lock)
  BY DEF WritersExclude
<1>3. Reaped(lock) \in Rows
      /\ \A r \in LockKey \X Owner :
                 /\ Reaped(lock)[r].type = lock[r].type
                 /\ Reaped(lock)[r].status = "active" => lock[r].status = "active"
  BY ReapingExpires
<1>4. SUFFICES lock' \in Rows /\ Exclude(lock')
  BY DEF LocksTypeOK, WritersExclude
<1>5. ASSUME NEW k \in LockKey, NEW o \in Owner, NEW type \in LockType,
             NEW due \in {"never", "later"}, LockAcquire(k, o, type, due)
      PROVE  lock' \in Rows /\ Exclude(lock')
  <2>1. CASE ~Compatible(k, o, type)
    <3>1. lock' = lock
      BY <1>5, <2>1 DEF LockAcquire
    <3> QED  BY <1>1, <1>2, <3>1
  <2>2. CASE Compatible(k, o, type)
    <3> DEFINE row == [type |-> type, status |-> "active", due |-> due]
    <3>1. row \in LockRow /\ row.type = type /\ row.status = "active"
      BY DEF LockRow
    <3>2. lock' = [Reaped(lock) EXCEPT ![<<k, o>>] = row]
      BY <1>5, <2>2 DEF LockAcquire
    <3> HIDE DEF row
    <3>3. lock' \in Rows
      BY <1>3, <3>1, <3>2
    <3>4. lock'[<<k, o>>] = row
          /\ \A r \in LockKey \X Owner : r # <<k, o>> => lock'[r] = Reaped(lock)[r]
      BY <1>3, <3>2
    <3>6. ASSUME NEW p \in Owner, p # o, lock'[<<k, p>>].status = "active",
                 type # "READ_SHARED", lock'[<<k, p>>].type # "READ_SHARED"
          PROVE  <<type, lock'[<<k, p>>].type>> \notin Incompatible
                 /\ <<lock'[<<k, p>>].type, type>> \notin Incompatible
      <4>1. lock'[<<k, p>>] = Reaped(lock)[<<k, p>>]
        BY <3>4, <3>6
      <4>2. lock[<<k, p>>].status = "active" /\ lock[<<k, p>>].type = lock'[<<k, p>>].type
        BY <1>3, <4>1, <3>6
      <4>3. <<type, lock[<<k, p>>].type>> \notin Incompatible
        BY <2>2, <3>6, <4>2 DEF Compatible
      <4>4. lock[<<k, p>>] \in LockRow
        BY <1>1, <4>2 DEF NoRow
      <4>5. lock[<<k, p>>].type \in LockType
        BY <4>4 DEF LockRow
      <4> QED  BY <4>2, <4>3, <4>5, <3>6, ExclusionIsMutual
    <3>7. ASSUME NEW h \in LockKey, NEW p \in Owner, NEW q \in Owner, p # q,
                 lock'[<<h, p>>].status = "active", lock'[<<h, q>>].status = "active",
                 "READ_SHARED" \notin {lock'[<<h, p>>].type, lock'[<<h, q>>].type}
          PROVE  <<lock'[<<h, p>>].type, lock'[<<h, q>>].type>> \notin Incompatible
      <4>1. CASE h = k /\ p = o
        <5>1. lock'[<<h, p>>].type = type
          BY <3>1, <3>4, <4>1
        <5> QED  BY <3>6, <3>7, <4>1, <5>1
      <4>2. CASE h = k /\ q = o
        <5>1. lock'[<<h, q>>].type = type
          BY <3>1, <3>4, <4>2
        <5> QED  BY <3>6, <3>7, <4>2, <5>1
      <4>3. CASE ~(h = k /\ p = o) /\ ~(h = k /\ q = o)
        <5>1. lock'[<<h, p>>] = Reaped(lock)[<<h, p>>] /\ lock'[<<h, q>>] = Reaped(lock)[<<h, q>>]
          BY <3>4, <4>3
        <5>2. /\ lock[<<h, p>>].status = "active" /\ lock[<<h, p>>].type = lock'[<<h, p>>].type
              /\ lock[<<h, q>>].status = "active" /\ lock[<<h, q>>].type = lock'[<<h, q>>].type
          BY <1>3, <3>7, <5>1
        <5> QED  BY <1>2, <3>7, <5>2
      <4> QED  BY <4>1, <4>2, <4>3
    <3>8. Exclude(lock')
      BY <3>7
    <3> QED  BY <3>3, <3>8
  <2> QED  BY <2>1, <2>2
<1>6. ASSUME lock' \in Rows, \A r \in LockKey \X Owner : lock'[r].type = lock[r].type
                              /\ (lock'[r].status = "active" => lock[r].status = "active")
      PROVE  Exclude(lock')
  BY <1>2, <1>6
<1>7. ASSUME NEW k \in LockKey, NEW o \in Owner, LockRelease(k, o)
      PROVE  lock' \in Rows /\ Exclude(lock')
  <2>1. lock[<<k, o>>] \in LockRow
    BY <1>1, <1>7 DEF LockRelease
  <2> DEFINE row == [lock[<<k, o>>] EXCEPT !.status = "released"]
  <2>2. row \in LockRow /\ row.type = lock[<<k, o>>].type /\ row.status = "released"
    BY <2>1 DEF LockRow
  <2>3. lock' = [lock EXCEPT ![<<k, o>>] = row]
    BY <1>7 DEF LockRelease
  <2> HIDE DEF row
  <2>4. lock' \in Rows /\ lock'[<<k, o>>] = row
        /\ \A r \in LockKey \X Owner : r # <<k, o>> => lock'[r] = lock[r]
    BY <1>1, <2>2, <2>3
  <2>6. \A r \in LockKey \X Owner : lock'[r].type = lock[r].type
                              /\ (lock'[r].status = "active" => lock[r].status = "active")
    BY <2>2, <2>4
  <2> QED  BY <1>6, <2>4, <2>6
<1>8. ASSUME NEW k \in LockKey, NEW o \in Owner, LockTimePasses(k, o)
      PROVE  lock' \in Rows /\ Exclude(lock')
  <2>1. lock[<<k, o>>] \in LockRow
    <3>1. lock[<<k, o>>].due = "later" /\ NoRow.due = "none"
      BY <1>8 DEF LockTimePasses, NoRow
    <3>2. lock[<<k, o>>] \in LockRow \cup {NoRow}
      BY <1>1
    <3> QED  BY <3>1, <3>2
  <2> DEFINE row == [lock[<<k, o>>] EXCEPT !.due = "past"]
  <2>2. row \in LockRow /\ row.type = lock[<<k, o>>].type /\ row.status = lock[<<k, o>>].status
    BY <2>1 DEF LockRow
  <2>3. lock' = [lock EXCEPT ![<<k, o>>] = row]
    BY <1>8 DEF LockTimePasses
  <2> HIDE DEF row
  <2>4. lock' \in Rows /\ lock'[<<k, o>>] = row
        /\ \A r \in LockKey \X Owner : r # <<k, o>> => lock'[r] = lock[r]
    BY <1>1, <2>2, <2>3
  <2>6. \A r \in LockKey \X Owner : lock'[r].type = lock[r].type
                              /\ (lock'[r].status = "active" => lock[r].status = "active")
    BY <2>2, <2>4
  <2> QED  BY <1>6, <2>4, <2>6
<1>9. ASSUME RecoverLocks
      PROVE  lock' \in Rows /\ Exclude(lock')
  <2>1. lock' = Reaped(lock)
    BY <1>9 DEF RecoverLocks
  <2>2. lock' \in Rows
    BY <1>1, <1>3, <2>1
  <2>3. \A r \in LockKey \X Owner : lock'[r].type = lock[r].type
                              /\ (lock'[r].status = "active" => lock[r].status = "active")
    BY <1>3, <2>1
  <2> QED  BY <1>6, <2>2, <2>3
<1> HIDE DEF Rows, Exclude
<1> QED  BY <1>5, <1>7, <1>8, <1>9 DEF LocksNext

\* No row, no holder.
LEMMA LocksStart == ASSUME LocksInit PROVE LocksTypeOK /\ WritersExclude
  BY DEF LocksInit, LocksTypeOK, WritersExclude, NoRow

-----------------------------------------------------------------------------
(* Governed tools                                                          *)

\* A call that got past its check holds an approval of its plan, and what it
\* delegated was consumed for it.
ToolsInv ==
    /\ ToolsTypeOK
    /\ \A c \in PlanCall : planCall[c].at \in {"checked", "delegated"} =>
            planCall[c].grant \in Grant /\ GrantPlan[planCall[c].grant] = planCall[c].plan
    /\ \A c \in PlanCall : planCall[c].at = "delegated" =>
            /\ grants[planCall[c].grant].consumed
            /\ grants[planCall[c].grant].decision # NotStored

\* What a step that leads to a delegation has checked.
FairlyDelegated ==
    \A c \in PlanCall :
        (planCall[c].at # "delegated" /\ planCall'[c].at = "delegated") =>
            LET g == planCall'[c].grant IN
            /\ \A d \in PlanCall : planCall[d].at = "delegated" => planCall[d].grant # g
            /\ GrantPlan[g] = planCall'[c].plan
            /\ grants[g].decision = "approved" /\ grants[g].due # "past"

\* A stored approval, and a call of a plan.
GrantRow == [decision : GrantDecision \cup {NotStored},
             due : {"never", "later", "past"}, consumed : BOOLEAN]
CallRow == [plan : Plan \cup {NoPlan}, grant : Grant \cup {NoGrant},
            at : {"idle", "checked", "refused", "delegated"}]

\* Answers and the clock change an approval without making it available again.
LEMMA GrantMoves ==
    ASSUME ToolsInv, NEW g \in Grant, NEW row \in GrantRow,
           grants' = [grants EXCEPT ![g] = row],
           grants[g].decision = NotStored
             \/ (row.consumed = grants[g].consumed /\ row.decision # NotStored),
           UNCHANGED <<plans, planCall, sagas, snapshots, profiles>>
    PROVE  ToolsInv' /\ FairlyDelegated
<1>1. grants \in [Grant -> GrantRow]
  BY DEF ToolsInv, ToolsTypeOK, GrantRow
<1>2. grants' \in [Grant -> GrantRow] /\ grants'[g] = row
      /\ \A h \in Grant : h # g => grants'[h] = grants[h]
  BY <1>1
<1>3. ToolsTypeOK'
  BY <1>2 DEF ToolsInv, ToolsTypeOK, GrantRow
<1>4. ASSUME NEW c \in PlanCall, planCall[c].at = "delegated"
      PROVE  grants'[planCall[c].grant].consumed
             /\ grants'[planCall[c].grant].decision # NotStored
  <2> DEFINE h == planCall[c].grant
  <2>1. h \in Grant /\ grants[h].consumed /\ grants[h].decision # NotStored
    BY <1>4 DEF ToolsInv
  <2> QED  BY <1>2, <2>1
<1>5. FairlyDelegated
  BY DEF FairlyDelegated
<1> QED  BY <1>3, <1>4, <1>5 DEF ToolsInv

\* hermes_approval_create, hermes_approval_respond and the clock.
LEMMA GrantSteps ==
    ASSUME ToolsInv, NEW g \in Grant,
           CreateGrant(g) \/ GrantTimePasses(g)
             \/ \E decision \in GrantDecision : RespondGrant(g, decision)
    PROVE  ToolsInv' /\ FairlyDelegated
<1>1. grants \in [Grant -> GrantRow] /\ grants[g] \in GrantRow
  BY DEF ToolsInv, ToolsTypeOK, GrantRow
<1>2. CASE CreateGrant(g)
  <2>1. PICK due \in {"never", "later"} : grants' = [grants EXCEPT ![g] =
                [decision |-> "requested", due |-> due, consumed |-> FALSE]]
    BY <1>2 DEF CreateGrant
  <2> DEFINE row == [decision |-> "requested", due |-> due, consumed |-> FALSE]
  <2>2. row \in GrantRow
    BY DEF GrantRow, GrantDecision
  <2>3. grants' = [grants EXCEPT ![g] = row] /\ grants[g].decision = NotStored
    BY <1>2, <2>1 DEF CreateGrant
  <2>4. UNCHANGED <<plans, planCall, sagas, snapshots, profiles>>
    BY <1>2 DEF CreateGrant
  <2> HIDE DEF row
  <2> QED  BY <2>2, <2>3, <2>4, GrantMoves
<1>3. CASE GrantTimePasses(g)
  <2> DEFINE row == [grants[g] EXCEPT !.due = "past"]
  <2>1. row \in GrantRow /\ row.consumed = grants[g].consumed /\ row.decision = grants[g].decision
    BY <1>1 DEF GrantRow
  <2>2. grants' = [grants EXCEPT ![g] = row]
    BY <1>3 DEF GrantTimePasses
  <2>3. UNCHANGED <<plans, planCall, sagas, snapshots, profiles>>
    BY <1>3 DEF GrantTimePasses
  <2> HIDE DEF row
  <2> QED  BY <2>1, <2>2, <2>3, GrantMoves
<1>4. ASSUME NEW decision \in GrantDecision, RespondGrant(g, decision)
      PROVE  ToolsInv' /\ FairlyDelegated
  <2> DEFINE row == [grants[g] EXCEPT !.decision = decision]
  <2>1. row \in GrantRow /\ row.consumed = grants[g].consumed /\ row.decision = decision
    BY <1>1 DEF GrantRow
  <2>2. decision # NotStored
    BY DEF GrantDecision, NotStored
  <2>3. grants' = [grants EXCEPT ![g] = row]
    BY <1>4 DEF RespondGrant
  <2>4. UNCHANGED <<plans, planCall, sagas, snapshots, profiles>>
    BY <1>4 DEF RespondGrant
  <2> HIDE DEF row
  <2> QED  BY <2>1, <2>2, <2>3, <2>4, GrantMoves
<1> QED  BY <1>2, <1>3, <1>4

\* hermes_execute_approved_plan up to its thread.
LEMMA CheckStep ==
    ASSUME ToolsInv, NEW c \in PlanCall, NEW g \in Grant, NEW p \in Plan, CheckPlanCall(c, g, p)
    PROVE  ToolsInv' /\ FairlyDelegated
<1>1. planCall \in [PlanCall -> CallRow]
  BY DEF ToolsInv, ToolsTypeOK, CallRow
<1> DEFINE good == /\ PolicyDecisionFromInputs("hermes_execute_approved_plan", NotGiven)
                            \in {"ALLOW", "REQUIRE_APPROVAL"}
                   /\ plans[p] \in {"approved", "pending_approval"}
                   /\ ApprovalFitsPlan(g, p)
           end == IF good THEN "checked" ELSE "refused"
           row == [plan |-> p, grant |-> g, at |-> end]
<1>2. end \in {"checked", "refused"} /\ (end = "checked" => GrantPlan[g] = p)
  BY DEF ApprovalFitsPlan
<1>3. planCall' = [planCall EXCEPT ![c] = row] /\ planCall[c].at = "idle"
  BY DEF CheckPlanCall
<1>4. UNCHANGED <<plans, grants, sagas, snapshots, profiles>>
  BY DEF CheckPlanCall
<1> HIDE DEF end
<1>5. row \in CallRow /\ row.plan = p /\ row.grant = g /\ row.at = end
  BY <1>2 DEF CallRow
<1> HIDE DEF row
<1>6. planCall' \in [PlanCall -> CallRow] /\ planCall'[c] = row
      /\ \A d \in PlanCall : d # c => planCall'[d] = planCall[d]
  BY <1>1, <1>3, <1>5
<1>7. ToolsTypeOK'
  BY <1>4, <1>6 DEF ToolsInv, ToolsTypeOK, CallRow
<1>8. \A d \in PlanCall : planCall'[d].at = "delegated" => planCall'[d] = planCall[d]
  BY <1>2, <1>5, <1>6
<1>9. FairlyDelegated
  BY <1>8 DEF FairlyDelegated
<1>10. \A d \in PlanCall : planCall'[d].at \in {"checked", "delegated"} =>
            planCall'[d].grant \in Grant /\ GrantPlan[planCall'[d].grant] = planCall'[d].plan
  BY <1>2, <1>5, <1>6 DEF ToolsInv
<1>11. \A d \in PlanCall : planCall'[d].at = "delegated" =>
            /\ grants'[planCall'[d].grant].consumed
            /\ grants'[planCall'[d].grant].decision # NotStored
  BY <1>4, <1>8 DEF ToolsInv
<1> QED  BY <1>7, <1>9, <1>10, <1>11 DEF ToolsInv

\* ApprovalRegistry.consume on the thread of the call: it succeeds once.
LEMMA ConsumeStep ==
    ASSUME ToolsInv, NEW c \in PlanCall, ConsumeForPlan(c)
    PROVE  ToolsInv' /\ FairlyDelegated
<1> DEFINE g == planCall[c].grant
<1>1. /\ planCall \in [PlanCall -> CallRow] /\ planCall[c] \in CallRow
      /\ grants \in [Grant -> GrantRow]
  BY DEF ToolsInv, ToolsTypeOK, CallRow, GrantRow
<1>2. planCall[c].at = "checked" /\ UNCHANGED <<plans, sagas, snapshots, profiles>>
  BY DEF ConsumeForPlan
<1>3. g \in Grant /\ GrantPlan[g] = planCall[c].plan
  BY <1>2 DEF ToolsInv
<1>4. grants[g] \in GrantRow
  BY <1>1, <1>3
<1>5. ASSUME NEW s \in {"refused", "delegated"}, planCall' = [planCall EXCEPT ![c].at = s]
      PROVE  /\ planCall' \in [PlanCall -> CallRow]
             /\ planCall'[c].at = s /\ planCall'[c].grant = g /\ planCall'[c].plan = planCall[c].plan
             /\ \A d \in PlanCall : d # c => planCall'[d] = planCall[d]
  <2> DEFINE row == [planCall[c] EXCEPT !.at = s]
  <2>1. row \in CallRow /\ row.at = s /\ row.grant = g /\ row.plan = planCall[c].plan
    BY <1>1 DEF CallRow
  <2>2. planCall' = [planCall EXCEPT ![c] = row]
    BY <1>5
  <2> HIDE DEF row
  <2> QED  BY <1>1, <2>1, <2>2
<1>6. ASSUME NEW h \in Grant, planCall' \in [PlanCall -> CallRow], planCall'[c].at = "refused",
             \A d \in PlanCall : d # c => planCall'[d] = planCall[d],
             grants' \in [Grant -> GrantRow],
             \A f \in Grant : (grants[f].consumed => grants'[f].consumed)
                           /\ (grants[f].decision # NotStored => grants'[f].decision # NotStored)
      PROVE  ToolsInv' /\ FairlyDelegated
  <2>1. ToolsTypeOK'
    BY <1>2, <1>6 DEF ToolsInv, ToolsTypeOK, CallRow, GrantRow
  <2>2. FairlyDelegated
    BY <1>6 DEF FairlyDelegated
  <2>3. \A d \in PlanCall : planCall'[d].at \in {"checked", "delegated"} =>
            planCall'[d].grant \in Grant /\ GrantPlan[planCall'[d].grant] = planCall'[d].plan
    BY <1>6 DEF ToolsInv
  <2>4. \A d \in PlanCall : planCall'[d].at = "delegated" =>
            /\ grants'[planCall'[d].grant].consumed
            /\ grants'[planCall'[d].grant].decision # NotStored
    BY <1>6 DEF ToolsInv
  <2> QED  BY <2>1, <2>2, <2>3, <2>4 DEF ToolsInv
<1>7. CASE ~Consumable(g)
  <2>1. planCall' = [planCall EXCEPT ![c].at = "refused"]
        /\ grants' = IF grants[g].decision = "approved" /\ grants[g].due = "past"
                     THEN [grants EXCEPT ![g].decision = "expired"] ELSE grants
    BY <1>7 DEF ConsumeForPlan
  <2> DEFINE row == [grants[g] EXCEPT !.decision = "expired"]
  <2>2. row \in GrantRow /\ row.consumed = grants[g].consumed /\ row.decision # NotStored
    BY <1>4 DEF GrantRow, GrantDecision, NotStored
  <2>3. grants' = grants \/ grants' = [grants EXCEPT ![g] = row]
    BY <2>1
  <2> HIDE DEF row
  <2>4. grants' \in [Grant -> GrantRow]
    BY <1>1, <1>3, <2>2, <2>3
  <2>5. \A f \in Grant : (grants[f].consumed => grants'[f].consumed)
                           /\ (grants[f].decision # NotStored => grants'[f].decision # NotStored)
    BY <1>1, <1>3, <2>2, <2>3
  <2>6. planCall' \in [PlanCall -> CallRow] /\ planCall'[c].at = "refused"
        /\ \A d \in PlanCall : d # c => planCall'[d] = planCall[d]
    BY <2>1, <1>5
  <2> QED  BY <1>3, <1>6, <2>4, <2>5, <2>6
<1>8. CASE Consumable(g)
  <2>1. planCall' = [planCall EXCEPT ![c].at = "delegated"]
        /\ grants' = [grants EXCEPT ![g].decision = "consumed", ![g].consumed = TRUE]
    BY <1>8 DEF ConsumeForPlan
  <2> DEFINE row == [grants[g] EXCEPT !.decision = "consumed", !.consumed = TRUE]
  <2>2. row \in GrantRow /\ row.consumed /\ row.decision # NotStored
    BY <1>4 DEF GrantRow, GrantDecision, NotStored
  <2>3. grants' = [grants EXCEPT ![g] = row]
    BY <1>1, <1>3, <2>1
  <2> HIDE DEF row
  <2>4. grants' \in [Grant -> GrantRow] /\ grants'[g] = row
        /\ \A f \in Grant : f # g => grants'[f] = grants[f]
    BY <1>1, <1>3, <2>2, <2>3
  <2>5. /\ planCall' \in [PlanCall -> CallRow]
        /\ planCall'[c].at = "delegated" /\ planCall'[c].grant = g
        /\ planCall'[c].plan = planCall[c].plan
        /\ \A d \in PlanCall : d # c => planCall'[d] = planCall[d]
    BY <2>1, <1>5
  <2>6. ~grants[g].consumed /\ grants[g].decision = "approved" /\ grants[g].due # "past"
    BY <1>8 DEF Consumable
  <2>7. \A d \in PlanCall : planCall[d].at = "delegated" => planCall[d].grant # g
    BY <2>6 DEF ToolsInv
  <2>8. FairlyDelegated
    BY <1>3, <2>5, <2>6, <2>7 DEF FairlyDelegated
  <2>9. ToolsTypeOK'
    BY <1>2, <2>4, <2>5 DEF ToolsInv, ToolsTypeOK, CallRow, GrantRow
  <2>10. \A d \in PlanCall : planCall'[d].at \in {"checked", "delegated"} =>
            planCall'[d].grant \in Grant /\ GrantPlan[planCall'[d].grant] = planCall'[d].plan
    BY <1>3, <2>5 DEF ToolsInv
  <2>11. \A d \in PlanCall : planCall'[d].at = "delegated" =>
            /\ grants'[planCall'[d].grant].consumed
            /\ grants'[planCall'[d].grant].decision # NotStored
    BY <2>2, <2>4, <2>5 DEF ToolsInv
  <2> QED  BY <2>8, <2>9, <2>10, <2>11 DEF ToolsInv
<1> QED  BY <1>7, <1>8

\* Every tool keeps the invariant, and delegates fairly.
LEMMA ToolsStep ==
    ASSUME ToolsInv, ToolsNext
    PROVE  ToolsInv' /\ FairlyDelegated
<1>1. ASSUME ToolsTypeOK', UNCHANGED <<grants, planCall>>
      PROVE  ToolsInv' /\ FairlyDelegated
  BY <1>1 DEF ToolsInv, FairlyDelegated
<1>2. ToolsTypeOK
  BY DEF ToolsInv
<1>3. ASSUME NEW p \in Plan, CreatePlan(p)
      PROVE  ToolsInv' /\ FairlyDelegated
  <2>1. ToolsTypeOK' /\ UNCHANGED <<grants, planCall>>
    BY <1>2, <1>3 DEF ToolsTypeOK, CreatePlan, PlanStatus
  <2> QED  BY <1>1, <2>1
<1>4. ASSUME NEW p \in Plan, NEW status \in PlanStatus, UpdatePlanStatus(p, status)
      PROVE  ToolsInv' /\ FairlyDelegated
  <2>1. ToolsTypeOK' /\ UNCHANGED <<grants, planCall>>
    BY <1>2, <1>4 DEF ToolsTypeOK, UpdatePlanStatus
  <2> QED  BY <1>1, <2>1
<1>5. ASSUME NEW s \in Saga, SagaStart(s)
      PROVE  ToolsInv' /\ FairlyDelegated
  <2>1. ToolsTypeOK' /\ UNCHANGED <<grants, planCall>>
    BY <1>2, <1>5 DEF ToolsTypeOK, SagaStart
  <2> QED  BY <1>1, <2>1
<1>6. ASSUME NEW s \in Saga, NEW i \in DOMAIN SagaSteps[s], SagaCompensate(s, i)
      PROVE  ToolsInv' /\ FairlyDelegated
  <2>1. ToolsTypeOK' /\ UNCHANGED <<grants, planCall>>
    BY <1>2, <1>6 DEF ToolsTypeOK, SagaCompensate
  <2> QED  BY <1>1, <2>1
<1>7. ASSUME NEW k \in Snapshot, CheckpointCreate(k)
      PROVE  ToolsInv' /\ FairlyDelegated
  <2>1. ToolsTypeOK' /\ UNCHANGED <<grants, planCall>>
    BY <1>2, <1>7 DEF ToolsTypeOK, CheckpointCreate
  <2> QED  BY <1>1, <2>1
<1>8. ASSUME QuotaStatus
      PROVE  ToolsInv' /\ FairlyDelegated
  <2>1. ToolsTypeOK' /\ UNCHANGED <<grants, planCall>>
    BY <1>2, <1>8 DEF ToolsTypeOK, QuotaStatus
  <2> QED  BY <1>1, <2>1
<1>9. CASE PlansNext
  BY <1>3, <1>4, <1>9, GrantSteps, CheckStep, ConsumeStep DEF PlansNext, PlanStep
<1>10. CASE StoresNext
  BY <1>5, <1>6, <1>7, <1>8, <1>10 DEF StoresNext
<1> QED  BY <1>9, <1>10 DEF ToolsNext

\* The stores are empty and no call has been made.
LEMMA ToolsStart == ASSUME ToolsInit PROVE ToolsInv
<1>1. ToolsTypeOK
  BY DEF ToolsInit, ToolsTypeOK, IdleCall, NotStored
<1>2. \A c \in PlanCall : planCall[c].at = "idle"
  BY DEF ToolsInit, IdleCall
<1> QED  BY <1>1, <1>2 DEF ToolsInv

\* hermes_execute_approved_plan: for any plans, approvals and concurrent calls, an
\* approval carries one execution, of its own plan, while it stands.
THEOREM OneDelegation == ToolsSpec => DelegatedOnce
<1>1. PolicyInit /\ ToolsInit => ToolsInv
  BY ToolsStart
<1>2. ToolsInv /\ [ToolsNext]_toolVars => ToolsInv'
  <2>1. ToolsInv /\ UNCHANGED toolVars => ToolsInv'
    BY DEF toolVars, storeVars, ToolsInv, ToolsTypeOK
  <2> QED  BY <2>1, ToolsStep
<1>3. ToolsInv /\ [ToolsNext]_toolVars => [FairlyDelegated]_storeVars
  BY ToolsStep DEF toolVars
<1>4. ToolsSpec => [][FairlyDelegated]_storeVars
  BY <1>1, <1>2, <1>3, PTL DEF ToolsSpec
<1> QED  BY <1>4 DEF DelegatedOnce, FairlyDelegated

-----------------------------------------------------------------------------
(* Migrations                                                              *)

\* Where a migrator can be, and what it has applied.
MigratorRow == [at : {"opened", "begin", "locked", "script", "recorded", "returned", "raised"},
                current : 0 .. Len(Script), next : 1 .. Len(Script) + 1, done : Nat]

\* The ledger has no gaps up to n, nobody is further than one migration ahead of
\* it, and the statements that a migrator has run are in the schema.
MigratedTo(n) ==
    /\ ledger = 1 .. n
    /\ \A v \in 1 .. n : \A i \in 1 .. Script[v] : <<v, i>> \in schema
    /\ \A m \in Migrator :
        /\ migrator[m].at \in {"locked", "script"} => migrator[m].next <= n + 1
        /\ migrator[m].at = "recorded" => migrator[m].next <= n
        /\ migrator[m].at = "script" =>
            /\ migrator[m].next \in Version
            /\ \A i \in 1 .. migrator[m].done : <<migrator[m].next, i>> \in schema
        /\ migrator[m].at = "returned" => n = Len(Script) /\ migrator[m].current = n

MigrationsInv ==
    /\ MigrationsTypeOK /\ migrator \in [Migrator -> MigratorRow]
    /\ \E n \in 0 .. Len(Script) : MigratedTo(n)

\* The migrations are numbered from one.
LEMMA Versions == Version = 1 .. Len(Script) /\ Len(Script) \in Nat \ {0}
                  /\ \A v \in Version : Script[v] \in Nat \ {0}
  BY ScriptAssumption DEF Version

\* A statement is one of a migration.
LEMMA Statements ==
    /\ \A v \in Version : \A i \in 1 .. Script[v] : <<v, i>> \in Statement
    /\ \A s \in Statement : \E v \in Version : \E i \in 1 .. Script[v] : s = <<v, i>>
  BY DEF Statement

\* The version of a ledger without gaps is its length.
LEMMA CurrentIsLength == ASSUME NEW n \in Nat, ledger = 1 .. n PROVE CurrentVersion = n
<1>1. CASE n = 0
  BY <1>1 DEF CurrentVersion
<1>2. CASE n # 0
  <2>1. n \in ledger /\ \A w \in ledger : w <= n
    BY <1>2
  <2>2. \A v \in ledger : (\A w \in ledger : w <= v) => v = n
    BY <2>1
  <2>3. (CHOOSE v \in ledger : \A w \in ledger : w <= v) = n
    BY <2>1, <2>2, Zenon
  <2>4. ledger # {}
    BY <2>1
  <2> QED  BY <2>3, <2>4 DEF CurrentVersion
<1> QED  BY <1>1, <1>2

\* Whoever starts, stops or dies: a migrator whose record stays within its bounds
\* keeps the ledger's invariant.
LEMMA MigratorMoves ==
    ASSUME MigrationsInv, NEW n \in 0 .. Len(Script), MigratedTo(n),
           NEW m \in Migrator, NEW row \in MigratorRow,
           migrator' = [migrator EXCEPT ![m] = row],
           row.at \in {"locked", "script"} => row.next <= n + 1,
           row.at = "recorded" => row.next <= n,
           row.at = "script" =>
                /\ row.next \in Version
                /\ \A i \in 1 .. row.done : <<row.next, i>> \in schema,
           row.at = "returned" => n = Len(Script) /\ row.current = n,
           inWal' \in BOOLEAN, writer' \in Migrator \cup {NoMigrator},
           UNCHANGED <<ledger, schema>>
    PROVE  MigrationsInv'
<1>1. migrator' \in [Migrator -> MigratorRow] /\ migrator'[m] = row
      /\ \A q \in Migrator : q # m => migrator'[q] = migrator[q]
  BY DEF MigrationsInv
<1>2. \A q \in Migrator : migrator'[q].at \in
        {"opened", "begin", "locked", "script", "recorded", "returned", "raised"}
  BY <1>1 DEF MigratorRow
<1>3. MigrationsTypeOK'
  BY <1>2 DEF MigrationsInv, MigrationsTypeOK
<1>4. ASSUME NEW q \in Migrator
      PROVE  /\ migrator'[q].at \in {"locked", "script"} => migrator'[q].next <= n + 1
             /\ migrator'[q].at = "recorded" => migrator'[q].next <= n
             /\ migrator'[q].at = "script" =>
                    /\ migrator'[q].next \in Version
                    /\ \A i \in 1 .. migrator'[q].done : <<migrator'[q].next, i>> \in schema
             /\ migrator'[q].at = "returned" => n = Len(Script) /\ migrator'[q].current = n
  BY <1>1 DEF MigratedTo
<1>5. MigratedTo(n)'
  BY <1>4 DEF MigratedTo
<1> QED  BY <1>1, <1>3, <1>5 DEF MigrationsInv

\* One CREATE: the schema grows by the statement at hand.
LEMMA RunStep ==
    ASSUME MigrationsInv, NEW m \in Migrator, RunStatement(m) PROVE MigrationsInv'
<1>1. PICK n \in 0 .. Len(Script) : MigratedTo(n)
  BY DEF MigrationsInv
<1> DEFINE at == migrator[m]
           row == [at EXCEPT !.done = at.done + 1]
<1>2. migrator \in [Migrator -> MigratorRow] /\ at \in MigratorRow
  BY DEF MigrationsInv
<1>3. at.next \in 1 .. Len(Script) + 1 /\ at.done \in Nat
  BY <1>2 DEF MigratorRow
<1>4. row \in MigratorRow /\ row.at = at.at /\ row.next = at.next /\ row.done = at.done + 1
  BY <1>2, <1>3 DEF MigratorRow
<1>5. /\ at.at = "script" /\ at.done < Script[at.next]
      /\ schema' = schema \cup {<<at.next, at.done + 1>>}
      /\ migrator' = [migrator EXCEPT ![m] = row]
      /\ UNCHANGED <<inWal, ledger, writer>>
  BY DEF RunStatement, MigratorAt
<1>6. at.next \in Version /\ at.next <= n + 1 /\ \A i \in 1 .. at.done : <<at.next, i>> \in schema
  BY <1>1, <1>5 DEF MigratedTo
<1>7. <<at.next, at.done + 1>> \in Statement
  <2>1. PICK v \in Version, i \in Nat : v = at.next /\ i = at.done + 1
    BY <1>3, <1>6
  <2>2. i \in 1 .. Script[v]
    BY <1>3, <1>5, <2>1, Versions
  <2> QED
    BY <2>1, <2>2, Statements
<1> HIDE DEF row, at
<1>8. migrator' \in [Migrator -> MigratorRow] /\ migrator'[m] = row
      /\ \A q \in Migrator : q # m => migrator'[q] = migrator[q]
  <2>1. PICK r \in MigratorRow : r = row /\ migrator' = [migrator EXCEPT ![m] = r]
    BY <1>4, <1>5
  <2> QED
    BY <1>2, <2>1
<1>9. \A q \in Migrator : migrator'[q].at \in
        {"opened", "begin", "locked", "script", "recorded", "returned", "raised"}
  BY <1>8 DEF MigratorRow
<1>10. MigrationsTypeOK'
  BY <1>5, <1>7, <1>9 DEF MigrationsInv, MigrationsTypeOK
<1>11. \A i \in 1 .. row.done : <<row.next, i>> \in schema'
  BY <1>3, <1>4, <1>5, <1>6
<1>12. ASSUME NEW q \in Migrator
      PROVE  /\ migrator'[q].at \in {"locked", "script"} => migrator'[q].next <= n + 1
             /\ migrator'[q].at = "recorded" => migrator'[q].next <= n
             /\ migrator'[q].at = "script" =>
                    /\ migrator'[q].next \in Version
                    /\ \A i \in 1 .. migrator'[q].done : <<migrator'[q].next, i>> \in schema'
             /\ migrator'[q].at = "returned" => n = Len(Script) /\ migrator'[q].current = n
  <2>1. CASE q = m
    BY <1>4, <1>5, <1>6, <1>8, <1>11, <2>1
  <2>2. CASE q # m
    BY <1>1, <1>5, <1>8, <2>2 DEF MigratedTo
  <2> QED  BY <2>1, <2>2
<1>13. MigratedTo(n)'
  BY <1>1, <1>5, <1>12 DEF MigratedTo
<1> QED  BY <1>8, <1>10, <1>13 DEF MigrationsInv

\* INSERT OR IGNORE: the ledger grows by the version at hand, or has it already.
LEMMA RecordStep ==
    ASSUME MigrationsInv, NEW m \in Migrator, RecordVersion(m) PROVE MigrationsInv'
<1>1. PICK n \in 0 .. Len(Script) : MigratedTo(n)
  BY DEF MigrationsInv
<1> DEFINE at == migrator[m]
           row == [at EXCEPT !.at = "recorded"]
<1>2. migrator \in [Migrator -> MigratorRow] /\ at \in MigratorRow
  BY DEF MigrationsInv
<1>3. at.next \in 1 .. Len(Script) + 1 /\ at.done \in Nat
  BY <1>2 DEF MigratorRow
<1>4. row \in MigratorRow /\ row.at = "recorded" /\ row.next = at.next
  BY <1>2 DEF MigratorRow
<1>5. /\ at.at = "script" /\ at.done = Script[at.next]
      /\ ledger' = ledger \cup {at.next}
      /\ migrator' = [migrator EXCEPT ![m] = row]
      /\ UNCHANGED <<inWal, schema, writer>>
  BY DEF RecordVersion, MigratorAt
<1>6. at.next \in Version /\ at.next <= n + 1 /\ \A i \in 1 .. at.done : <<at.next, i>> \in schema
  BY <1>1, <1>5 DEF MigratedTo
<1> HIDE DEF row, at
<1>7. PICK k \in 0 .. Len(Script) :
         n <= k /\ k <= n + 1 /\ at.next <= k /\ (k = n + 1 => at.next = k) /\ ledger' = 1 .. k
  <2>1. ledger = 1 .. n
    BY <1>1 DEF MigratedTo
  <2>2. CASE at.next = n + 1
    <3>1. n + 1 \in 0 .. Len(Script) /\ ledger' = 1 .. (n + 1)
      BY <1>3, <1>5, <1>6, <2>1, <2>2, Versions
    <3> QED  BY <2>2, <3>1
  <2>3. CASE at.next # n + 1
    <3>1. at.next <= n /\ ledger' = 1 .. n
      BY <1>3, <1>5, <1>6, <2>1, <2>3, Versions
    <3> QED  BY <3>1
  <2> QED  BY <2>2, <2>3
<1>8. \A v \in 1 .. k : \A i \in 1 .. Script[v] : <<v, i>> \in schema
  BY <1>1, <1>5, <1>6, <1>7 DEF MigratedTo
<1>9. migrator' \in [Migrator -> MigratorRow] /\ migrator'[m] = row
      /\ \A q \in Migrator : q # m => migrator'[q] = migrator[q]
  BY <1>2, <1>4, <1>5
<1>10. \A q \in Migrator : migrator'[q].at \in
        {"opened", "begin", "locked", "script", "recorded", "returned", "raised"}
  BY <1>9 DEF MigratorRow
<1>11. MigrationsTypeOK'
  BY <1>5, <1>6, <1>10 DEF MigrationsInv, MigrationsTypeOK
<1>12. ASSUME NEW q \in Migrator
      PROVE  /\ migrator'[q].at \in {"locked", "script"} => migrator'[q].next <= k + 1
             /\ migrator'[q].at = "recorded" => migrator'[q].next <= k
             /\ migrator'[q].at = "script" =>
                    /\ migrator'[q].next \in Version
                    /\ \A i \in 1 .. migrator'[q].done : <<migrator'[q].next, i>> \in schema'
             /\ migrator'[q].at = "returned" => k = Len(Script) /\ migrator'[q].current = k
  <2>1. CASE q = m
    BY <1>4, <1>7, <1>9, <2>1
  <2>2. CASE q # m
    <3>1. migrator[q].next \in 1 .. Len(Script) + 1
      BY <1>2 DEF MigratorRow
    <3>2. Len(Script) \in Nat
      BY Versions
    <3> QED  BY <1>1, <1>5, <1>7, <1>9, <2>2, <3>1, <3>2 DEF MigratedTo
  <2> QED  BY <2>1, <2>2
<1>13. MigratedTo(k)'
  BY <1>5, <1>7, <1>8, <1>12 DEF MigratedTo
<1> QED  BY <1>7, <1>9, <1>11, <1>13 DEF MigrationsInv

\* Every step of apply_migrations keeps the invariant.
LEMMA MigrationsStep == ASSUME MigrationsInv, MigrationsNext PROVE MigrationsInv'
<1>1. PICK n \in 0 .. Len(Script) : MigratedTo(n)
  BY DEF MigrationsInv
<1>2. CurrentVersion = n /\ Len(Script) \in Nat /\ n \in Nat
  BY <1>1, CurrentIsLength, Versions DEF MigratedTo
<1>3. PICK m \in Migrator :
        \/ EnsureWal(m) \/ TakeLock(m) \/ StartScript(m) \/ RunStatement(m) \/ RecordVersion(m)
        \/ RetakeLock(m) \/ FinishMigrations(m) \/ MigrationFails(m) \/ MigrateAgain(m)
  BY DEF MigrationsNext
<1> DEFINE at == migrator[m]
<1>4. at \in MigratorRow /\ migrator \in [Migrator -> MigratorRow]
      /\ inWal \in BOOLEAN /\ writer \in Migrator \cup {NoMigrator}
  BY DEF MigrationsInv, MigrationsTypeOK
<1>5. at.next \in 1 .. Len(Script) + 1 /\ at.current \in 0 .. Len(Script)
  BY <1>4 DEF MigratorRow
<1>6. /\ at.at = "recorded" => at.next <= n
      /\ at.at = "locked" => at.next <= n + 1
  BY <1>1 DEF MigratedTo
<1>7. CASE EnsureWal(m)
  <2> DEFINE row == [at EXCEPT !.at = "begin"]
  <2>1. row \in MigratorRow /\ row.at = "begin"
    BY <1>4 DEF MigratorRow
  <2>2. migrator' = [migrator EXCEPT ![m] = row] /\ inWal' \in BOOLEAN /\ writer' = writer
        /\ UNCHANGED <<ledger, schema>>
    BY <1>7 DEF EnsureWal, MigratorGoes
  <2> HIDE DEF row, at
  <2> QED  BY <1>1, <1>4, <2>1, <2>2, MigratorMoves
<1>8. CASE TakeLock(m)
  <2> DEFINE row == [at EXCEPT !.at = "locked", !.current = n, !.next = n + 1]
  <2>4. n + 1 \in 1 .. Len(Script) + 1
    BY <1>2
  <2>1. row \in MigratorRow /\ row.at = "locked" /\ row.next = n + 1
    BY <1>4, <2>4 DEF MigratorRow
  <2>2. migrator' = [migrator EXCEPT ![m] = row] /\ inWal' = inWal /\ writer' = m
        /\ UNCHANGED <<ledger, schema>>
    BY <1>2, <1>8 DEF TakeLock
  <2> HIDE DEF row, at
  <2>3. row.next <= n + 1
    BY <1>2, <2>1
  <2> QED  BY <1>1, <1>4, <2>1, <2>2, <2>3, MigratorMoves
<1>9. CASE StartScript(m)
  <2> DEFINE row == [at EXCEPT !.at = "script", !.done = 0]
  <2>1. row \in MigratorRow /\ row.at = "script" /\ row.next = at.next /\ row.done = 0
    BY <1>4 DEF MigratorRow
  <2>2. migrator' = [migrator EXCEPT ![m] = row] /\ inWal' = inWal /\ writer' = NoMigrator
        /\ at.at = "locked" /\ at.next \in Version /\ UNCHANGED <<ledger, schema>>
    BY <1>9 DEF StartScript, MigratorAt
  <2> HIDE DEF row, at
  <2>3. row.next <= n + 1 /\ row.next \in Version
        /\ \A i \in 1 .. row.done : <<row.next, i>> \in schema
    BY <1>6, <2>1, <2>2
  <2> QED  BY <1>1, <1>4, <2>1, <2>2, <2>3, MigratorMoves
<1>10. CASE RetakeLock(m)
  <2> DEFINE row == [at EXCEPT !.at = "locked", !.next = at.next + 1]
  <2>1. migrator' = [migrator EXCEPT ![m] = row] /\ inWal' = inWal /\ writer' = m
        /\ at.at = "recorded" /\ UNCHANGED <<ledger, schema>>
    BY <1>10 DEF RetakeLock, MigratorAt
  <2>2. at.next + 1 \in 1 .. Len(Script) + 1 /\ at.next + 1 <= n + 1
    BY <1>2, <1>5, <1>6, <2>1
  <2>3. row \in MigratorRow /\ row.at = "locked" /\ row.next = at.next + 1
    BY <1>4, <2>2 DEF MigratorRow
  <2> HIDE DEF row, at
  <2> QED  BY <1>1, <1>4, <2>1, <2>2, <2>3, MigratorMoves
<1>11. CASE FinishMigrations(m)
  <2> DEFINE row == [at EXCEPT !.at = "returned", !.current = CurrentVersion]
  <2>1. row \in MigratorRow /\ row.at = "returned" /\ row.current = n
    BY <1>2, <1>4 DEF MigratorRow
  <2>2. migrator' = [migrator EXCEPT ![m] = row] /\ inWal' = inWal /\ writer' = NoMigrator
        /\ at.at = "locked" /\ at.next \notin Version /\ UNCHANGED <<ledger, schema>>
    BY <1>11 DEF FinishMigrations, MigratorAt
  <2> HIDE DEF row, at
  <2>3. n = Len(Script)
    BY <1>2, <1>5, <1>6, <2>2, Versions
  <2> QED  BY <1>1, <1>4, <2>1, <2>2, <2>3, MigratorMoves
<1>12. CASE MigrationFails(m)
  <2> DEFINE row == [at EXCEPT !.at = "raised"]
  <2>1. row \in MigratorRow /\ row.at = "raised"
    BY <1>4 DEF MigratorRow
  <2>2. migrator' = [migrator EXCEPT ![m] = row] /\ inWal' = inWal
        /\ writer' \in {writer, NoMigrator} /\ UNCHANGED <<ledger, schema>>
    BY <1>12 DEF MigrationFails, MigratorGoes
  <2> HIDE DEF row, at
  <2> QED  BY <1>1, <1>4, <2>1, <2>2, MigratorMoves
<1>13. CASE MigrateAgain(m)
  <2> DEFINE row == Connected
  <2>1. row \in MigratorRow /\ row.at = "opened"
    BY <1>2 DEF MigratorRow, Connected
  <2>2. migrator' = [migrator EXCEPT ![m] = row] /\ inWal' = inWal /\ writer' = writer
        /\ UNCHANGED <<ledger, schema>>
    BY <1>13 DEF MigrateAgain
  <2> HIDE DEF row, at
  <2> QED  BY <1>1, <1>4, <2>1, <2>2, MigratorMoves
<1> QED  BY <1>3, <1>7, <1>8, <1>9, <1>10, <1>11, <1>12, <1>13, RunStep, RecordStep

\* Nothing has been migrated.
LEMMA MigrationsStart == ASSUME MigrationsInit PROVE MigrationsInv
<1>1. Connected \in MigratorRow /\ Connected.at = "opened"
  BY Versions DEF Connected, MigratorRow
<1>2. migrator \in [Migrator -> MigratorRow] /\ \A m \in Migrator : migrator[m].at = "opened"
  BY <1>1 DEF MigrationsInit
<1>3. MigrationsTypeOK
  BY <1>2 DEF MigrationsInit, MigrationsTypeOK
<1>4. MigratedTo(0)
  BY <1>2 DEF MigratedTo, MigrationsInit
<1>5. 0 \in 0 .. Len(Script)
  BY Versions
<1> QED  BY <1>2, <1>3, <1>4, <1>5 DEF MigrationsInv

\* What the ledger says, and what a caller that returned relies on, is so.
LEMMA LedgerHolds == ASSUME MigrationsInv PROVE LedgerIsTrue
<1>1. PICK n \in 0 .. Len(Script) : MigratedTo(n)
  BY DEF MigrationsInv
<1>2. ASSUME NEW s \in Statement, NEW v \in 1 .. n, s[1] <= v PROVE s \in schema
  <2>1. PICK w \in Version : \E i \in 1 .. Script[w] : s = <<w, i>>
    BY Statements
  <2>2. PICK i \in 1 .. Script[w] : s = <<w, i>>
    BY <2>1
  <2>3. w \in 1 .. n
    BY <1>2, <2>2, Versions
  <2> QED  BY <1>1, <2>2, <2>3 DEF MigratedTo
<1>3. ASSUME NEW m \in Migrator, MigratorAt(m, "returned")
      PROVE  migrator[m].current \in Version /\ Statement \subseteq schema
  <2>1. n = Len(Script) /\ migrator[m].current = n
    BY <1>1, <1>3 DEF MigratedTo, MigratorAt
  <2>2. n \in Version
    BY <2>1, Versions
  <2>3. ASSUME NEW s \in Statement PROVE s \in schema
    <3>1. PICK w \in Version : \E i \in 1 .. Script[w] : s = <<w, i>>
      BY Statements
    <3>2. PICK i \in 1 .. Script[w] : s = <<w, i>>
      BY <3>1
    <3>3. w \in 1 .. n
      BY <2>1, Versions
    <3> QED  BY <1>1, <3>2, <3>3 DEF MigratedTo
  <2> QED  BY <2>1, <2>2, <2>3
<1>4. ledger = 1 .. n
  BY <1>1 DEF MigratedTo
<1> QED  BY <1>2, <1>3, <1>4 DEF LedgerIsTrue

-----------------------------------------------------------------------------
(* Backups                                                                 *)

\* The files at the path.
Path == [db |-> db, wal |-> wal]

\* Outside a restore no bundle is open.
RestIsEmpty == restore.at \notin Moving => restore.kept = Nothing

\* While files are moved the bundle has what was found, until it is back.
KeptHolds ==
    /\ restore.at \in Moving \ {"undoLog"} => restore.kept.db = before.db
    /\ restore.at = "undoLog" => DbHeld(Path)
    /\ restore.at = "dbMoved" /\ before.wal # NoDb =>
            dropped \/ (db = NoDb /\ wal = before.wal)
    /\ restore.at \in Moving \ {"dbMoved"} /\ before.wal # NoDb =>
            dropped \/ restore.kept.wal = before.wal

\* Afterwards the path or a bundle that was left behind has it.
RestHolds ==
    /\ restore.at \notin Moving =>
            \E p, q \in bundle \cup {Path} : DbHeld(p) /\ LogHeld(q)
    /\ restore.at \in {"done", "failed"} =>
            \E p \in bundle \cup {Path} : DbHeld(p) /\ LogHeld(p)

\* No log lies beside another database; while the bridge stays away none lies at
\* the path at all once it is moved, and the one in the bundle belongs there.
LogsOwn ==
    /\ restore.at \in {"copied", "done"} => ~ForeignLog
    /\ restore.at \notin Moving /\ ~disturbed => ~ForeignLog
    /\ restore.at = "dbMoved" /\ ~disturbed =>
            db = NoDb /\ (wal # NoDb => ~foreign /\ restore.kept.db # NoDb)
    /\ restore.at \in Moving \ {"dbMoved"} /\ ~disturbed =>
            wal = NoDb /\ (restore.kept.wal # NoDb => restore.own)

BackupInv == BackupTypeOK /\ RestIsEmpty /\ KeptHolds /\ RestHolds /\ LogsOwn

\* A copy of the database.
CopyRow == [name : Copy, data : Database, auto : BOOLEAN, older : SUBSET Copy]

\* What a backup holds is a database.
LEMMA BackupHolds == ASSUME BackupTypeOK, NEW c \in Taken PROVE Data(c) \in Database
<1>1. PICK x \in copies : x.name = c
  BY DEF Taken
<1>2. (CHOOSE y \in copies : y.name = c) \in copies
  BY <1>1
<1>3. \A y \in copies : y.data \in Database
  BY DEF BackupTypeOK
<1> QED  BY <1>2, <1>3 DEF Data

\* The content of a file is a set of writes.
LEMMA Contents == ASSUME NEW f \in File PROVE WritesIn(f) \in Database
  BY DEF WritesIn, File, Database

\* The fields of where a restore is.
LEMMA RestoreFields ==
    ASSUME restore \in RestoreState
    PROVE  /\ restore.at \in Moving \cup Ended \cup {"checked"}
           /\ restore.from \in Copy \cup {NoDb} /\ restore.kept \in Pair /\ restore.own \in BOOLEAN
           /\ restore.kept.db \in File /\ restore.kept.wal \in File
           /\ restore.kept = [db |-> restore.kept.db, wal |-> restore.kept.wal]
<1> DEFINE Stages == Moving \cup Ended \cup {"checked"}
<1>1. restore \in [at : Stages, from : Copy \cup {NoDb}, kept : Pair, own : BOOLEAN]
  BY DEF RestoreState
<1> HIDE DEF Stages
<1>2. /\ restore.at \in Stages /\ restore.from \in Copy \cup {NoDb}
      /\ restore.kept \in Pair /\ restore.own \in BOOLEAN
  BY <1>1
<1>3. /\ restore.kept.db \in File /\ restore.kept.wal \in File
      /\ restore.kept = [db |-> restore.kept.db, wal |-> restore.kept.wal]
  BY <1>2 DEF Pair
<1> QED  BY <1>2, <1>3 DEF Stages

\* A resting restore has no bundle.
LEMMA RestingFields ==
    ASSUME NEW s \in Ended \cup {"checked"}
    PROVE  /\ Resting(s) \in RestoreState /\ Resting(s).at = s /\ Resting(s).kept = Nothing
           /\ s \notin Moving /\ Nothing.db = NoDb /\ Nothing.wal = NoDb
           /\ Nothing \in Pair
<1>1. Nothing \in Pair /\ Nothing.db = NoDb /\ Nothing.wal = NoDb
  BY DEF Nothing, Pair, File
<1>2. Resting(s) \in RestoreState /\ Resting(s).at = s /\ Resting(s).kept = Nothing
  <2> DEFINE Stages == Moving \cup Ended \cup {"checked"}
  <2>1. s \in Stages /\ NoDb \in Copy \cup {NoDb} /\ FALSE \in BOOLEAN
    OBVIOUS
  <2> HIDE DEF Stages
  <2>2. Resting(s) \in [at : Stages, from : Copy \cup {NoDb}, kept : Pair, own : BOOLEAN]
    BY <1>1, <2>1 DEF Resting
  <2>3. Resting(s).at = s /\ Resting(s).kept = Nothing
    BY DEF Resting
  <2> QED  BY <2>2, <2>3 DEF RestoreState, Stages
<1>3. s \notin Moving
  BY DEF Ended, Moving
<1> QED  BY <1>1, <1>2, <1>3

\* The stages in which no file is moved.
LEMMA RestStages == {"none", "done", "failed", "checked"} \subseteq Ended \cup {"checked"}
  BY DEF Ended

\* A restore that rests asks nothing of its bundle.
LEMMA Rested ==
    ASSUME NEW s \in Ended \cup {"checked"}, restore' = Resting(s)
    PROVE  /\ restore' \in RestoreState /\ restore'.at = s /\ restore'.at \notin Moving
           /\ RestIsEmpty' /\ KeptHolds'
  BY RestingFields DEF RestIsEmpty, KeptHolds, Moving

\* A step to another stage leaves the rest of the record alone.
LEMMA StageFields ==
    ASSUME restore \in RestoreState, NEW s \in Moving
    PROVE  LET r == [restore EXCEPT !.at = s]
           IN r \in RestoreState /\ r.at = s /\ r.kept = restore.kept /\ r.own = restore.own
  BY DEF RestoreState

\* backup_state_db with its retention leaves the database alone.
LEMMA BackupStep ==
    ASSUME BackupInv, NEW c \in Copy, NEW auto \in BOOLEAN, NEW overwrite \in BOOLEAN,
           BackupStateDb(c, auto, overwrite)
    PROVE  BackupInv'
<1> DEFINE others == {[x EXCEPT !.older = @ \ {c}] : x \in {y \in copies : y.name # c}}
           new == [name |-> c, data |-> db \cup WritesIn(wal), auto |-> auto, older |-> Taken \ {c}]
<1>1. /\ db # NoDb /\ UNCHANGED <<db, wal, foreign, bundle, restore, before, dropped, disturbed>>
      /\ copies' = IF auto THEN Retained(others \cup {new}) ELSE others \cup {new}
      /\ broken' \subseteq broken
  BY DEF BackupStateDb, pathVars, pastVars
<1>2. copies \subseteq CopyRow /\ db \in Database /\ wal \in File /\ broken \subseteq Copy
  BY <1>1 DEF BackupInv, BackupTypeOK, CopyRow, File
<1>3. Taken \subseteq Copy
  BY <1>2 DEF Taken, CopyRow
<1>4. new \in CopyRow
  <2>1. db \cup WritesIn(wal) \in Database
    BY <1>2, Contents DEF Database
  <2> QED  BY <1>3, <2>1 DEF CopyRow
<1>5. others \subseteq CopyRow
  <2>1. ASSUME NEW x \in CopyRow PROVE [x EXCEPT !.older = @ \ {c}] \in CopyRow
    BY DEF CopyRow
  <2> QED  BY <1>2, <2>1
<1> HIDE DEF others, new
<1>6. Retained(others \cup {new}) \subseteq others \cup {new}
  BY DEF Retained
<1>7. copies' \subseteq CopyRow
  BY <1>1, <1>4, <1>5, <1>6
<1>8. BackupTypeOK'
  BY <1>1, <1>2, <1>7 DEF BackupInv, BackupTypeOK, CopyRow
<1>9. (RestIsEmpty /\ KeptHolds /\ RestHolds /\ LogsOwn)'
  BY <1>1 DEF BackupInv, RestIsEmpty, KeptHolds, RestHolds, LogsOwn, Path, DbHeld, LogHeld, ForeignLog
<1> QED  BY <1>8, <1>9 DEF BackupInv

\* A commit of the bridge, or a checkpoint, at any time.
LEMMA BridgeStep ==
    ASSUME BackupInv, Checkpoint \/ \E w \in DbWrite : BridgeWrites(w)
    PROVE  BackupInv'
<1>1. /\ db \in File /\ wal \in File /\ foreign \in BOOLEAN /\ dropped \in BOOLEAN
      /\ disturbed \in BOOLEAN /\ restore \in RestoreState /\ before \in Pair
  BY DEF BackupInv, BackupTypeOK
<1>2. /\ UNCHANGED <<copies, bundle, restore, broken, before>>
      /\ disturbed' = (disturbed \/ restore.at \in Moving)
  BY DEF Checkpoint, BridgeWrites, Intrudes
<1>3. /\ db' \in Database /\ wal' \in File /\ foreign' \in BOOLEAN /\ dropped' \in BOOLEAN
      /\ db # NoDb => db \subseteq db'
      /\ WritesIn(db) \cup WritesIn(wal) \subseteq db' \cup WritesIn(wal') \/ dropped'
      /\ dropped => dropped'
      /\ db = NoDb /\ wal # NoDb => dropped'
      /\ foreign' => foreign /\ db # NoDb /\ wal # NoDb
  <2>1. CASE Checkpoint
    <3>1. db # NoDb /\ wal # NoDb /\ db' = db \cup wal /\ wal' \in {{}, NoDb}
          /\ UNCHANGED <<foreign, dropped>>
      BY <2>1 DEF Checkpoint
    <3>2. db \in Database /\ wal \in Database /\ {} \in Database
      BY <1>1, <3>1 DEF File, Database
    <3>3. db' \in Database /\ wal' \in File
      BY <3>1, <3>2 DEF File, Database
    <3>4. WritesIn(db) = db /\ WritesIn(wal) = wal
      BY <3>1 DEF WritesIn
    <3> QED  BY <1>1, <3>1, <3>3, <3>4
  <2>2. CASE \E w \in DbWrite : BridgeWrites(w)
    <3>1. PICK w \in DbWrite : BridgeWrites(w)
      BY <2>2
    <3>2. /\ db' = WritesIn(db) /\ wal' = (IF db = NoDb THEN {} ELSE WritesIn(wal)) \cup {w}
          /\ foreign' = (foreign /\ db # NoDb /\ wal # NoDb)
          /\ dropped' = (dropped \/ (db = NoDb /\ wal # NoDb))
      BY <3>1 DEF BridgeWrites
    <3>3. WritesIn(db) \in Database /\ WritesIn(wal) \in Database
      BY <1>1, Contents
    <3>4. db' \in Database /\ wal' \in Database
      BY <3>2, <3>3 DEF Database
    <3>5. wal' # NoDb /\ WritesIn(wal') = wal' /\ db' # NoDb /\ wal' \in File
      BY <3>4, BackupAssumption DEF WritesIn, Database, File
    <3>6. db # NoDb => db' = db
      BY <3>2 DEF WritesIn
    <3>7. db = NoDb => WritesIn(db) = {} /\ (wal = NoDb => WritesIn(wal) = {})
      BY DEF WritesIn
    <3> QED  BY <1>1, <3>2, <3>4, <3>5, <3>6, <3>7
  <2> QED  BY <2>1, <2>2
<1>4. BackupTypeOK'
  BY <1>1, <1>2, <1>3 DEF BackupInv, BackupTypeOK, File
<1>5. RestIsEmpty'
  BY <1>2 DEF BackupInv, RestIsEmpty
<1>6. \A p : DbHeld(p) => DbHeld(p)'
  BY <1>2 DEF DbHeld
<1>7. \A p : LogHeld(p) => LogHeld(p)'
  BY <1>2, <1>3 DEF LogHeld
<1>8. DbHeld(Path) => DbHeld(Path)'
  BY <1>2, <1>3, BackupAssumption DEF DbHeld, Path, Database
<1>9. LogHeld(Path) => LogHeld(Path)'
  <2>1. WritesIn(db') = db'
    BY <1>3, BackupAssumption DEF WritesIn, Database
  <2> QED  BY <1>2, <1>3, <2>1 DEF LogHeld, Path
<1>10. KeptHolds'
  BY <1>2, <1>3, <1>8 DEF BackupInv, KeptHolds
<1>11. RestHolds'
  BY <1>2, <1>6, <1>7, <1>8, <1>9 DEF BackupInv, RestHolds
<1>12. LogsOwn'
  <2>1. ~disturbed' => ~disturbed /\ restore.at \notin Moving
    BY <1>2
  <2>2. ForeignLog' => ForeignLog
    BY <1>3 DEF ForeignLog
  <2> QED  BY <1>2, <2>1, <2>2 DEF BackupInv, LogsOwn, Moving
<1> QED  BY <1>4, <1>5, <1>10, <1>11, <1>12 DEF BackupInv

\* The steps that move files: what was found goes into the bundle and comes back.
LEMMA MovingStep ==
    ASSUME BackupInv,
           MoveDb \/ MoveLog \/ RemoveStale \/ ReplaceTarget \/ RemoveReplaced \/ RestoreFails
             \/ PutBackDb
    PROVE  BackupInv'
<1>1. /\ db \in File /\ wal \in File /\ foreign \in BOOLEAN /\ dropped \in BOOLEAN
      /\ disturbed \in BOOLEAN /\ restore \in RestoreState /\ before \in Pair
      /\ bundle \subseteq Pair /\ NoDb \in File
      /\ before.db \in File /\ before.wal \in File
  BY DEF BackupInv, BackupTypeOK, File, Pair
<1>2. /\ restore.kept.db \in File /\ restore.kept.wal \in File /\ restore.own \in BOOLEAN
      /\ restore.kept \in Pair
  BY <1>1, RestoreFields
<1>3. UNCHANGED <<copies, bundle, broken>>
  BY DEF MoveDb, MoveLog, RemoveStale, ReplaceTarget, RemoveReplaced, RestoreFails, PutBackDb,
         pathVars, pastVars
<1> DEFINE Goes ==
        /\ db' \in File /\ wal' \in File /\ foreign' \in BOOLEAN /\ restore' \in RestoreState
        /\ before' \in Pair /\ dropped' \in BOOLEAN /\ disturbed' \in BOOLEAN
        /\ restore'.at \in Moving /\ KeptHolds' /\ LogsOwn'
<1>4. SUFFICES Goes
  BY <1>1, <1>3 DEF BackupInv, BackupTypeOK, RestIsEmpty, RestHolds, Moving
<1>5. KeptHolds /\ LogsOwn /\ RestIsEmpty
  BY DEF BackupInv
<1>6. \A s \in Moving :
        LET r == [restore EXCEPT !.at = s]
        IN r \in RestoreState /\ r.at = s /\ r.kept = restore.kept /\ r.own = restore.own
  BY <1>1, StageFields
<1>7. CASE MoveDb
  <2>1. /\ restore.at = "checked" /\ db' = NoDb /\ before' = [db |-> db, wal |-> wal]
        /\ restore' = [restore EXCEPT !.at = "dbMoved", !.kept.db = db]
        /\ dropped' = FALSE /\ disturbed' = (disturbed \/ (db = NoDb /\ wal # NoDb))
        /\ UNCHANGED <<wal, foreign>>
    BY <1>7 DEF MoveDb
  <2>2. /\ restore' \in RestoreState /\ restore'.at = "dbMoved" /\ restore'.kept.db = db
    BY <1>1, <1>2, <2>1 DEF RestoreState, Pair, Moving
  <2>3. before'.db = db /\ before'.wal = wal /\ before' \in Pair
    BY <1>1, <2>1 DEF Pair
  <2>4. KeptHolds'
    BY <2>1, <2>2, <2>3 DEF KeptHolds, Moving
  <2>5. ~disturbed' /\ wal # NoDb => ~foreign /\ db # NoDb
    BY <1>1, <1>5, <2>1 DEF LogsOwn, ForeignLog, Moving
  <2>6. LogsOwn'
    BY <2>1, <2>2, <2>5 DEF LogsOwn, Moving
  <2> QED  BY <1>1, <2>1, <2>2, <2>3, <2>4, <2>6 DEF Moving
<1>8. CASE MoveLog
  <2>1. /\ restore.at = "dbMoved" /\ wal' = NoDb
        /\ restore' = [restore EXCEPT !.at = "logMoved", !.kept.wal = wal,
                            !.own = (~foreign /\ db = NoDb /\ restore.kept.db # NoDb)]
        /\ UNCHANGED <<db, foreign, before, dropped, disturbed>>
    BY <1>8 DEF MoveLog, pastVars
  <2>2. /\ restore' \in RestoreState /\ restore'.at = "logMoved"
        /\ restore'.kept.db = restore.kept.db /\ restore'.kept.wal = wal
        /\ restore'.own = (~foreign /\ db = NoDb /\ restore.kept.db # NoDb)
    BY <1>1, <1>2, <2>1 DEF RestoreState, Pair, Moving
  <2>3. KeptHolds'
    BY <1>5, <2>1, <2>2 DEF KeptHolds, Moving
  <2>4. LogsOwn'
    BY <1>5, <2>1, <2>2 DEF LogsOwn, Moving
  <2> QED  BY <1>1, <2>1, <2>2, <2>3, <2>4 DEF Moving
<1>9. CASE RemoveStale \/ RemoveReplaced
  <2>1. PICK s \in {"moved", "copied"} :
            /\ restore.at = (IF s = "moved" THEN "logMoved" ELSE "replaced")
            /\ restore' = [restore EXCEPT !.at = s]
            /\ wal' = NoDb /\ UNCHANGED <<db, foreign, before, dropped, disturbed>>
    BY <1>9 DEF RemoveStale, RemoveReplaced, pastVars
  <2>2. /\ restore' \in RestoreState /\ restore'.at = s
        /\ restore'.kept = restore.kept /\ restore'.own = restore.own
    BY <1>6, <2>1 DEF Moving
  <2>3. KeptHolds'
    BY <1>5, <2>1, <2>2 DEF KeptHolds, Moving
  <2>4. LogsOwn'
    BY <1>5, <2>1, <2>2 DEF LogsOwn, ForeignLog, Moving
  <2> QED  BY <1>1, <2>1, <2>2, <2>3, <2>4 DEF Moving
<1>10. CASE ReplaceTarget
  <2>1. /\ restore.at = "moved" /\ restore.from \in Taken
        /\ db' = Data(restore.from) /\ foreign' = (wal # NoDb)
        /\ restore' = [restore EXCEPT !.at = "replaced"]
        /\ UNCHANGED <<wal, before, dropped, disturbed>>
    BY <1>10 DEF ReplaceTarget, pastVars
  <2>2. /\ restore' \in RestoreState /\ restore'.at = "replaced"
        /\ restore'.kept = restore.kept /\ restore'.own = restore.own
    BY <1>6, <2>1 DEF Moving
  <2>3. db' \in File
    BY <2>1, BackupHolds DEF BackupInv, File
  <2>4. KeptHolds'
    BY <1>5, <2>1, <2>2 DEF KeptHolds, Moving
  <2>5. LogsOwn'
    BY <1>5, <2>1, <2>2 DEF LogsOwn, ForeignLog, Moving
  <2> QED  BY <1>1, <2>1, <2>2, <2>3, <2>4, <2>5 DEF Moving
<1>11. CASE RestoreFails
  <2>1. /\ restore.at \in {"moved", "replaced", "copied"}
        /\ restore' = [restore EXCEPT !.at = "undoDb"]
        /\ UNCHANGED <<db, wal, foreign, before, dropped, disturbed>>
    BY <1>11 DEF RestoreFails, pathVars, pastVars
  <2>2. /\ restore' \in RestoreState /\ restore'.at = "undoDb"
        /\ restore'.kept = restore.kept /\ restore'.own = restore.own
    BY <1>6, <2>1 DEF Moving
  <2>3. KeptHolds'
    BY <1>5, <2>1, <2>2 DEF KeptHolds, Moving
  <2>4. LogsOwn'
    BY <1>5, <2>1, <2>2 DEF LogsOwn, ForeignLog, Moving
  <2> QED  BY <1>1, <2>1, <2>2, <2>3, <2>4 DEF Moving
<1>12. CASE PutBackDb
  <2>1. restore.at = "undoDb" /\ UNCHANGED <<wal, before, dropped, disturbed>>
    BY <1>12 DEF PutBackDb, pastVars
  <2>2. CASE restore.kept.db = NoDb
    <3>1. restore' = [restore EXCEPT !.at = "undoLog"] /\ UNCHANGED <<db, foreign>>
      BY <1>12, <2>2 DEF PutBackDb
    <3>2. /\ restore' \in RestoreState /\ restore'.at = "undoLog"
          /\ restore'.kept = restore.kept /\ restore'.own = restore.own
      BY <1>6, <3>1 DEF Moving
    <3>3. KeptHolds'
      BY <1>5, <2>1, <2>2, <3>1, <3>2 DEF KeptHolds, Moving, DbHeld
    <3>4. LogsOwn'
      BY <1>5, <2>1, <3>1, <3>2 DEF LogsOwn, ForeignLog, Moving
    <3> QED  BY <1>1, <2>1, <3>1, <3>2, <3>3, <3>4 DEF Moving
  <2>3. CASE restore.kept.db # NoDb /\ db # NoDb
    <3>1. db' = NoDb /\ UNCHANGED <<restore, foreign>>
      BY <1>12, <2>3 DEF PutBackDb
    <3>2. KeptHolds'
      BY <1>5, <2>1, <3>1 DEF KeptHolds, Moving
    <3>3. LogsOwn'
      BY <1>5, <2>1, <3>1 DEF LogsOwn, ForeignLog, Moving
    <3> QED  BY <1>1, <2>1, <3>1, <3>2, <3>3 DEF Moving
  <2>4. CASE restore.kept.db # NoDb /\ db = NoDb
    <3>1. /\ db' = restore.kept.db /\ foreign' = (wal # NoDb)
          /\ restore' = [restore EXCEPT !.at = "undoLog", !.kept.db = NoDb]
      BY <1>12, <2>4 DEF PutBackDb
    <3>2. /\ restore' \in RestoreState /\ restore'.at = "undoLog"
          /\ restore'.kept.wal = restore.kept.wal /\ restore'.own = restore.own
      BY <1>1, <1>2, <3>1 DEF RestoreState, Pair, Moving
    <3>3. DbHeld(Path)'
      BY <1>5, <2>1, <2>4, <3>1 DEF KeptHolds, Moving, DbHeld, Path
    <3>4. KeptHolds'
      BY <1>5, <2>1, <3>2, <3>3 DEF KeptHolds, Moving
    <3>5. LogsOwn'
      BY <1>5, <2>1, <3>1, <3>2 DEF LogsOwn, ForeignLog, Moving
    <3> QED  BY <1>1, <1>2, <2>1, <3>1, <3>2, <3>4, <3>5 DEF Moving
  <2> QED  BY <2>2, <2>3, <2>4
<1> QED  BY <1>7, <1>8, <1>9, <1>10, <1>11, <1>12

\* The steps that end a restore, or begin one: what was found is where it may stay.
LEMMA EndingStep ==
    ASSUME BackupInv,
           NoTemporaryFile \/ RestoreDone \/ RestoreCrash \/ PutBackLog
             \/ (\E c \in Copy : CheckRestore(c) \/ Damage(c))
    PROVE  BackupInv'
<1>1. /\ db \in File /\ wal \in File /\ foreign \in BOOLEAN /\ dropped \in BOOLEAN
      /\ disturbed \in BOOLEAN /\ restore \in RestoreState /\ before \in Pair
      /\ bundle \subseteq Pair /\ NoDb \in File /\ broken \subseteq Copy
  BY DEF BackupInv, BackupTypeOK, File
<1>2. /\ restore.kept.db \in File /\ restore.kept.wal \in File /\ restore.own \in BOOLEAN
      /\ restore.kept \in Pair /\ restore.kept = [db |-> restore.kept.db, wal |-> restore.kept.wal]
  BY <1>1, RestoreFields
<1>3. UNCHANGED <<copies, before, dropped, disturbed>>
  BY DEF NoTemporaryFile, RestoreDone, RestoreCrash, PutBackLog, CheckRestore, Damage, pastVars
<1>4. KeptHolds /\ LogsOwn /\ RestIsEmpty /\ RestHolds
  BY DEF BackupInv
<1> DEFINE Ends ==
        /\ db' \in File /\ wal' \in File /\ foreign' \in BOOLEAN /\ restore' \in RestoreState
        /\ bundle' \subseteq Pair /\ broken' \subseteq Copy
        /\ RestIsEmpty' /\ KeptHolds' /\ RestHolds' /\ LogsOwn'
<1>5. SUFFICES Ends
  BY <1>1, <1>3 DEF BackupInv, BackupTypeOK
<1>6. \A p : (DbHeld(p) => DbHeld(p)') /\ (LogHeld(p) => LogHeld(p)')
  BY <1>3 DEF DbHeld, LogHeld
<1>7. ASSUME restore.at \in Moving \ {"dbMoved", "undoLog"}
      PROVE  DbHeld(restore.kept) /\ LogHeld(restore.kept)
  BY <1>4, <1>7 DEF KeptHolds, DbHeld, LogHeld, WritesIn
<1>8. ASSUME restore.kept = Nothing
      PROVE  /\ DbHeld(restore.kept) => DbHeld(Path)
             /\ LogHeld(restore.kept) => LogHeld(Path)
  BY <1>8 DEF DbHeld, LogHeld, Nothing, WritesIn
<1>10. ASSUME LeaveBundle
       PROVE  /\ bundle' \subseteq Pair /\ bundle \subseteq bundle'
              /\ restore.kept = Nothing \/ restore.kept \in bundle'
  BY <1>1, <1>2, <1>10 DEF LeaveBundle
<1>11. ASSUME UNCHANGED <<db, wal>> PROVE Path' = Path
  BY <1>11 DEF Path
<1>12. CASE NoTemporaryFile \/ RestoreDone
  <2>1. PICK s \in {"failed", "done"} :
            /\ restore.at = (IF s = "failed" THEN "moved" ELSE "copied")
            /\ restore' = Resting(s) /\ LeaveBundle /\ UNCHANGED <<db, wal, foreign, broken>>
    BY <1>12 DEF NoTemporaryFile, RestoreDone, pathVars
  <2>0. restore' \in RestoreState /\ restore'.at = s /\ RestIsEmpty' /\ KeptHolds'
    BY <2>1, Rested, RestStages
  <2>2. DbHeld(restore.kept) /\ LogHeld(restore.kept)
    BY <1>7, <2>1 DEF Moving
  <2>3. \E p \in bundle' \cup {Path} : DbHeld(p) /\ LogHeld(p)
    BY <1>8, <1>10, <2>1, <2>2
  <2>4. \E p \in bundle' \cup {Path'} : DbHeld(p)' /\ LogHeld(p)'
    BY <1>6, <1>11, <2>1, <2>3
  <2>5. RestHolds'
    BY <2>4 DEF RestHolds
  <2>6. LogsOwn'
    BY <1>3, <1>4, <2>0, <2>1 DEF LogsOwn, ForeignLog, Moving
  <2> QED  BY <1>1, <1>10, <2>0, <2>1, <2>5, <2>6
<1>13. CASE RestoreCrash
  <2>1. /\ restore.at \in Moving \cup {"checked"} /\ restore' = Resting("none") /\ LeaveBundle
        /\ UNCHANGED <<db, wal, foreign, broken>>
    BY <1>13 DEF RestoreCrash, pathVars
  <2>2. restore' \in RestoreState /\ restore'.at = "none" /\ RestIsEmpty' /\ KeptHolds'
    BY <2>1, Rested, RestStages
  <2>3. \E p, q \in bundle' \cup {Path} : DbHeld(p) /\ LogHeld(q)
    <3>1. CASE restore.at \in Moving \ {"dbMoved", "undoLog"}
      BY <1>7, <1>8, <1>10, <2>1, <3>1
    <3>2. CASE restore.at = "dbMoved"
      <4>1. DbHeld(restore.kept) /\ LogHeld(Path)
        BY <1>4, <3>2 DEF KeptHolds, DbHeld, LogHeld, WritesIn, Moving, Path
      <4> QED  BY <1>8, <1>10, <2>1, <4>1
    <3>3. CASE restore.at = "undoLog"
      <4>1. DbHeld(Path) /\ LogHeld(restore.kept)
        BY <1>4, <3>3 DEF KeptHolds, LogHeld, WritesIn, Moving
      <4> QED  BY <1>8, <1>10, <2>1, <4>1
    <3>4. CASE restore.at = "checked"
      <4>1. \E p, q \in bundle \cup {Path} : DbHeld(p) /\ LogHeld(q)
        BY <1>4, <3>4 DEF RestHolds, Moving
      <4> QED  BY <1>10, <2>1, <4>1
    <3> QED  BY <2>1, <3>1, <3>2, <3>3, <3>4
  <2>4. \E p, q \in bundle' \cup {Path'} : DbHeld(p)' /\ LogHeld(q)'
    BY <1>6, <1>11, <2>1, <2>3
  <2>5. RestHolds'
    BY <2>2, <2>4 DEF RestHolds
  <2>6. LogsOwn'
    BY <1>3, <1>4, <2>1, <2>2 DEF LogsOwn, ForeignLog, Moving
  <2> QED  BY <1>1, <1>10, <2>1, <2>2, <2>5, <2>6
<1>14. CASE PutBackLog
  <2>1. restore.at = "undoLog" /\ UNCHANGED <<db, bundle, broken>>
    BY <1>14 DEF PutBackLog
  <2>2. DbHeld(Path)
    BY <1>4, <2>1 DEF KeptHolds
  <2>3. ASSUME DbHeld(Path'), LogHeld(Path'), restore' = Resting("failed")
        PROVE  RestHolds'
    <3>1. \E p \in bundle' \cup {Path'} : DbHeld(p)' /\ LogHeld(p)'
      BY <1>6, <2>3
    <3> QED  BY <3>1 DEF RestHolds
  <2>4. CASE restore.kept.wal = NoDb
    <3>1. restore' = Resting("failed") /\ UNCHANGED <<wal, foreign>>
      BY <1>14, <2>4 DEF PutBackLog
    <3>0. restore' \in RestoreState /\ restore'.at = "failed" /\ RestIsEmpty' /\ KeptHolds'
      BY <3>1, Rested, RestStages
    <3>2. LogHeld(Path)
      BY <1>4, <2>1, <2>4 DEF KeptHolds, LogHeld, WritesIn, Moving
    <3>3. RestHolds'
      BY <1>11, <2>1, <2>2, <2>3, <3>1, <3>2
    <3>4. LogsOwn'
      BY <1>3, <1>4, <2>1, <3>0, <3>1 DEF LogsOwn, ForeignLog, Moving
    <3> QED  BY <1>1, <2>1, <3>0, <3>1, <3>3, <3>4
  <2>5. CASE restore.kept.wal # NoDb /\ wal # NoDb
    <3>1. wal' = NoDb /\ UNCHANGED <<restore, foreign>>
      BY <1>14, <2>5 DEF PutBackLog
    <3>2. RestIsEmpty' /\ RestHolds'
      BY <2>1, <3>1 DEF RestIsEmpty, RestHolds, Moving
    <3>3. DbHeld(Path)'
      BY <1>3, <2>1, <2>2 DEF DbHeld, Path
    <3>4. KeptHolds'
      BY <1>3, <1>4, <2>1, <3>1, <3>3 DEF KeptHolds, Moving
    <3>5. LogsOwn'
      BY <1>3, <1>4, <2>1, <3>1 DEF LogsOwn, ForeignLog, Moving
    <3> QED  BY <1>1, <2>1, <3>1, <3>2, <3>4, <3>5
  <2>6. CASE restore.kept.wal # NoDb /\ wal = NoDb
    <3>1. wal' = restore.kept.wal /\ foreign' = ~restore.own /\ restore' = Resting("failed")
      BY <1>14, <2>6 DEF PutBackLog
    <3>0. restore' \in RestoreState /\ restore'.at = "failed" /\ RestIsEmpty' /\ KeptHolds'
      BY <3>1, Rested, RestStages
    <3>2. DbHeld(Path')
      BY <2>1, <2>2 DEF DbHeld, Path
    <3>3. LogHeld(Path')
      BY <1>4, <2>1, <3>1 DEF KeptHolds, LogHeld, WritesIn, Moving, Path
    <3>4. RestHolds'
      BY <2>3, <3>1, <3>2, <3>3
    <3>5. LogsOwn'
      <4>1. ~disturbed => restore.own
        BY <1>4, <2>1, <2>6 DEF LogsOwn, Moving
      <4>2. ~disturbed => ~foreign'
        BY <1>2, <3>1, <4>1
      <4> QED  BY <1>3, <3>0, <4>2 DEF LogsOwn, ForeignLog, Moving
    <3> QED  BY <1>1, <1>2, <2>1, <3>0, <3>1, <3>4, <3>5
  <2> QED  BY <2>4, <2>5, <2>6
<1>15. ASSUME NEW c \in Copy, CheckRestore(c) PROVE Ends
  <2>1. /\ restore.at \in Ended /\ restore' = [Resting("checked") EXCEPT !.from = c]
        /\ UNCHANGED <<db, wal, foreign, bundle, broken>>
    BY <1>15 DEF CheckRestore, pathVars
  <2>0. /\ Resting("checked") \in RestoreState /\ Resting("checked").at = "checked"
        /\ Resting("checked").kept = Nothing
    BY RestStages, RestingFields
  <2>2. restore' \in RestoreState /\ restore'.at = "checked" /\ restore'.kept = Nothing
    BY <2>0, <2>1 DEF RestoreState
  <2>3. RestIsEmpty' /\ KeptHolds'
    BY <2>2 DEF RestIsEmpty, KeptHolds, Moving
  <2>4. \E p, q \in bundle \cup {Path} : DbHeld(p) /\ LogHeld(q)
    BY <1>4, <2>1 DEF RestHolds, Ended, Moving
  <2>5. \E p, q \in bundle' \cup {Path'} : DbHeld(p)' /\ LogHeld(q)'
    BY <1>6, <1>11, <2>1, <2>4
  <2>6. RestHolds'
    BY <2>2, <2>5 DEF RestHolds
  <2>7. LogsOwn'
    BY <1>3, <1>4, <2>1, <2>2 DEF LogsOwn, ForeignLog, Moving, Ended
  <2> QED  BY <1>1, <2>1, <2>2, <2>3, <2>6, <2>7
<1>16. ASSUME NEW c \in Copy, Damage(c) PROVE Ends
  <2>1. UNCHANGED <<db, wal, foreign, bundle, restore>> /\ broken' = broken \cup {c}
    BY <1>16 DEF Damage, pathVars
  <2> QED
    BY <1>1, <1>3, <1>4, <2>1
      DEF RestIsEmpty, KeptHolds, RestHolds, LogsOwn, Path, DbHeld, LogHeld, ForeignLog
<1> HIDE DEF Ends
<1> QED  BY <1>12, <1>13, <1>14, <1>15, <1>16

\* Writes, backups, and every step, failure and crash of a restore.
LEMMA BackupSteps == ASSUME BackupInv, BackupNext PROVE BackupInv'
  BY BackupStep, BridgeStep, MovingStep, EndingStep DEF BackupNext

\* A new database, without backups.
LEMMA BackupStart == ASSUME BackupInit PROVE BackupInv
<1>1. restore.at = "none" /\ restore.kept = Nothing /\ restore \in RestoreState
      /\ restore.at \notin Moving /\ Nothing \in Pair /\ Nothing.db = NoDb /\ Nothing.wal = NoDb
  <2>1. "none" \in Ended \cup {"checked"} /\ restore = Resting("none")
    BY RestStages DEF BackupInit
  <2> QED  BY <2>1, RestingFields
<1>2. BackupTypeOK
  BY <1>1 DEF BackupInit, BackupTypeOK, File, Database
<1>3. DbHeld(Path) /\ LogHeld(Path)
  BY <1>1 DEF BackupInit, DbHeld, LogHeld, WritesIn
<1> QED
  BY <1>1, <1>2, <1>3
    DEF BackupInit, BackupInv, RestIsEmpty, KeptHolds, RestHolds, LogsOwn, ForeignLog, Moving

\* A step that leaves the backups alone keeps their invariant.
LEMMA BackupRest == BackupInv /\ UNCHANGED backupVars => BackupInv'
  BY DEF backupVars, BackupInv, BackupTypeOK, RestIsEmpty, KeptHolds, RestHolds, LogsOwn, Path,
         DbHeld, LogHeld, ForeignLog

\* The invariant of a restore holds in every reachable state.
LEMMA BackupAlways == BackupSpec => []BackupInv
  BY BackupStart, BackupSteps, BackupRest, PTL DEF BackupSpec

\* restore_state_db: for any backups and writes, and wherever it fails or dies, what
\* it found at the path is at the path or in a bundle, and in one place when it ends;
\* the exception is a -wal file that SQLite dropped without its database.
THEOREM RestoreKeeps == BackupSpec => []PreviousContentKept
<1>1. BackupInv => PreviousContentKept
  <2> SUFFICES ASSUME BackupInv PROVE PreviousContentKept
    OBVIOUS
  <2>1. KeptHolds /\ RestHolds /\ Path \in Places /\ restore.kept \in Places /\ bundle \subseteq Places
    BY DEF BackupInv, Places, Path
  <2>2. restore \in RestoreState
    BY DEF BackupInv, BackupTypeOK
  <2>3. CASE restore.at \notin Moving
    BY <2>1, <2>3 DEF PreviousContentKept, RestHolds
  <2>4. CASE restore.at \in Moving \ {"undoLog"}
    <3>1. DbHeld(restore.kept)
      BY <2>1, <2>4 DEF KeptHolds, DbHeld
    <3>2. LogHeld(Path) \/ LogHeld(restore.kept)
      BY <2>1, <2>4 DEF KeptHolds, LogHeld, WritesIn, Path
    <3> QED  BY <2>1, <2>4, <3>1, <3>2 DEF PreviousContentKept, Moving
  <2>5. CASE restore.at = "undoLog"
    <3>1. DbHeld(Path) /\ LogHeld(restore.kept)
      BY <2>1, <2>5 DEF KeptHolds, LogHeld, WritesIn, Moving
    <3> QED  BY <2>1, <2>5, <3>1 DEF PreviousContentKept
  <2> QED  BY <2>3, <2>4, <2>5
<1> QED  BY <1>1, BackupAlways, PTL

\* restore_state_db: for any backups and writes, a restore leaves no -wal file beside
\* a database it does not belong to when it succeeds; nor when it fails or dies, while
\* the bridge stays away and the log was not alone from the start.
THEOREM RestoredLogs == BackupSpec => []LogsBelong
<1>1. BackupInv => LogsBelong
  <2> SUFFICES ASSUME BackupInv PROVE LogsBelong
    OBVIOUS
  <2>1. LogsOwn
    BY DEF BackupInv
  <2>2. Ended \cap Moving = {}
    BY DEF Ended, Moving
  <2>3. restore.at \in {"copied", "done"} => ~ForeignLog
    BY <2>1 DEF LogsOwn
  <2>4. restore.at \notin Moving /\ ~disturbed => ~ForeignLog
    BY <2>1 DEF LogsOwn
  <2> QED  BY <2>2, <2>3, <2>4 DEF LogsBelong
<1> QED  BY <1>1, BackupAlways, PTL

-----------------------------------------------------------------------------
(* Rotations                                                               *)

\* A rotation has its copy of a file; its value is in a content; two contents differ in
\* one key at most; and a rotation is between its first copy and its last replacement.
Copied(r, f) == saved[r][f] # NotSaved
Holds(content, r) == content[KeyOfRotation[r]] = r
AgreeBut(k, one, other) == \A j \in SecretKey \ {k} : one[j] = other[j]
Working(r) == stage[r] \in {"saving", "replacing", "undoing"}

\* Whoever is at work on the files has the lock, a plan is applied once, and the
\* files are all saved before one is replaced or put back.
RotationProgress(r) ==
    /\ Working(r) => fileLock = r
    /\ token[r] \in {"none", "live"} => stage[r] = "idle" /\ applied[r] = 0
    /\ stage[r] = "admitted" => applied[r] = 0
    /\ stage[r] \in {"idle", "admitted"} => saved[r] = NothingSaved
    /\ stage[r] \in {"idle", "admitted", "saving"} => seenEnv[r] = NothingSaved
    /\ stage[r] \in {"replacing", "done", "undoing"} => Unsaved(r) = {}

\* A file is saved before its new value is anywhere, in a file, in a copy or in
\* what some rotation has read; and what a rotation at work has saved or read of
\* the other keys is what the file has.
NotYetOut(r, f) ==
    /\ ~Holds(env[f], r)
    /\ \A q \in Rotation : ~Holds(saved[q][f], r) /\ ~Holds(seenEnv[q][f], r)

RotationCopies(r) ==
    \A f \in FilesOfRotation[r] :
        /\ Copied(r, f) => ~Holds(saved[r][f], r)
        /\ ~Copied(r, f) => NotYetOut(r, f)
        /\ stage[r] \in {"saving", "replacing"} /\ Copied(r, f)
                => AgreeBut(KeyOfRotation[r], saved[r][f], env[f])
        /\ stage[r] = "replacing" /\ f \in Unreplaced(r) /\ seenEnv[r][f] # NotSaved
                => seenEnv[r][f] = env[f]

RotationInv ==
    /\ RotationTypeOK /\ applied \in [Rotation -> 0 .. 1]
    /\ \A r \in Rotation : RotationProgress(r) /\ RotationCopies(r)

\* What a step takes out of a file: see RotationsKeepOthers.
OthersKept ==
    \A f \in EnvFile, k \in SecretKey :
        env'[f][k] # env[f][k] =>
            \E r \in Rotation :
                stage[r] = "undoing" \/ (stage[r] \in {"saving", "replacing"}
                                            /\ KeyOfRotation[r] = k)

\* A file that was saved is told from one that was not.
LEMMA SavedIsContent ==
    ASSUME NEW r \in Rotation
    PROVE  /\ \A c \in Content : c # NotSaved
           /\ ~Holds(NotSaved, r)
<1>1. KeyOfRotation[r] \in SecretKey /\ r # "absent" /\ "absent" \notin Value
  BY RotationAssumption DEF Value
<1>2. NotSaved[KeyOfRotation[r]] = "absent"
  BY <1>1 DEF NotSaved
<1>3. \A c \in Content : c[KeyOfRotation[r]] \in Value
  BY <1>1 DEF Content
<1> QED  BY <1>1, <1>2, <1>3 DEF Holds

\* A step that changes no file, no copy and nothing that was read keeps the copies
\* of a rotation, if it goes on or has nothing saved.
LEMMA CopiesStay ==
    ASSUME RotationInv, NEW r \in Rotation, UNCHANGED <<env, saved, seenEnv>>,
           stage'[r] \in {"saving", "replacing"} =>
                stage'[r] = stage[r] \/ (stage'[r] = "saving" /\ saved[r] = NothingSaved)
    PROVE  RotationCopies(r)'
<1>1. ASSUME NEW f \in FilesOfRotation[r], stage'[r] = "saving", saved[r] = NothingSaved
      PROVE  ~Copied(r, f)
  BY <1>1, RotationAssumption DEF Copied, NothingSaved
<1>2. RotationCopies(r)
  BY DEF RotationInv
<1>3. ASSUME NEW f \in FilesOfRotation[r]
      PROVE  /\ Copied(r, f)' => ~Holds(saved'[r][f], r)
             /\ ~Copied(r, f)' => NotYetOut(r, f)'
             /\ stage'[r] \in {"saving", "replacing"} /\ Copied(r, f)'
                    => AgreeBut(KeyOfRotation[r], saved'[r][f], env'[f])
             /\ stage'[r] = "replacing" /\ f \in Unreplaced(r)' /\ seenEnv'[r][f] # NotSaved
                    => seenEnv'[r][f] = env'[f]
  <2>1. Copied(r, f)' <=> Copied(r, f)
    BY DEF Copied
  <2>2. NotYetOut(r, f)' <=> NotYetOut(r, f)
    BY DEF NotYetOut
  <2>3. Unreplaced(r)' = Unreplaced(r)
    BY DEF Unreplaced
  <2>4. stage'[r] \in {"saving", "replacing"} /\ Copied(r, f) => stage'[r] = stage[r]
    BY <1>1
  <2> QED  BY <1>2, <2>1, <2>2, <2>3, <2>4 DEF RotationCopies
<1> QED  BY <1>3 DEF RotationCopies

\* A rotation that is not at work, and whose copies are untouched, does not mind
\* what the one at work puts into a file, as long as it comes from a file, from a
\* copy, or from what it has read with its own value in it.
LEMMA FilesMove ==
    ASSUME RotationInv, NEW q \in Rotation, UNCHANGED <<saved, seenEnv>>,
           \A g \in EnvFile : \/ env'[g] = env[g]
                              \/ \E x \in Rotation : env'[g] = saved[x][g]
                              \/ \E x \in Rotation :
                                    /\ Copied(x, g) /\ seenEnv[x][g] \in Content
                                    /\ env'[g] = [seenEnv[x][g] EXCEPT ![KeyOfRotation[x]] = x]
    PROVE  \A g \in FilesOfRotation[q] : ~Copied(q, g) => NotYetOut(q, g)'
<1>1. ASSUME NEW g \in FilesOfRotation[q], ~Copied(q, g) PROVE ~Holds(env'[g], q)
  <2>1. NotYetOut(q, g) /\ g \in EnvFile /\ KeyOfRotation[q] \in SecretKey
    BY <1>1, RotationAssumption DEF RotationInv, RotationCopies
  <2>2. ASSUME NEW x \in Rotation, Copied(x, g), seenEnv[x][g] \in Content,
               env'[g] = [seenEnv[x][g] EXCEPT ![KeyOfRotation[x]] = x]
        PROVE  ~Holds(env'[g], q)
    <3>1. x # q
      BY <1>1, <2>2
    <3>2. seenEnv[x][g][KeyOfRotation[q]] # q
      BY <2>1 DEF NotYetOut, Holds
    <3>3. env'[g][KeyOfRotation[q]] \in {x, seenEnv[x][g][KeyOfRotation[q]]}
      BY <2>1, <2>2 DEF Content
    <3> QED  BY <3>1, <3>2, <3>3 DEF Holds
  <2> QED  BY <2>1, <2>2 DEF NotYetOut, Holds
<1> QED
  <2>1. ASSUME NEW g \in FilesOfRotation[q], ~Copied(q, g) PROVE NotYetOut(q, g)'
    <3>1. NotYetOut(q, g)
      BY <2>1 DEF RotationInv, RotationCopies
    <3> QED  BY <1>1, <2>1, <3>1 DEF NotYetOut
  <2> QED  BY <2>1

\* Planning, forgetting, admission, the lock, rollback's start and the gateway.
LEMMA PlanningStep ==
    ASSUME RotationInv, NEW r \in Rotation,
           \/ \E force \in BOOLEAN : PlanRotation(r, force)
           \/ ForgetToken(r) \/ AdmitRotation(r) \/ BeginApply(r) \/ RollbackRotation(r)
    PROVE  RotationInv' /\ OthersKept
<1>1. RotationTypeOK /\ applied \in [Rotation -> 0 .. 1] /\ stage[r] \in {"idle", "admitted",
        "saving", "replacing", "restoring", "done", "failed", "undoing", "undone"}
  BY DEF RotationInv, RotationTypeOK
<1>2. UNCHANGED <<env, saved, seenEnv>>
  BY DEF PlanRotation, ForgetToken, AdmitRotation, BeginApply, RollbackRotation
<1>3. OthersKept
  BY <1>2 DEF OthersKept
<1>4. \A q \in Rotation : RotationProgress(q)
  BY DEF RotationInv
<1> DEFINE Kept == /\ RotationTypeOK' /\ applied' \in [Rotation -> 0 .. 1]
                   /\ \A q \in Rotation : RotationProgress(q)'
                   /\ \A q \in Rotation : stage'[q] \in {"saving", "replacing"} =>
                        stage'[q] = stage[q] \/ (stage'[q] = "saving" /\ saved[q] = NothingSaved)
<1>5. SUFFICES Kept
  BY <1>2, <1>3, CopiesStay DEF RotationInv
<1>6. \A q \in Rotation : Unsaved(q)' = Unsaved(q)
  BY <1>2 DEF Unsaved
<1>7. ASSUME NEW force \in BOOLEAN, PlanRotation(r, force) PROVE Kept
  BY <1>1, <1>2, <1>4, <1>6, <1>7
    DEF PlanRotation, RotationTypeOK, RotationProgress, Working
<1>8. CASE ForgetToken(r)
  BY <1>1, <1>2, <1>4, <1>6, <1>8
    DEF ForgetToken, RotationTypeOK, RotationProgress, Working
<1>9. CASE AdmitRotation(r)
  <2>1. PICK s \in {"failed", "admitted"} : stage' = [stage EXCEPT ![r] = s]
    BY <1>9 DEF AdmitRotation, Staged
  <2>2. token[r] = "live" /\ token' = [token EXCEPT ![r] = "consumed"]
        /\ UNCHANGED <<fileLock, busy, applied>>
    BY <1>9 DEF AdmitRotation, TokenGood, ConsumeToken
  <2>3. stage[r] = "idle" /\ applied[r] = 0
    BY <1>4, <2>2 DEF RotationProgress
  <2>4. RotationTypeOK'
    BY <1>1, <1>2, <2>1, <2>2 DEF RotationTypeOK
  <2>5. /\ stage'[r] = s /\ token'[r] = "consumed"
        /\ \A q \in Rotation \ {r} : stage'[q] = stage[q] /\ token'[q] = token[q]
    BY <1>1, <2>1, <2>2 DEF RotationTypeOK
  <2>6. ASSUME NEW q \in Rotation PROVE RotationProgress(q)'
    BY <1>2, <1>4, <1>6, <2>2, <2>3, <2>5 DEF RotationProgress, Working
  <2> QED  BY <1>1, <2>2, <2>4, <2>5, <2>6
<1>10. CASE BeginApply(r)
  <2>1. stage[r] = "admitted" /\ applied[r] = 0 /\ saved[r] = NothingSaved
        /\ seenEnv[r] = NothingSaved /\ token[r] \notin {"none", "live"}
        /\ UNCHANGED <<token, busy>>
    BY <1>4, <1>10 DEF BeginApply, RotationProgress
  <2>2. CASE fileLock # NoRotation
    <3>1. stage' = [stage EXCEPT ![r] = "failed"] /\ fileLock' = fileLock
      BY <1>10, <2>2 DEF BeginApply, TakeFileLock, LockHeldByOther, Staged
    <3>2. stage'[r] = "failed" /\ \A q \in Rotation \ {r} : stage'[q] = stage[q]
      BY <1>1, <3>1 DEF RotationTypeOK
    <3>3. applied' = applied
      BY <1>1, <1>10, <3>2 DEF BeginApply
    <3>4. RotationTypeOK'
      BY <1>1, <1>2, <2>1, <3>1 DEF RotationTypeOK
    <3>5. ASSUME NEW q \in Rotation PROVE RotationProgress(q)'
      BY <1>2, <1>4, <1>6, <2>1, <3>1, <3>2, <3>3 DEF RotationProgress, Working
    <3> QED  BY <1>1, <3>2, <3>3, <3>4, <3>5
  <2>3. CASE fileLock = NoRotation
    <3>1. stage' = [stage EXCEPT ![r] = "saving"] /\ fileLock' = r
      BY <1>10, <2>3 DEF BeginApply, TakeFileLock, LockHeldByOther, Staged
    <3>2. stage'[r] = "saving" /\ \A q \in Rotation \ {r} : stage'[q] = stage[q]
      BY <1>1, <3>1 DEF RotationTypeOK
    <3>3. applied' = [applied EXCEPT ![r] = 1]
      BY <1>1, <1>10, <2>1, <3>2 DEF BeginApply
    <3>4. applied' \in [Rotation -> 0 .. 1]
          /\ \A q \in Rotation \ {r} : applied'[q] = applied[q]
      BY <1>1, <3>3
    <3>5. RotationTypeOK'
      BY <1>1, <1>2, <2>1, <3>1 DEF RotationTypeOK
    <3>6. \A q \in Rotation : ~Working(q)
      BY <1>4, <2>3, RotationAssumption DEF RotationProgress
    <3>7. ASSUME NEW q \in Rotation PROVE RotationProgress(q)'
      BY <1>2, <1>4, <1>6, <2>1, <3>1, <3>2, <3>4, <3>6 DEF RotationProgress, Working
    <3> QED  BY <2>1, <3>2, <3>4, <3>5, <3>7
  <2> QED  BY <2>2, <2>3
<1>11. CASE RollbackRotation(r)
  <2>1. /\ stage[r] = "done" /\ fileLock = NoRotation /\ fileLock' = r
        /\ stage' = [stage EXCEPT ![r] = "undoing"] /\ UNCHANGED <<token, busy, applied>>
    BY <1>11 DEF RollbackRotation, Staged
  <2>2. stage'[r] = "undoing" /\ \A q \in Rotation \ {r} : stage'[q] = stage[q]
    BY <1>1, <2>1 DEF RotationTypeOK
  <2>3. RotationTypeOK'
    BY <1>1, <1>2, <2>1 DEF RotationTypeOK
  <2>4. \A q \in Rotation : ~Working(q)
    BY <1>4, <2>1, RotationAssumption DEF RotationProgress
  <2>5. ASSUME NEW q \in Rotation PROVE RotationProgress(q)'
    BY <1>2, <1>4, <1>6, <2>1, <2>2, <2>4 DEF RotationProgress, Working
  <2> QED  BY <1>1, <2>1, <2>2, <2>3, <2>5
<1> QED  BY <1>7, <1>8, <1>9, <1>10, <1>11

\* The end of the process: nothing is at work any more.
LEMMA CrashStep ==
    ASSUME RotationInv, RotationCrash \/ GatewayChanges PROVE RotationInv' /\ OthersKept
<1>1. RotationTypeOK /\ applied \in [Rotation -> 0 .. 1]
  BY DEF RotationInv
<1>2. UNCHANGED <<env, saved, seenEnv, applied>>
  BY DEF RotationCrash, GatewayChanges
<1>3. OthersKept
  BY <1>2 DEF OthersKept
<1>4. \A q \in Rotation : RotationProgress(q) /\ Unsaved(q)' = Unsaved(q)
  BY <1>2 DEF RotationInv, Unsaved
<1>5. CASE RotationCrash
  <2>1. \A q \in Rotation :
          /\ \/ stage'[q] = stage[q] /\ stage[q] \in {"done", "undone", "idle"}
             \/ stage'[q] = "failed" /\ stage[q] # "idle"
          /\ token'[q] \in {"none", "gone"} /\ (token'[q] = "none" => token[q] = "none")
    BY <1>5 DEF RotationCrash
  <2>2. RotationTypeOK'
    BY <1>1, <1>2, <1>5 DEF RotationCrash, RotationTypeOK
  <2>3. ASSUME NEW q \in Rotation PROVE RotationProgress(q)' /\ RotationCopies(q)'
    <3>1. RotationProgress(q)'
      BY <1>2, <1>4, <2>1 DEF RotationProgress, Working
    <3> QED  BY <1>2, <2>1, <3>1, CopiesStay
  <2> QED  BY <1>1, <1>2, <1>3, <2>2, <2>3 DEF RotationInv
<1>6. CASE GatewayChanges
  <2>1. UNCHANGED <<token, stage, fileLock>> /\ busy' \in BOOLEAN
    BY <1>6 DEF GatewayChanges
  <2>2. RotationTypeOK'
    BY <1>1, <1>2, <2>1 DEF RotationTypeOK
  <2>3. ASSUME NEW q \in Rotation PROVE RotationProgress(q)' /\ RotationCopies(q)'
    <3>1. RotationProgress(q)'
      BY <1>2, <1>4, <2>1 DEF RotationProgress, Working
    <3> QED  BY <1>2, <2>1, <3>1, CopiesStay
  <2> QED  BY <1>1, <1>2, <1>3, <2>2, <2>3 DEF RotationInv
<1> QED  BY <1>5, <1>6

\* The prepare phase: a file is saved as it is.
LEMMA SaveStep ==
    ASSUME RotationInv, NEW r \in Rotation, NEW f \in FilesOfRotation[r], SaveFile(r, f)
    PROVE  RotationInv' /\ OthersKept
<1>1. RotationTypeOK /\ applied \in [Rotation -> 0 .. 1] /\ f \in EnvFile
  BY RotationAssumption DEF RotationInv
<1>2. /\ stage[r] = "saving" /\ f \in Unsaved(r)
      /\ saved' = [saved EXCEPT ![r][f] = env[f]]
      /\ UNCHANGED <<env, token, seenEnv, fileLock, busy, applied>>
  BY DEF SaveFile
<1>3. OthersKept
  BY <1>2 DEF OthersKept
<1>4. PICK s : /\ s \in {"saving", "replacing"} /\ (s = "replacing" => Unsaved(r) = {f})
               /\ stage' = [stage EXCEPT ![r] = s]
  BY DEF SaveFile, Staged
<1>5. stage'[r] = s /\ \A q \in Rotation \ {r} : stage'[q] = stage[q]
  BY <1>1, <1>4 DEF RotationTypeOK
<1>6. env[f] \in Content /\ env[f] # NotSaved
  BY <1>1, SavedIsContent DEF RotationTypeOK
<1>7. /\ saved'[r][f] = env[f]
      /\ \A g \in EnvFile \ {f} : saved'[r][g] = saved[r][g]
      /\ \A q \in Rotation \ {r} : saved'[q] = saved[q]
      /\ saved' \in [Rotation -> [EnvFile -> Content \cup {NotSaved}]]
  BY <1>1, <1>2, <1>6 DEF RotationTypeOK
<1>8. RotationTypeOK'
  BY <1>1, <1>2, <1>4, <1>7 DEF RotationTypeOK
<1>9. \A q \in Rotation : RotationProgress(q) /\ RotationCopies(q)
  BY DEF RotationInv
<1>10. ASSUME NEW q \in Rotation PROVE RotationProgress(q)'
  <2>1. CASE q # r
    <3>1. Unsaved(q)' = Unsaved(q)
      BY <1>7, <2>1 DEF Unsaved
    <3> QED  BY <1>2, <1>5, <1>7, <1>9, <2>1, <3>1 DEF RotationProgress, Working
  <2>2. CASE q = r
    <3>1. s = "replacing" => Unsaved(r)' = {}
      BY <1>4, <1>6, <1>7, RotationAssumption DEF Unsaved
    <3> QED  BY <1>2, <1>4, <1>5, <1>9, <2>2, <3>1 DEF RotationProgress, Working
  <2> QED  BY <2>1, <2>2
<1>11. ASSUME NEW q \in Rotation, NEW g \in FilesOfRotation[q], ~Copied(q, g)'
       PROVE  NotYetOut(q, g)'
  <2>1. g \in EnvFile /\ ~Copied(q, g)
    BY <1>2, <1>6, <1>7, <1>11, RotationAssumption DEF Copied, Unsaved
  <2>2. NotYetOut(q, g)
    BY <1>9, <2>1 DEF RotationCopies
  <2>3. \A x \in Rotation : saved'[x][g] = saved[x][g] \/ saved'[x][g] = env[g]
    BY <1>7, <2>1
  <2> QED  BY <1>2, <2>2, <2>3 DEF NotYetOut
<1>12. ASSUME NEW q \in Rotation PROVE RotationCopies(q)'
  <2>1. Unreplaced(q)' = Unreplaced(q)
    BY <1>2 DEF Unreplaced
  <2>2. ASSUME NEW g \in FilesOfRotation[q], q # r \/ g # f
        PROVE  saved'[q][g] = saved[q][g]
    BY <1>7, <2>2, RotationAssumption
  <2>3. ASSUME NEW g \in FilesOfRotation[q]
        PROVE  /\ Copied(q, g)' => ~Holds(saved'[q][g], q)
               /\ stage'[q] \in {"saving", "replacing"} /\ Copied(q, g)'
                    => AgreeBut(KeyOfRotation[q], saved'[q][g], env'[g])
    <3>1. CASE q = r /\ g = f
      <4>1. ~Copied(r, f)
        BY <1>2 DEF Unsaved, Copied
      <4>2. ~Holds(env[f], r)
        BY <1>9, <4>1 DEF RotationCopies, NotYetOut
      <4> QED  BY <1>2, <1>7, <3>1, <4>2 DEF AgreeBut
    <3>2. CASE q # r \/ g # f
      <4>1. Copied(q, g)' <=> Copied(q, g)
        BY <2>2, <3>2 DEF Copied
      <4>2. stage'[q] \in {"saving", "replacing"} => stage[q] \in {"saving", "replacing"}
        BY <1>2, <1>5
      <4> QED  BY <1>2, <1>9, <2>2, <3>2, <4>1, <4>2 DEF RotationCopies
    <3> QED  BY <3>1, <3>2
  <2>4. ASSUME NEW g \in FilesOfRotation[q]
        PROVE  stage'[q] = "replacing" /\ g \in Unreplaced(q)' /\ seenEnv'[q][g] # NotSaved
                    => seenEnv'[q][g] = env'[g]
    <3>1. CASE q = r
      <4>1. seenEnv[r][g] = NotSaved
        BY <1>2, <1>9, <3>1, RotationAssumption DEF RotationProgress, NothingSaved
      <4> QED  BY <1>2, <3>1, <4>1
    <3>2. CASE q # r
      BY <1>2, <1>5, <1>9, <2>1, <3>2 DEF RotationCopies
    <3> QED  BY <3>1, <3>2
  <2> QED  BY <1>11, <2>3, <2>4 DEF RotationCopies
<1> QED  BY <1>1, <1>2, <1>3, <1>8, <1>10, <1>12 DEF RotationInv

\* The replace phase, its reading half.
LEMMA ReadStep ==
    ASSUME RotationInv, NEW r \in Rotation, NEW f \in FilesOfRotation[r], ReadFile(r, f)
    PROVE  RotationInv' /\ OthersKept
<1>1. RotationTypeOK /\ applied \in [Rotation -> 0 .. 1] /\ f \in EnvFile
  BY RotationAssumption DEF RotationInv
<1>2. /\ stage[r] = "replacing"
      /\ seenEnv' = [seenEnv EXCEPT ![r][f] = env[f]]
      /\ UNCHANGED <<env, saved, token, stage, fileLock, busy, applied>>
  BY DEF ReadFile
<1>3. OthersKept
  BY <1>2 DEF OthersKept
<1>4. env[f] \in Content
  BY <1>1 DEF RotationTypeOK
<1>5. /\ seenEnv'[r][f] = env[f]
      /\ \A g \in EnvFile \ {f} : seenEnv'[r][g] = seenEnv[r][g]
      /\ \A q \in Rotation \ {r} : seenEnv'[q] = seenEnv[q]
      /\ seenEnv' \in [Rotation -> [EnvFile -> Content \cup {NotSaved}]]
  BY <1>1, <1>2, <1>4 DEF RotationTypeOK
<1>6. RotationTypeOK'
  BY <1>1, <1>2, <1>5 DEF RotationTypeOK
<1>7. \A q \in Rotation : RotationProgress(q) /\ RotationCopies(q)
  BY DEF RotationInv
<1>8. \A q \in Rotation : Unsaved(q)' = Unsaved(q) /\ Unreplaced(q)' = Unreplaced(q)
  BY <1>2 DEF Unsaved, Unreplaced
<1>9. ASSUME NEW q \in Rotation PROVE RotationProgress(q)'
  BY <1>2, <1>5, <1>7, <1>8 DEF RotationProgress, Working
<1>10. ASSUME NEW q \in Rotation, NEW g \in FilesOfRotation[q]
       PROVE  /\ Copied(q, g)' <=> Copied(q, g)
              /\ ~Copied(q, g) => NotYetOut(q, g)'
              /\ seenEnv'[q][g] = seenEnv[q][g] \/ seenEnv'[q][g] = env[g]
  <2>1. g \in EnvFile
    BY RotationAssumption
  <2>2. \A x \in Rotation : seenEnv'[x][g] = seenEnv[x][g] \/ seenEnv'[x][g] = env[g]
    BY <1>5, <2>1
  <2>3. ~Copied(q, g) => NotYetOut(q, g)
    BY <1>7 DEF RotationCopies
  <2> QED  BY <1>2, <2>2, <2>3 DEF Copied, NotYetOut
<1>11. ASSUME NEW q \in Rotation PROVE RotationCopies(q)'
  BY <1>2, <1>7, <1>8, <1>10 DEF RotationCopies
<1> QED  BY <1>1, <1>2, <1>3, <1>6, <1>9, <1>11 DEF RotationInv

\* What a step may put into a file.
FileComesFrom(g) ==
    \/ env'[g] = env[g]
    \/ \E x \in Rotation : env'[g] = saved[x][g]
    \/ \E x \in Rotation :
        /\ Copied(x, g) /\ seenEnv[x][g] \in Content
        /\ env'[g] = [seenEnv[x][g] EXCEPT ![KeyOfRotation[x]] = x]

\* The rotation at work ends, and gives the lock back.
LEMMA ReleaseStep ==
    ASSUME RotationInv, NEW r \in Rotation, Working(r),
           NEW s \in {"done", "failed", "undone"}, s = "done" => Unsaved(r) = {},
           stage' = [stage EXCEPT ![r] = s], fileLock' = NoRotation,
           UNCHANGED <<saved, token, seenEnv, busy, applied>>,
           env' \in [EnvFile -> Content],
           \A g \in EnvFile : FileComesFrom(g)
    PROVE  RotationInv'
<1>1. RotationTypeOK /\ applied \in [Rotation -> 0 .. 1]
  BY DEF RotationInv
<1>2. \A q \in Rotation : RotationProgress(q) /\ RotationCopies(q) /\ Unsaved(q)' = Unsaved(q)
  BY DEF RotationInv, Unsaved
<1>3. stage'[r] = s /\ \A q \in Rotation \ {r} : stage'[q] = stage[q]
  BY <1>1 DEF RotationTypeOK
<1>4. \A q \in Rotation \ {r} : ~Working(q)
  BY <1>2 DEF RotationProgress
<1>5. RotationTypeOK'
  BY <1>1 DEF RotationTypeOK
<1>6. token[r] \notin {"none", "live"}
  BY <1>2 DEF RotationProgress, Working
<1>7. ASSUME NEW q \in Rotation PROVE RotationProgress(q)' /\ stage'[q] \notin {"saving", "replacing"}
  <2>1. CASE q = r
    BY <1>2, <1>3, <1>6, <2>1 DEF RotationProgress, Working
  <2>2. CASE q # r
    BY <1>2, <1>3, <1>4, <2>2 DEF RotationProgress, Working
  <2> QED  BY <2>1, <2>2
<1>8. ASSUME NEW q \in Rotation, NEW g \in FilesOfRotation[q]
      PROVE  /\ Copied(q, g)' => ~Holds(saved'[q][g], q)
             /\ ~Copied(q, g)' => NotYetOut(q, g)'
  <2>1. Copied(q, g)' <=> Copied(q, g)
    BY DEF Copied
  <2>2. Copied(q, g) => ~Holds(saved[q][g], q)
    BY <1>2 DEF RotationCopies
  <2>3. ~Copied(q, g) => NotYetOut(q, g)'
    BY FilesMove DEF FileComesFrom
  <2> QED  BY <2>1, <2>2, <2>3
<1>9. ASSUME NEW q \in Rotation PROVE RotationCopies(q)'
  BY <1>7, <1>8 DEF RotationCopies
<1> QED  BY <1>1, <1>5, <1>7, <1>9 DEF RotationInv

\* The replace phase, its writing half: the file has not changed since it was read.
LEMMA ReplaceStep ==
    ASSUME RotationInv, NEW r \in Rotation, NEW f \in FilesOfRotation[r], ReplaceFile(r, f)
    PROVE  RotationInv' /\ OthersKept
<1>1. RotationTypeOK /\ applied \in [Rotation -> 0 .. 1] /\ f \in EnvFile
      /\ KeyOfRotation[r] \in SecretKey
  BY RotationAssumption DEF RotationInv
<1>2. /\ stage[r] = "replacing" /\ f \in Unreplaced(r) /\ seenEnv[r][f] # NotSaved
      /\ env' = [env EXCEPT ![f] = [seenEnv[r][f] EXCEPT ![KeyOfRotation[r]] = r]]
      /\ UNCHANGED <<saved, token, seenEnv, busy, applied>>
  BY DEF ReplaceFile
<1>3. \A q \in Rotation : RotationProgress(q) /\ RotationCopies(q)
  BY DEF RotationInv
<1>4. Working(r) /\ Unsaved(r) = {} /\ fileLock = r
  BY <1>2, <1>3 DEF RotationProgress, Working
<1>5. \A g \in FilesOfRotation[r] : Copied(r, g)
  BY <1>4 DEF Unsaved, Copied
<1>6. seenEnv[r][f] = env[f] /\ env[f] \in Content
  BY <1>1, <1>2, <1>3 DEF RotationCopies, RotationTypeOK
<1> DEFINE written == [env[f] EXCEPT ![KeyOfRotation[r]] = r]
<1>7. written \in Content /\ written[KeyOfRotation[r]] = r /\ AgreeBut(KeyOfRotation[r], written, env[f])
  BY <1>1, <1>6 DEF Content, Value, AgreeBut
<1>8. env' = [env EXCEPT ![f] = written]
  BY <1>2, <1>6
<1>9. env'[f] = written /\ \A g \in EnvFile \ {f} : env'[g] = env[g]
  BY <1>1, <1>8 DEF RotationTypeOK
<1>10. \A g \in EnvFile : FileComesFrom(g)
  BY <1>5, <1>6, <1>9 DEF FileComesFrom
<1> HIDE DEF written
<1>11. env' \in [EnvFile -> Content]
  BY <1>1, <1>7, <1>8 DEF RotationTypeOK
<1>12. OthersKept
  <2>1. ASSUME NEW g \in EnvFile, NEW k \in SecretKey, env'[g][k] # env[g][k]
        PROVE  KeyOfRotation[r] = k
    BY <1>7, <1>9, <2>1 DEF AgreeBut
  <2> QED  BY <1>2, <2>1 DEF OthersKept
<1>13. CASE Unreplaced(r) = {f}
  <2>1. stage' = [stage EXCEPT ![r] = "done"] /\ fileLock' = NoRotation
    BY <1>13 DEF ReplaceFile, Staged
  <2> QED  BY <1>2, <1>4, <1>10, <1>11, <1>12, <2>1, ReleaseStep
<1>14. CASE Unreplaced(r) # {f}
  <2>1. UNCHANGED <<stage, fileLock>>
    BY <1>14 DEF ReplaceFile
  <2>2. RotationTypeOK'
    BY <1>1, <1>2, <1>11, <2>1 DEF RotationTypeOK
  <2>3. ASSUME NEW q \in Rotation PROVE RotationProgress(q)'
    <3>1. Unsaved(q)' = Unsaved(q)
      BY <1>2 DEF Unsaved
    <3> QED  BY <1>2, <1>3, <2>1, <3>1 DEF RotationProgress, Working
  <2>4. \A q \in Rotation \ {r} : ~Working(q)
    BY <1>3, <1>4 DEF RotationProgress
  <2>5. ASSUME NEW q \in Rotation, NEW g \in FilesOfRotation[q]
        PROVE  /\ Copied(q, g)' => ~Holds(saved'[q][g], q)
               /\ ~Copied(q, g)' => NotYetOut(q, g)'
    <3>1. Copied(q, g)' <=> Copied(q, g)
      BY <1>2 DEF Copied
    <3>2. Copied(q, g) => ~Holds(saved[q][g], q)
      BY <1>3 DEF RotationCopies
    <3>3. ~Copied(q, g) => NotYetOut(q, g)'
      BY <1>2, <1>10, FilesMove DEF FileComesFrom
    <3> QED  BY <1>2, <3>1, <3>2, <3>3
  <2>6. ASSUME NEW g \in FilesOfRotation[r]
        PROVE  /\ AgreeBut(KeyOfRotation[r], saved'[r][g], env'[g])
               /\ g \in Unreplaced(r)' /\ seenEnv'[r][g] # NotSaved => seenEnv'[r][g] = env'[g]
    <3>1. g \in EnvFile /\ AgreeBut(KeyOfRotation[r], saved[r][g], env[g])
      BY <1>2, <1>3, <1>5, RotationAssumption DEF RotationCopies
    <3>2. CASE g = f
      <4>1. f \notin Unreplaced(r)'
        BY <1>7, <1>9 DEF Unreplaced
      <4> QED  BY <1>2, <1>7, <1>9, <3>1, <3>2, <4>1 DEF AgreeBut
    <3>3. CASE g # f
      <4>1. g \in Unreplaced(r)' => g \in Unreplaced(r)
        BY <1>9, <3>1, <3>3 DEF Unreplaced
      <4> QED  BY <1>2, <1>3, <1>9, <3>1, <3>3, <4>1 DEF RotationCopies
    <3> QED  BY <3>2, <3>3
  <2>7. ASSUME NEW q \in Rotation PROVE RotationCopies(q)'
    <3>1. q # r => stage'[q] \notin {"saving", "replacing"}
      BY <2>1, <2>4 DEF Working
    <3> QED  BY <2>5, <2>6, <3>1 DEF RotationCopies
  <2> QED  BY <1>1, <1>2, <1>12, <2>2, <2>3, <2>7 DEF RotationInv
<1> QED  BY <1>13, <1>14

\* A failing write puts the saved files back; they differ from the files at the
\* rotation's own key only.
LEMMA ApplyFailsStep ==
    ASSUME RotationInv, NEW r \in Rotation, ApplyFails(r)
    PROVE  RotationInv' /\ OthersKept
<1>1. RotationTypeOK /\ RotationCopies(r)
  BY DEF RotationInv
<1>2. /\ stage[r] \in {"saving", "replacing"} /\ fileLock' = NoRotation
      /\ env' = [f \in EnvFile |->
            IF f \in FilesOfRotation[r] /\ Copied(r, f) THEN saved[r][f] ELSE env[f]]
      /\ stage' = [stage EXCEPT ![r] = "failed"] /\ UNCHANGED <<saved, token, seenEnv, busy, applied>>
  BY DEF ApplyFails, Staged, Copied
<1>3. \A g \in EnvFile : \/ env'[g] = env[g]
                         \/ g \in FilesOfRotation[r] /\ Copied(r, g) /\ env'[g] = saved[r][g]
  BY <1>2
<1>4. \A g \in EnvFile : FileComesFrom(g)
  BY <1>3 DEF FileComesFrom
<1>5. env' \in [EnvFile -> Content]
  <2>1. ASSUME NEW g \in EnvFile PROVE env'[g] \in Content
    BY <1>1, <1>3 DEF RotationTypeOK, Copied
  <2> QED  BY <1>2, <2>1
<1>6. OthersKept
  <2>1. ASSUME NEW g \in EnvFile, NEW k \in SecretKey, env'[g][k] # env[g][k]
        PROVE  KeyOfRotation[r] = k
    <3>1. g \in FilesOfRotation[r] /\ Copied(r, g) /\ env'[g] = saved[r][g]
      BY <1>3, <2>1
    <3>2. AgreeBut(KeyOfRotation[r], saved[r][g], env[g])
      BY <1>1, <1>2, <3>1 DEF RotationCopies
    <3> QED  BY <2>1, <3>1, <3>2 DEF AgreeBut
  <2> QED  BY <1>2, <2>1 DEF OthersKept
<1>7. Working(r)
  BY <1>2 DEF Working
<1> QED  BY <1>2, <1>4, <1>5, <1>6, <1>7, ReleaseStep

\* A rollback puts the saved files back, whatever has been rotated since.
LEMMA UndoStep ==
    ASSUME RotationInv, NEW r \in Rotation, UndoFile(r)
    PROVE  RotationInv' /\ OthersKept
<1>1. RotationTypeOK /\ RotationProgress(r)
  BY DEF RotationInv
<1>2. /\ stage[r] = "undoing" /\ fileLock' = NoRotation
      /\ env' = [f \in EnvFile |-> IF f \in FilesOfRotation[r] THEN saved[r][f] ELSE env[f]]
      /\ stage' = [stage EXCEPT ![r] = "undone"] /\ UNCHANGED <<saved, token, seenEnv, busy, applied>>
  BY DEF UndoFile, Staged
<1>3. \A g \in FilesOfRotation[r] : Copied(r, g)
  BY <1>1, <1>2 DEF RotationProgress, Unsaved, Copied
<1>4. \A g \in EnvFile : \/ env'[g] = env[g]
                         \/ g \in FilesOfRotation[r] /\ env'[g] = saved[r][g]
  BY <1>2
<1>5. \A g \in EnvFile : FileComesFrom(g)
  BY <1>4 DEF FileComesFrom
<1>6. env' \in [EnvFile -> Content]
  <2>1. ASSUME NEW g \in EnvFile PROVE env'[g] \in Content
    BY <1>1, <1>3, <1>4 DEF RotationTypeOK, Copied
  <2> QED  BY <1>2, <2>1
<1>7. OthersKept
  BY <1>2 DEF OthersKept
<1>8. Working(r)
  BY <1>2 DEF Working
<1> QED  BY <1>2, <1>5, <1>6, <1>7, <1>8, ReleaseStep

\* Every rotation starts with nothing planned, saved or read.
LEMMA RotationStart == RotationInit => RotationInv
<1> SUFFICES ASSUME RotationInit PROVE RotationInv
  OBVIOUS
<1> USE RotationAssumption
<1>1. RotationTypeOK /\ applied \in [Rotation -> 0 .. 1]
  <2> DEFINE first == [k \in SecretKey |-> NoRotation]
  <2>1. first \in Content
    BY DEF Content, Value
  <2>2. env = [f \in EnvFile |-> first]
    BY DEF RotationInit
  <2>3. saved = [r \in Rotation |-> NothingSaved] /\ seenEnv = [r \in Rotation |-> NothingSaved]
    BY DEF RotationInit
  <2> HIDE DEF first
  <2>4. NothingSaved \in [EnvFile -> Content \cup {NotSaved}]
    BY DEF NothingSaved
  <2>5. /\ env \in [EnvFile -> Content]
        /\ saved \in [Rotation -> [EnvFile -> Content \cup {NotSaved}]]
        /\ seenEnv \in [Rotation -> [EnvFile -> Content \cup {NotSaved}]]
    BY <2>1, <2>2, <2>3, <2>4
  <2>6. /\ token = [r \in Rotation |-> "none"] /\ stage = [r \in Rotation |-> "idle"]
        /\ fileLock = NoRotation /\ busy = FALSE /\ applied = [r \in Rotation |-> 0]
    BY DEF RotationInit
  <2>7. token \in [Rotation -> {"none", "live", "consumed", "gone"}]
    BY <2>6
  <2>8. stage \in [Rotation -> {"idle", "admitted", "saving", "replacing", "restoring",
                               "done", "failed", "undoing", "undone"}]
    BY <2>6
  <2>9. applied \in [Rotation -> 0 .. 1]
    BY <2>6
  <2>10. busy \in BOOLEAN
    BY <2>6
  <2> QED  BY <2>5, <2>6, <2>7, <2>8, <2>9, <2>10 DEF RotationTypeOK
<1>2. ASSUME NEW r \in Rotation PROVE RotationProgress(r)
  BY DEF RotationInit, RotationProgress, Working
<1>3. ASSUME NEW r \in Rotation PROVE RotationCopies(r)
  <2>1. ASSUME NEW f \in FilesOfRotation[r]
        PROVE  ~Copied(r, f) /\ NotYetOut(r, f)
    <3>1. f \in EnvFile /\ KeyOfRotation[r] \in SecretKey /\ r # NoRotation
      OBVIOUS
    <3>2. \A q \in Rotation : saved[q][f] = NotSaved /\ seenEnv[q][f] = NotSaved
      BY <3>1 DEF RotationInit, NothingSaved
    <3>3. env[f][KeyOfRotation[r]] = NoRotation
      BY <3>1 DEF RotationInit
    <3> QED  BY <3>1, <3>2, <3>3, SavedIsContent DEF Copied, NotYetOut, Holds
  <2>2. stage[r] = "idle"
    BY DEF RotationInit
  <2> QED  BY <2>1, <2>2 DEF RotationCopies
<1> QED  BY <1>1, <1>2, <1>3 DEF RotationInv

\* No step of any rotation, no crash and no change of the gateway breaks the
\* invariant or takes out another rotation's value.
LEMMA RotationKept ==
    ASSUME RotationInv, RotationNext PROVE RotationInv' /\ OthersKept
<1>1. ASSUME NEW r \in Rotation, RotationStep(r) PROVE RotationInv' /\ OthersKept
  BY <1>1, PlanningStep, SaveStep, ReadStep, ReplaceStep, ApplyFailsStep, UndoStep
    DEF RotationStep
<1> QED  BY <1>1, CrashStep DEF RotationNext

\* Stuttering keeps everything.
LEMMA RotationStutters ==
    ASSUME RotationInv, UNCHANGED rotationVars PROVE RotationInv'
<1>1. UNCHANGED <<env, saved, token, stage, seenEnv, fileLock, busy, applied>>
  BY DEF rotationVars
<1>2. RotationTypeOK' /\ applied' \in [Rotation -> 0 .. 1]
  BY <1>1 DEF RotationInv, RotationTypeOK
<1>3. ASSUME NEW q \in Rotation PROVE RotationProgress(q)' /\ RotationCopies(q)'
  <2>1. RotationProgress(q)'
    <3>1. RotationProgress(q) /\ Unsaved(q)' = Unsaved(q)
      BY <1>1 DEF RotationInv, Unsaved
    <3> QED  BY <1>1, <3>1 DEF RotationProgress, Working
  <2> QED  BY <1>1, <2>1, CopiesStay
<1> QED  BY <1>2, <1>3 DEF RotationInv

\* The inductive invariant holds the copies.
LEMMA CopiesHold == RotationInv => OldValueKept
<1> SUFFICES ASSUME RotationInv, NEW r \in Rotation
             PROVE  /\ applied[r] <= 1
                    /\ \A f \in FilesOfRotation[r] :
                        env[f][KeyOfRotation[r]] = r => saved[r][f] # NotSaved
                                                        /\ saved[r][f][KeyOfRotation[r]] # r
  BY DEF OldValueKept
<1>1. applied[r] \in 0 .. 1 /\ RotationCopies(r)
  BY DEF RotationInv
<1> QED  BY <1>1 DEF RotationCopies, NotYetOut, Copied, Holds

\* Whatever fails, and wherever the process dies, the value that a rotation took
\* out of a file is in the copy it made before (prepare phase of
\* _apply_rotation_locked), and no plan is applied twice.
THEOREM OldValues == RotationSpec => []OldValueKept
<1>1. RotationInit => RotationInv
  BY RotationStart
<1>2. RotationInv /\ [RotationNext]_rotationVars => RotationInv'
  BY RotationKept, RotationStutters
<1> QED  BY <1>1, <1>2, CopiesHold, PTL DEF RotationSpec

\* The file lock and the copies together keep rotations of different keys in one
\* file apart: only a rollback takes out what another rotation put in.
THEOREM OthersStay == RotationSpec => RotationsKeepOthers
<1>1. RotationInit => RotationInv
  BY RotationStart
<1>2. RotationInv /\ [RotationNext]_rotationVars => RotationInv'
  BY RotationKept, RotationStutters
<1>3. RotationInv /\ [RotationNext]_rotationVars => [OthersKept]_rotationVars
  BY RotationKept
<1>4. RotationSpec => [][OthersKept]_rotationVars
  BY <1>1, <1>2, <1>3, PTL DEF RotationSpec
<1> QED  BY <1>4 DEF RotationsKeepOthers, OthersKept

-----------------------------------------------------------------------------
(* Signatures of result manifests                                          *)

\* A call of sign or verify, and a manifest.
SessionRow == [op : {"none", "sign", "verify"},
    at : {"idle", "described", "read", "ready", "previous", "accepted", "refused"},
    described : BOOLEAN, current : Material \cup {NoMaterial}, active : BOOLEAN,
    retired : BOOLEAN, since : Nat, disturbed : BOOLEAN]

\* A manifest: what it says, and what it was signed over and with.
ManifestRow == [says : Forged \cup {Claim}, digest : Forged \cup {Claim}, over : {Claim},
    key : Material \cup {NoMaterial}, status : {"unsigned", "hmac-sha256"}, excused : BOOLEAN]

\* The call took its posture inside a window that is no longer than the grace.
InsideGrace ==
    /\ setting.from <= session.since /\ session.since < setting.until
    /\ setting.until <= setting.from + MaxGrace

\* A signature is of what it was made over, whatever the manifest says by now; a
\* call that holds a retired key for active found it so in its posture; and the
\* key a call has read is the one in the file unless the file was replaced.
SigningTypes ==
    /\ keyFile \in [{"current", "previous"} -> Material \cup {NoMaterial}]
    /\ setting \in SigningSettings /\ today \in Nat /\ session \in SessionRow
    /\ manifest \in ManifestRow \cup {NoManifest}

ManifestInv ==
    manifest # NoManifest =>
        /\ manifest.key # NoMaterial => <<manifest.over, manifest.key>> \in issued
        /\ manifest.key = NoMaterial => manifest.excused

SessionInv ==
    /\ session.op = "verify" => manifest # NoManifest
    /\ (session.op = "verify" /\ session.at = "accepted")
            => <<manifest.says, manifest.key>> \in issued
    /\ session.retired => session.active /\ session.at \notin {"described", "read", "ready"}
    /\ (session.active /\ setting.strict) => InsideGrace
    /\ (session.at \in {"read", "ready"} /\ ~session.disturbed)
            => session.current = keyFile["current"]
    /\ (session.at = "ready" /\ setting.strict) => session.current # NoMaterial

SigningInv == SigningTypes /\ ManifestInv /\ SessionInv

\* The session at rest, with its Boolean fields named.
LEMMA IdleSession ==
    \E no \in BOOLEAN : no = FALSE /\ NoSession =
        [op |-> "none", at |-> "idle", described |-> no, current |-> NoMaterial,
         active |-> no, retired |-> no, since |-> 0, disturbed |-> no]
<1>1. FALSE \in BOOLEAN
  OBVIOUS
<1>2. NoSession = [op |-> "none", at |-> "idle", described |-> FALSE, current |-> NoMaterial,
         active |-> FALSE, retired |-> FALSE, since |-> 0, disturbed |-> FALSE]
  BY DEF NoSession
<1> QED  BY <1>1, <1>2, Zenon

\* The fields of a session at rest.
LEMMA SessionFields ==
    ASSUME NEW s, NEW o, NEW a, NEW d, NEW m, NEW no,
           s = [op |-> o, at |-> a, described |-> d, current |-> m,
                active |-> no, retired |-> no, since |-> 0, disturbed |-> no]
    PROVE  s.op = o /\ s.at = a /\ s.active = no /\ s.retired = no
OBVIOUS

\* A call that is not under way knows nothing.
LEMMA RestingSession ==
    ASSUME NEW o \in {"none", "sign", "verify"}, NEW d \in BOOLEAN, NEW no \in BOOLEAN, no = FALSE,
           NEW a \in {"idle", "described", "accepted", "refused"}, a = "accepted" => o = "none",
           o = "verify" => manifest' # NoManifest,
           session' = [op |-> o, at |-> a, described |-> d, current |-> NoMaterial,
                       active |-> no, retired |-> no, since |-> 0, disturbed |-> no]
    PROVE  session' \in SessionRow /\ SessionInv'
<1>1. session' \in SessionRow
  BY DEF SessionRow
<1>2. session'.op = o /\ session'.at = a /\ session'.active = no /\ session'.retired = no
  BY SessionFields, Zenon
<1> QED  BY <1>1, <1>2 DEF SessionInv

\* A call that has just begun.
LEMMA BegunSession ==
    ASSUME NEW o \in {"sign", "verify"}, Describe(o), o = "verify" => manifest' # NoManifest
    PROVE  session' \in SessionRow /\ SessionInv'
<1>1. PICK no \in BOOLEAN : no = FALSE /\ NoSession =
            [op |-> "none", at |-> "idle", described |-> no, current |-> NoMaterial,
             active |-> no, retired |-> no, since |-> 0, disturbed |-> no]
  BY IdleSession, Zenon
<1>2. PICK d \in BOOLEAN : session' = [NoSession EXCEPT !.op = o, !.at = "described", !.described = d]
  BY DEF Describe
<1>3. session' = [op |-> o, at |-> "described", described |-> d, current |-> NoMaterial,
                  active |-> no, retired |-> no, since |-> 0, disturbed |-> no]
  BY <1>1, <1>2
<1> QED  BY <1>1, <1>3, RestingSession

\* A call that was refused, or ended, has let go of what it knew.
LEMMA EndedSession ==
    ASSUME \/ session' = NoSession
           \/ \E a \in {"accepted", "refused"} : session' = [NoSession EXCEPT !.at = a]
    PROVE  session' \in SessionRow /\ SessionInv'
<1>1. PICK no \in BOOLEAN : no = FALSE /\ NoSession =
            [op |-> "none", at |-> "idle", described |-> no, current |-> NoMaterial,
             active |-> no, retired |-> no, since |-> 0, disturbed |-> no]
  BY IdleSession, Zenon
<1>2. PICK a \in {"idle", "accepted", "refused"} :
        session' = [op |-> "none", at |-> a, described |-> no, current |-> NoMaterial,
                    active |-> no, retired |-> no, since |-> 0, disturbed |-> no]
  <2>1. CASE session' = NoSession
    BY <1>1, <2>1
  <2>2. ASSUME NEW a \in {"accepted", "refused"}, session' = [NoSession EXCEPT !.at = a]
        PROVE  session' = [op |-> "none", at |-> a, described |-> no, current |-> NoMaterial,
                           active |-> no, retired |-> no, since |-> 0, disturbed |-> no]
    BY <1>1, <2>2
  <2> QED  BY <2>1, <2>2
<1> QED  BY <1>1, <1>2, RestingSession

\* The two fields of a posture.
LEMMA PostureFields ==
    ASSUME NEW good, NEW active
    PROVE  /\ [ok |-> good, active |-> active].ok = good
           /\ [ok |-> good, active |-> active].active = active
OBVIOUS

\* A posture that passes in a strict mode read a key, and calls a retired key
\* active only inside its bounded window.
LEMMA PostureHolds ==
    ASSUME NEW s \in SigningSettings, NEW t \in Nat, NEW d \in BOOLEAN, NEW c, NEW old,
           s.strict, SigningPosture(s, d, c, old, t).ok
    PROVE  /\ c # NoMaterial
           /\ SigningPosture(s, d, c, old, t).active =>
                s.from <= t /\ t < s.until /\ s.until <= s.from + MaxGrace
<1> DEFINE there == d /\ old # NoMaterial
           fault == \/ CurrentFault(s, c) \/ StampFault(s)
                    \/ IF there THEN PreviousFault(s, c, old, t) ELSE MetadataFault(s)
<1>1. SigningPosture(s, d, c, old, t) = [ok |-> ~fault, active |-> there /\ ~fault /\ InWindow(s, t)]
  BY DEF SigningPosture
<1>2. SigningPosture(s, d, c, old, t).ok = ~fault
      /\ SigningPosture(s, d, c, old, t).active = (there /\ ~fault /\ InWindow(s, t))
  BY <1>1, PostureFields, Zenon
<1>3. ~CurrentFault(s, c) /\ (there => ~PreviousFault(s, c, old, t))
  BY <1>2
<1>4. c # NoMaterial
  BY <1>3 DEF CurrentFault
<1>5. ASSUME there, InWindow(s, t)
      PROVE  s.from <= t /\ t < s.until /\ s.until <= s.from + MaxGrace
  <2>1. ~WindowFault(s)
    BY <1>3, <1>5 DEF PreviousFault
  <2>2. ~Unbounded(s) /\ Bounded(s)
    BY <2>1 DEF WindowFault
  <2>3. s.from \in Nat /\ s.until \in Nat
    BY <2>2 DEF Bounded
  <2>4. ~(s.until <= s.from) /\ ~(s.until - s.from > MaxGrace)
    BY <2>1, <2>2 DEF WindowFault
  <2>5. s.from <= t /\ t < s.until
    BY <1>5, <2>2 DEF InWindow
  <2> QED  BY <2>3, <2>4, <2>5, SigningAssumption
<1> HIDE DEF there, fault
<1>6. SigningPosture(s, d, c, old, t).active => there /\ InWindow(s, t)
  BY <1>2
<1> QED  BY <1>4, <1>5, <1>6

\* The steps of one call, without its signature.
LEMMA CallStep ==
    ASSUME SigningInv,
           \/ BuildManifest \/ VerifyManifest \/ ReadCurrent \/ TakePosture
           \/ CompareCurrent \/ ComparePrevious
    PROVE  SigningInv'
<1>1. UNCHANGED <<keyFile, setting, today, manifest, issued, replaced>>
  BY DEF BuildManifest, VerifyManifest, ReadCurrent, TakePosture, CompareCurrent, ComparePrevious
<1>2. ManifestInv'
  BY <1>1 DEF SigningInv, ManifestInv
<1>3. SUFFICES session' \in SessionRow /\ SessionInv'
  BY <1>1, <1>2 DEF SigningInv, SigningTypes
<1>4. session \in SessionRow /\ setting \in SigningSettings /\ today \in Nat /\ SessionInv
      /\ keyFile["current"] \in Material \cup {NoMaterial} /\ setting.strict \in BOOLEAN
  BY SigningAssumption DEF SigningInv, SigningTypes
<1>5. /\ session.op \in {"none", "sign", "verify"} /\ session.described \in BOOLEAN
      /\ session.active \in BOOLEAN /\ session.retired \in BOOLEAN /\ session.since \in Nat
      /\ session.disturbed \in BOOLEAN
  BY <1>4 DEF SessionRow
<1>6. CASE BuildManifest
  BY <1>6, BegunSession DEF BuildManifest
<1>7. CASE VerifyManifest
  <2>1. manifest' # NoManifest
    BY <1>1, <1>7 DEF VerifyManifest
  <2>2. \/ \E a \in {"accepted", "refused"} : session' = [NoSession EXCEPT !.at = a]
        \/ Describe("verify")
    BY <1>7 DEF VerifyManifest
  <2> QED  BY <2>1, <2>2, BegunSession, EndedSession
<1>8. CASE ReadCurrent
  <2>1. session.at = "described"
        /\ session' = [session EXCEPT !.at = "read", !.current = keyFile["current"]]
    BY <1>8 DEF ReadCurrent
  <2>2. session' \in SessionRow
    BY <1>4, <2>1 DEF SessionRow
  <2>3. /\ session'.op = session.op /\ session'.active = session.active
        /\ session'.retired = session.retired /\ session'.since = session.since
        /\ session'.at = "read" /\ session'.current = keyFile["current"]
    BY <1>4, <2>1 DEF SessionRow
  <2> QED  BY <1>1, <1>4, <2>1, <2>2, <2>3 DEF SessionInv, InsideGrace
<1>9. CASE TakePosture
  <2> DEFINE p == SigningPosture(setting, session.described, session.current,
                               keyFile["previous"], today)
  <2>1. session.at = "read" /\ session' = IF ~p.ok THEN [NoSession EXCEPT !.at = "refused"]
                 ELSE [session EXCEPT !.at = "ready", !.active = p.active, !.since = today]
    BY <1>9 DEF TakePosture
  <2>2. setting.strict /\ p.ok =>
            /\ session.current # NoMaterial
            /\ p.active => /\ setting.from <= today /\ today < setting.until
                           /\ setting.until <= setting.from + MaxGrace
    BY <1>4, <1>5, PostureHolds
  <2>3. p.active \in BOOLEAN
    BY DEF SigningPosture
  <2> HIDE DEF p
  <2>4. CASE ~p.ok
    BY <2>1, <2>4, EndedSession
  <2>5. CASE p.ok
    <3>1. session' = [session EXCEPT !.at = "ready", !.active = p.active, !.since = today]
      BY <2>1, <2>5
    <3>2. session' \in SessionRow
      BY <1>4, <2>3, <3>1 DEF SessionRow
    <3>3. /\ session'.op = session.op /\ session'.active = p.active
          /\ session'.retired = session.retired /\ session'.since = today
          /\ session'.at = "ready" /\ session'.current = session.current
          /\ session'.disturbed = session.disturbed
      BY <1>4, <3>1 DEF SessionRow
    <3>4. ~session.retired
      BY <1>4, <2>1 DEF SessionInv
    <3> QED  BY <1>1, <1>4, <2>1, <2>2, <2>5, <3>2, <3>3, <3>4 DEF SessionInv, InsideGrace
  <2> QED  BY <2>4, <2>5
<1>10. ASSUME NEW k, NEW accepted \in BOOLEAN, accepted => Matches(k), VerifyEnds(accepted)
       PROVE  session' \in SessionRow /\ SessionInv'
  <2>1. PICK a \in {"accepted", "refused"} : /\ session' = [session EXCEPT !.at = a]
                                             /\ a = "accepted" => Matches(k)
    BY <1>10 DEF VerifyEnds
  <2>2. session' \in SessionRow
    BY <1>4, <2>1 DEF SessionRow
  <2>3. /\ session'.op = session.op /\ session'.active = session.active
        /\ session'.retired = session.retired /\ session'.since = session.since /\ session'.at = a
    BY <1>4, <2>1 DEF SessionRow
  <2>4. session.op = "verify" /\ a = "accepted" => <<manifest.says, manifest.key>> \in issued
    BY <1>4, <2>1 DEF SigningInv, ManifestInv, SessionInv, Matches
  <2> QED  BY <1>1, <1>4, <2>2, <2>3, <2>4 DEF SessionInv, InsideGrace
<1>11. CASE CompareCurrent
  <2>1. CASE session' = [session EXCEPT !.at = "previous", !.retired = TRUE] /\ session.active
    <3>1. session' \in SessionRow
      BY <1>4, <2>1 DEF SessionRow
    <3>2. /\ session'.op = session.op /\ session'.active = session.active
          /\ session'.since = session.since /\ session'.at = "previous"
      BY <1>4, <2>1 DEF SessionRow
    <3> QED  BY <1>1, <1>4, <2>1, <3>1, <3>2 DEF SessionInv, InsideGrace
  <2>2. \/ Matches(keyFile["current"]) /\ VerifyEnds(TRUE)
        \/ VerifyEnds(FALSE)
        \/ session' = [session EXCEPT !.at = "previous", !.retired = TRUE] /\ session.active
    BY <1>11 DEF CompareCurrent
  <2> QED  BY <1>10, <2>1, <2>2
<1>12. CASE ComparePrevious
  <2>1. VerifyEnds(Matches(keyFile["previous"])) /\ Matches(keyFile["previous"]) \in BOOLEAN
    BY <1>12 DEF ComparePrevious, Matches
  <2> QED  BY <1>10, <2>1
<1> QED  BY <1>6, <1>7, <1>8, <1>9, <1>11, <1>12

\* The signature itself: the key is read again, and is there unless the file was
\* replaced since the posture.
LEMMA SignStep ==
    ASSUME SigningInv, Sign PROVE SigningInv'
<1> DEFINE k == keyFile["current"]
           x == session.disturbed \/ ~setting.strict
<1>1. /\ manifest' = [says |-> Claim, digest |-> Claim, over |-> Claim, key |-> k,
                      status |-> IF k = NoMaterial THEN "unsigned" ELSE "hmac-sha256", excused |-> x]
      /\ issued' = IF k = NoMaterial THEN issued ELSE issued \cup {<<Claim, k>>}
      /\ session' = NoSession /\ session.at = "ready" /\ UNCHANGED <<keyFile, setting, today>>
  BY DEF Sign
<1>2. /\ k \in Material \cup {NoMaterial} /\ setting.strict \in BOOLEAN
      /\ session.disturbed \in BOOLEAN /\ x \in BOOLEAN
  BY SigningAssumption DEF SigningInv, SigningTypes, SessionRow
<1>3. k = NoMaterial => x
  BY <1>1, <1>2 DEF SigningInv, SessionInv
<1> HIDE DEF k, x
<1>4. /\ manifest' \in ManifestRow /\ manifest'.key = k /\ manifest'.over = Claim
      /\ manifest'.excused = x
  BY <1>1, <1>2 DEF ManifestRow
<1>5. ManifestInv'
  BY <1>1, <1>3, <1>4 DEF ManifestInv
<1>6. session' \in SessionRow /\ SessionInv'
  BY <1>1, EndedSession
<1> QED  BY <1>1, <1>4, <1>5, <1>6 DEF SigningInv, SigningTypes

\* The operator, the clock, and those who change a manifest.
LEMMA OutsideStep ==
    ASSUME SigningInv,
           \/ \E f \in {"current", "previous"}, k \in Material \cup {NoMaterial} : ReplaceKey(f, k)
           \/ \E s \in SigningSettings : RestartWith(s)
           \/ DayPasses \/ AlterManifest
    PROVE  SigningInv'
<1> USE DEF SigningInv
<1>2. session' = NoSession => session' \in SessionRow /\ SessionInv'
  BY EndedSession
<1>3. ASSUME NEW f \in {"current", "previous"}, NEW k \in Material \cup {NoMaterial}, ReplaceKey(f, k)
      PROVE  SigningInv'
  <2>1. /\ UNCHANGED <<setting, today, manifest, issued>>
        /\ keyFile' = [keyFile EXCEPT ![f] = k]
        /\ session' = IF session.at \in AtRest THEN session ELSE [session EXCEPT !.disturbed = TRUE]
    BY <1>3 DEF ReplaceKey
  <2>2. keyFile' \in [{"current", "previous"} -> Material \cup {NoMaterial}]
    BY <2>1 DEF SigningTypes
  <2>3. session' \in SessionRow
    BY <2>1 DEF SigningTypes, SessionRow
  <2>4. /\ session'.op = session.op /\ session'.at = session.at /\ session'.active = session.active
        /\ session'.retired = session.retired /\ session'.since = session.since
        /\ session'.current = session.current
        /\ session.at \in AtRest \/ session'.disturbed
    BY <2>1 DEF SigningTypes, SessionRow
  <2>5. SessionInv'
    BY <2>1, <2>4 DEF SessionInv, InsideGrace, AtRest
  <2> QED  BY <2>1, <2>2, <2>3, <2>5 DEF SigningTypes, ManifestInv
<1>4. ASSUME NEW s \in SigningSettings, RestartWith(s) PROVE SigningInv'
  BY <1>2, <1>4 DEF RestartWith, SigningTypes, ManifestInv
<1>5. CASE DayPasses
  <2>1. today' = today + 1 /\ UNCHANGED <<keyFile, setting, session, manifest, issued>>
    BY <1>5 DEF DayPasses
  <2> QED  BY <2>1 DEF SigningTypes, ManifestInv, SessionInv, InsideGrace
<1>6. CASE AlterManifest
  <2>1. /\ manifest # NoManifest /\ session' = NoSession /\ UNCHANGED <<keyFile, setting, today, issued>>
        /\ \/ \E z \in Forged : manifest' = [manifest EXCEPT !.says = z, !.digest = z]
           \/ \E z \in Forged : manifest' = [manifest EXCEPT !.says = z, !.digest = manifest.digest]
           \/ manifest' = [manifest EXCEPT !.status = "unsigned"]
    BY <1>6 DEF AlterManifest
  <2>2. PICK m \in ManifestRow : m = manifest
    BY <2>1 DEF SigningTypes
  <2>3. /\ manifest' \in ManifestRow /\ manifest'.key = m.key /\ manifest'.over = m.over
        /\ manifest'.excused = m.excused
    BY <2>1, <2>2 DEF ManifestRow
  <2>4. ManifestInv'
    BY <2>1, <2>2, <2>3 DEF ManifestInv
  <2> QED  BY <1>2, <2>1, <2>3, <2>4 DEF SigningTypes
<1> QED  BY <1>3, <1>4, <1>5, <1>6

\* Before the first call nothing is signed.
LEMMA SigningStart == SigningInit => SigningInv
<1> SUFFICES ASSUME SigningInit PROVE SigningInv
  OBVIOUS
<1>1. session \in SessionRow /\ session.op = "none" /\ session.at = "idle" /\ ~session.retired /\ ~session.active
  BY DEF SigningInit, NoSession, SessionRow
<1>2. SigningTypes /\ ManifestInv
  BY <1>1 DEF SigningInit, SigningTypes, ManifestInv
<1> QED  BY <1>1, <1>2 DEF SigningInv, SessionInv

\* Every step of signing keeps the invariant, and so does stuttering.
LEMMA SigningKept ==
    ASSUME SigningInv, [SigningNext]_signingVars PROVE SigningInv'
<1>1. CASE SigningNext
  BY <1>1, CallStep, SignStep, OutsideStep DEF SigningNext
<1>2. CASE UNCHANGED signingVars
  BY <1>2 DEF signingVars, SigningInv, SigningTypes, ManifestInv, SessionInv, InsideGrace
<1> QED  BY <1>1, <1>2

\* The inductive invariant is at least what is said of signatures.
LEMMA SignaturesFollow == SigningInv => SignaturesHold
BY DEF SigningInv, ManifestInv, SessionInv, InsideGrace, SignaturesHold

-----------------------------------------------------------------------------
(* The acceptance                                                          *)

\* A sample that is true, and what a collector keeps.
TrueSample ==
    {s \in [item : ToSet(SamplePlan), digest : GitHubValue, calls : {1}, returned : SUBSET GitHubValue] :
        s.returned = {s.digest}}
CollectorRow ==
    [pc : {"off", "direct", "shadow", "complete", "done", "failed"}, commit : Nat, started : Nat,
     samples : Seq(TrueSample), direct : GitHubValue \cup {NoValue}]

\* What a collector has counted so far is true, and it has an item to go on with.
CollectorsInv ==
    /\ world \in GitHubValue
    /\ collector \in [Run -> CollectorRow]
    /\ \A r \in Run :
        /\ collector[r].pc = "shadow" => collector[r].direct \in GitHubValue
        /\ collector[r].pc \in {"direct", "shadow"} => Len(collector[r].samples) < Len(SamplePlan)

\* A collector that may yet report.
Collecting(r) == collector[r].pc \in {"direct", "shadow", "complete"}

\* Rows with a newest among them: the real database keeps one at least.
HasNewest(rows) == rows \in SUBSET Nat /\ \E n \in rows : \A x \in rows : n >= x
DatabaseInv ==
    /\ real = [rows |-> real.rows, schema |-> real.schema, complete |-> real.complete, stat |-> real.stat]
    /\ HasNewest(real.rows)

\* A runner that measured has a launcher, and that of the newest run.
Measured == runner # None /\ runner.pc \in {"waiting", "after"}
Launched == launcher # None \/ Measured

LauncherInv ==
    Launched =>
        /\ launcher = [pc |-> launcher.pc, run |-> launcher.run, commit |-> launcher.commit,
                       enabled |-> launcher.enabled, rc |-> launcher.rc]
        /\ launcher.run = begun /\ begun \in Run /\ launcher.commit \in Nat
        /\ launcher.pc \in {"probed", "collecting", "collected"} /\ paper["isolation"] # None =>
            paper["isolation"].run = begun
        /\ launcher.pc = "collected" => ~Collecting(begun)
        /\ launcher.pc \in {"leaving", "left"} /\ launcher.rc = 0 =>
            /\ ~Collecting(begun)
            /\ paper["gate"] # None => paper["gate"].isolated = begun

\* What a runner measured: rows are only lost from below, unless one was added, which
\* shows in the largest number.
RowsSince(rows) ==
    /\ HasNewest(rows)
    /\ Max(rows) <= Max(real.rows)
    /\ Max(rows) = Max(real.rows) => real.rows \subseteq rows

\* What is of an older run began before the window of the runner that measures.
RunnerInv ==
    runner # None =>
        /\ runner = [pc |-> runner.pc, run |-> runner.run, commit |-> runner.commit,
                     stat |-> runner.stat, snap |-> runner.snap, rows |-> runner.rows,
                     pre |-> runner.pre, witness |-> runner.witness]
        /\ runner.pc \in {"before", "waiting", "after"}
        /\ Measured =>
            /\ runner.pre \in Nat /\ runner.pre <= clock
            /\ RowsSince(runner.rows)
            /\ runner.snap.table.row_count = Cardinality(runner.rows)
            /\ runner.snap.table.max_rowid = Max(runner.rows)
            /\ \A r \in Run : Collecting(r) /\ r < begun => collector[r].started < runner.pre
            /\ paper["evidence"] # None /\ paper["evidence"].run < begun =>
                    paper["evidence"].started < runner.pre
        /\ runner.pc = "waiting" /\ paper["witness"] # None => paper["witness"].run = begun
        /\ runner.pc = "after" =>
            /\ launcher.pc = "left"
            /\ runner.witness # None => runner.witness.run = begun

\* Stamps and runs are numbered in the order they come in.
StampsInv ==
    /\ clock \in Nat /\ begun \in Nat /\ tip \in Nat
    /\ \A r \in Run : Collecting(r) => r <= begun /\ collector[r].started <= clock

EvidenceInv ==
    /\ DOMAIN paper = Document
    /\ paper["evidence"] # None =>
        LET e == paper["evidence"] IN
        /\ e.run \in Run /\ e.run <= begun
        /\ e.started \in Nat /\ e.finished \in Nat /\ e.started < e.finished /\ e.finished <= clock
        /\ e.samples \in Seq(TrueSample)

\* The window of a marker has no collector but that of its run in it, which is over.
Completed == paper["marker"] # None /\ paper["marker"].state = "COMPLETED"
Apart(m, r, started) ==
    (r < m.run => started < m.pre) /\ (r > m.run => started > m.post)
MarkerInv ==
    Completed =>
        LET m == paper["marker"] IN
        /\ m.kept /\ m.witness = m.run
        /\ m.run \in Run /\ m.run <= begun /\ m.pre \in Nat /\ m.post \in Nat /\ m.post <= clock
        /\ \A r \in Run : Collecting(r) => r # m.run /\ Apart(m, r, collector[r].started)
        /\ paper["evidence"] # None => Apart(m, paper["evidence"].run, paper["evidence"].started)
        /\ Launched => m.run < begun
        /\ Launched /\ launcher.pc \in {"collecting", "collected"} /\ paper["evidence"] # None =>
                paper["evidence"].run # m.run

\* A verdict is of the last run that collected, and the evidence beside it is that one's
\* or came late from an older run, which has no marker.
GateInv ==
    paper["gate"] # None /\ paper["gate"].accepted =>
        LET g == paper["gate"] IN
        /\ g.isolated \in Run /\ g.isolated <= begun
        /\ \A r \in Run : Collecting(r) => r < g.isolated
        /\ paper["evidence"] # None =>
            /\ paper["evidence"].run <= g.isolated
            /\ paper["evidence"].run = g.isolated => g.run = g.isolated
            /\ Completed /\ paper["evidence"].run = paper["marker"].run =>
                    g.isolated = paper["marker"].run

AcceptanceInv ==
    /\ CollectorsInv /\ DatabaseInv /\ StampsInv /\ LauncherInv /\ RunnerInv
    /\ EvidenceInv /\ MarkerInv /\ GateInv


\* The least of some natural numbers is among them.
LEMMA LeastIn == ASSUME NEW S \in SUBSET Nat, S # {} PROVE Min(S) \in S /\ \A y \in S : Min(S) <= y
<1> DEFINE R == OpToRel(<, Nat)
<1>1. IsWellFoundedOn(R, Nat)
  BY NatLessThanWellFounded
<1>2. \A x, y \in Nat : y < x => <<y, x>> \in R
  BY DEF OpToRel
<1> HIDE DEF R
<1>3. PICK x \in S : \A y \in S : ~(<<y, x>> \in R)
  BY <1>1, WFMin
<1>4. ASSUME NEW y \in S PROVE x <= y
  <2>1. x \in Nat /\ y \in Nat /\ ~(y < x)
    BY <1>2, <1>3
  <2> QED  BY <2>1
<1> QED  BY <1>4 DEF Min

\* So is the newest of some rows.
LEMMA NewestIn ==
    ASSUME NEW S, HasNewest(S)
    PROVE  Max(S) \in S /\ Max(S) \in Nat /\ (\A y \in S : Max(S) >= y) /\ IsFiniteSet(S)
<1>1. Max(S) \in S /\ \A y \in S : Max(S) >= y
  BY DEF HasNewest, Max
<1>2. S \in SUBSET Nat /\ Max(S) \in Nat
  BY <1>1 DEF HasNewest
<1>3. \A y \in S : y <= Max(S)
  BY <1>1, <1>2
<1>4. IsFiniteSet(S)
  BY <1>2, <1>3, FS_BoundedSetOfNaturals
<1> QED  BY <1>1, <1>2, <1>4

\* An insertion and a pruning leave rows with a newest, and the later rows are as new.
LEMMA NewestOf ==
    ASSUME NEW S \in SUBSET Nat, NEW n \in S, \A x \in S : x <= n
    PROVE  HasNewest(S) /\ Max(S) = n
<1>1. HasNewest(S)
  BY DEF HasNewest
<1>2. Max(S) \in S /\ Max(S) \in Nat /\ \A y \in S : Max(S) >= y
  BY <1>1, NewestIn
<1>3. Max(S) <= n /\ Max(S) >= n /\ n \in Nat
  BY <1>2
<1> QED  BY <1>1, <1>2, <1>3

\* Insertions take a number above all, whatever they push out.
LEMMA InsertedRows ==
    ASSUME NEW rows, HasNewest(rows), NEW old \in {{}, {Min(rows)}}
    PROVE  LET new == (rows \cup {Max(rows) + 1}) \ old
           IN  HasNewest(new) /\ Max(new) = Max(rows) + 1
<1> DEFINE n == Max(rows) + 1
           new == (rows \cup {n}) \ old
<1>1. Max(rows) \in Nat /\ \A y \in rows : Max(rows) >= y
  BY NewestIn
<1>2. rows \in SUBSET Nat /\ rows # {}
  BY DEF HasNewest
<1>3. Min(rows) \in rows
  BY <1>2, LeastIn
<1>4. n \in Nat /\ \A y \in rows : y < n
  BY <1>1, <1>2
<1>5. n \in new
  BY <1>3, <1>4
<1>6. new \in SUBSET Nat /\ \A y \in new : y <= n
  <2>1. ASSUME NEW y \in new PROVE y \in Nat /\ y <= n
    <3>1. CASE y \in rows
      BY <1>2, <1>4, <3>1
    <3>2. CASE y = n
      BY <1>4, <3>2
    <3> QED  BY <3>1, <3>2
  <2> QED  BY <2>1
<1> HIDE DEF new, n
<1>7. HasNewest(new) /\ Max(new) = n
  BY <1>5, <1>6, NewestOf
<1> QED  BY <1>7 DEF new, n

\* Pruning takes the oldest of several, and leaves the newest.
LEMMA PrunedRows ==
    ASSUME NEW rows, HasNewest(rows), Cardinality(rows) > 1
    PROVE  LET new == rows \ {Min(rows)}
           IN  HasNewest(new) /\ Max(new) = Max(rows) /\ new \subseteq rows
<1> DEFINE new == rows \ {Min(rows)}
<1>1. Max(rows) \in rows /\ Max(rows) \in Nat /\ (\A y \in rows : Max(rows) >= y) /\ IsFiniteSet(rows)
  BY NewestIn
<1>2. rows \in SUBSET Nat /\ rows # {}
  BY DEF HasNewest
<1>3. Min(rows) \in rows /\ \A y \in rows : Min(rows) <= y
  BY <1>2, LeastIn
<1>4. Min(rows) # Max(rows)
  <2>1. SUFFICES ASSUME Min(rows) = Max(rows) PROVE FALSE
    OBVIOUS
  <2>2. ASSUME NEW y \in rows PROVE y = Max(rows)
    <3>1. y \in Nat /\ y <= Max(rows) /\ Max(rows) <= y
      BY <1>1, <1>2, <1>3, <2>1
    <3> QED  BY <1>1, <3>1
  <2>3. rows = {Max(rows)}
    BY <1>1, <2>2
  <2>4. Cardinality(rows) = 1
    BY <2>3, FS_Singleton
  <2> QED  BY <2>4
<1>5. Max(rows) \in new /\ new \in SUBSET Nat /\ \A y \in new : y <= Max(rows)
  BY <1>1, <1>2, <1>4
<1> HIDE DEF new
<1>6. HasNewest(new) /\ Max(new) = Max(rows)
  BY <1>5, NewestOf
<1> QED  BY <1>6 DEF new

\* Rows of as many and as new a number as those before are the same ones.
LEMMA SameRows ==
    ASSUME NEW rows, DatabaseInv, RowsSince(rows), Max(rows) = Max(real.rows),
           Cardinality(rows) = Cardinality(real.rows)
    PROVE  rows = real.rows
<1>1. real.rows \in SUBSET rows
  BY DEF RowsSince
<1>2. IsFiniteSet(rows)
  BY NewestIn DEF RowsSince
<1> QED  BY <1>1, <1>2, FS_Subset

\* A collector goes on, or is over: none begins.
Waning == \A r \in Run : Collecting(r)' => Collecting(r) /\ collector'[r].started = collector[r].started

\* What was there of the collectors stays true while they only go on or end.
LEMMA WaningStep ==
    ASSUME AcceptanceInv, CollectorsInv', Waning,
           UNCHANGED <<real, runner, launcher, paper, tip, clock, begun>>
    PROVE  AcceptanceInv'
<1> USE DEF AcceptanceInv
<1>1. StampsInv'
  BY DEF StampsInv, Waning
<1>2. LauncherInv'
  <2>1. begun \in Run /\ Collecting(begun)' => Collecting(begun)
    BY DEF Waning
  <2>2. Launched' = Launched
    BY DEF Launched, Measured
  <2> QED  BY <2>1, <2>2 DEF LauncherInv
<1>3. RunnerInv'
  <2>1. Measured' = Measured
    BY DEF Measured
  <2>2. ASSUME NEW rows PROVE RowsSince(rows)' = RowsSince(rows)
    BY DEF RowsSince
  <2>3. Measured /\ runner # None => \A r \in Run : Collecting(r)' /\ r < begun' => collector'[r].started < runner.pre
    BY DEF RunnerInv, Waning
  <2> QED  BY <2>1, <2>2, <2>3 DEF RunnerInv
<1>4. DatabaseInv' /\ EvidenceInv'
  BY DEF DatabaseInv, EvidenceInv
<1>5. MarkerInv'
  <2>1. Completed' = Completed /\ Launched' = Launched
    BY DEF Completed, Launched, Measured
  <2>2. Completed => \A r \in Run : Collecting(r)' =>
            r # paper["marker"].run /\ Apart(paper["marker"], r, collector'[r].started)
    BY DEF MarkerInv, Waning
  <2> QED  BY <2>1, <2>2 DEF MarkerInv, Apart
<1>6. GateInv'
  <2>1. Completed' = Completed
    BY DEF Completed
  <2> QED  BY <2>1 DEF GateInv, Waning
<1> QED  BY <1>1, <1>2, <1>3, <1>4, <1>5, <1>6

\* What Hermes does with its database leaves the rest alone.
LEMMA DatabaseStep ==
    ASSUME AcceptanceInv, DatabaseInv', UNCHANGED <<collectorVars, finalVars>>,
           \A rows : RowsSince(rows) => RowsSince(rows)'
    PROVE  AcceptanceInv'
<1> USE DEF AcceptanceInv, collectorVars, finalVars
<1>1. \A r : Collecting(r)' = Collecting(r)
  BY DEF Collecting
<1>2. Measured' = Measured /\ Launched' = Launched /\ Completed' = Completed
  BY DEF Measured, Launched, Completed
<1>3. CollectorsInv' /\ StampsInv' /\ EvidenceInv'
  BY <1>1 DEF CollectorsInv, StampsInv, EvidenceInv
<1>4. LauncherInv'
  BY <1>1, <1>2 DEF LauncherInv
<1>5. RunnerInv'
  BY <1>1, <1>2 DEF RunnerInv
<1>6. MarkerInv'
  BY <1>1, <1>2 DEF MarkerInv, Apart
<1>7. GateInv'
  BY <1>1, <1>2 DEF GateInv
<1> QED  BY <1>3, <1>4, <1>5, <1>6, <1>7

\* The documents a judgement is made of, and the marker unless it says FAILED, stay.
PapersStay ==
    /\ DOMAIN paper' = Document
    /\ \A d \in {"evidence", "gate", "isolation"} : paper'[d] = paper[d]
    /\ Completed' => Completed /\ paper'["marker"] = paper["marker"]

\* Runner and launcher are gone, whatever they did on their way out.
LEMMA EndStep ==
    ASSUME AcceptanceInv, CollectorsInv', Waning, PapersStay,
           runner' = None, launcher' = None, clock' \in {clock, clock + 1},
           UNCHANGED <<real, tip, begun>>
    PROVE  AcceptanceInv'
<1> USE DEF AcceptanceInv, PapersStay
<1>1. ~Launched'
  BY DEF Launched, Measured
<1>2. clock' \in Nat /\ clock <= clock'
  BY DEF StampsInv
<1>3. StampsInv'
  <2>1. ASSUME NEW r \in Run, Collecting(r)' PROVE r <= begun /\ collector'[r].started <= clock'
    <3>1. r <= begun /\ collector[r].started <= clock /\ collector'[r].started = collector[r].started
      BY <2>1 DEF Waning, StampsInv
    <3>2. collector[r].started \in Nat
      BY DEF CollectorsInv, CollectorRow
    <3> QED  BY <1>2, <3>1, <3>2 DEF StampsInv
  <2> QED  BY <1>2, <2>1 DEF StampsInv
<1>4. LauncherInv' /\ RunnerInv' /\ DatabaseInv'
  BY <1>1 DEF LauncherInv, RunnerInv, DatabaseInv
<1>5. EvidenceInv'
  <2>1. clock \in Nat
    BY DEF StampsInv
  <2> QED  BY <1>2, <2>1 DEF EvidenceInv
<1>6. MarkerInv'
  <2>1. SUFFICES ASSUME Completed' PROVE MarkerInv'
    BY DEF MarkerInv
  <2>2. Completed /\ paper'["marker"] = paper["marker"]
    BY <2>1
  <2>3. \A r \in Run : Collecting(r)' =>
            r # paper["marker"].run /\ Apart(paper["marker"], r, collector'[r].started)
    BY <2>2 DEF MarkerInv, Waning
  <2>4. clock \in Nat
    BY DEF StampsInv
  <2> QED  BY <1>1, <1>2, <2>2, <2>3, <2>4 DEF MarkerInv, Apart
<1>7. GateInv'
  BY DEF GateInv, Waning
<1> QED  BY <1>3, <1>4, <1>5, <1>6, <1>7

\* What an upgrade leaves of a database.
LEMMA UpgradedDatabase ==
    ASSUME NEW base, NEW s, NEW c,
           base = [rows |-> base.rows, schema |-> base.schema, complete |-> base.complete, stat |-> base.stat]
    PROVE  [base EXCEPT !.schema = s, !.complete = c] =
               [rows |-> base.rows, schema |-> s, complete |-> c, stat |-> base.stat]
<1> DEFINE one == [base EXCEPT !.schema = s]
<1>1. one = [rows |-> base.rows, schema |-> s, complete |-> base.complete, stat |-> base.stat]
  OBVIOUS
<1> HIDE DEF one
<1>2. [one EXCEPT !.complete = c] = [rows |-> base.rows, schema |-> s, complete |-> c, stat |-> base.stat]
  BY <1>1
<1> QED  BY <1>2 DEF one

\* Hermes at work on its database: rows that are new raise the newest number.
LEMMA HermesWrites ==
    ASSUME AcceptanceInv, StateNext, UNCHANGED <<collectorVars, finalVars>>
    PROVE  AcceptanceInv'
<1> DEFINE rows == real.rows
<1>1. DatabaseInv /\ HasNewest(rows) /\ Max(rows) \in Nat
  BY NewestIn DEF AcceptanceInv, DatabaseInv
<1>2. ASSUME NEW base, Write(base), base.rows = rows \/ HasNewest(base.rows),
             base = [rows |-> base.rows, schema |-> base.schema, complete |-> base.complete, stat |-> base.stat]
      PROVE  real'.rows = base.rows /\ DatabaseInv'
  <2>1. real' = base \/ real' = [base EXCEPT !.stat = @ + 1]
    BY <1>2 DEF Write
  <2>2. /\ real'.rows = base.rows
        /\ real' = [rows |-> real'.rows, schema |-> real'.schema, complete |-> real'.complete,
                    stat |-> real'.stat]
    <3>1. CASE real' = base
      BY <1>2, <3>1
    <3>2. CASE real' = [base EXCEPT !.stat = @ + 1]
      BY <1>2, <3>2
    <3> QED  BY <2>1, <3>1, <3>2
  <2> QED  BY <1>1, <1>2, <2>2 DEF DatabaseInv
<1>3. CASE ControlRun
  <2>1. PICK old \in {{}, {Min(rows)}} :
            Write([real EXCEPT !.rows = (@ \cup {Max(@) + 1}) \ old])
    BY <1>3 DEF ControlRun
  <2> DEFINE new == (rows \cup {Max(rows) + 1}) \ old
             base == [real EXCEPT !.rows = new]
  <2>2. HasNewest(new) /\ Max(new) = Max(rows) + 1
    BY <1>1, InsertedRows
  <2>3. Write(base)
    BY <2>1
  <2> HIDE DEF new
  <2>4. /\ base.rows = new
        /\ base = [rows |-> base.rows, schema |-> base.schema, complete |-> base.complete, stat |-> base.stat]
    BY <1>1 DEF DatabaseInv
  <2> HIDE DEF base
  <2>5. real'.rows = new /\ DatabaseInv'
    BY <1>2, <2>2, <2>3, <2>4
  <2>6. ASSUME NEW s, RowsSince(s) PROVE RowsSince(s)'
    <3>1. Max(s) \in Nat /\ Max(s) <= Max(rows) /\ HasNewest(s)
      BY <2>6, NewestIn DEF RowsSince
    <3>2. Max(s) < Max(real'.rows)
      BY <1>1, <2>2, <2>5, <3>1
    <3> QED  BY <1>1, <2>2, <2>5, <3>1, <3>2 DEF RowsSince
  <2> QED  BY <2>5, <2>6, DatabaseStep
<1>4. CASE Prune
  <2> DEFINE new == rows \ {Min(rows)}
             base == [real EXCEPT !.rows = new]
  <2>1. Write(base) /\ Cardinality(rows) > 1
    BY <1>4 DEF Prune
  <2>2. HasNewest(new) /\ Max(new) = Max(rows) /\ new \subseteq rows
    BY <1>1, <2>1, PrunedRows
  <2> HIDE DEF new
  <2>3. /\ base.rows = new
        /\ base = [rows |-> base.rows, schema |-> base.schema, complete |-> base.complete, stat |-> base.stat]
    BY <1>1 DEF DatabaseInv
  <2> HIDE DEF base
  <2>4. real'.rows = new /\ DatabaseInv'
    BY <1>2, <2>1, <2>2, <2>3
  <2>5. ASSUME NEW s, RowsSince(s) PROVE RowsSince(s)'
    BY <2>2, <2>4, <2>5 DEF RowsSince
  <2> QED  BY <2>4, <2>5, DatabaseStep
<1>5. CASE Upgrade
  <2>1. PICK c \in BOOLEAN : Write([real EXCEPT !.schema = 1, !.complete = c])
    BY <1>5 DEF Upgrade
  <2> DEFINE base == [real EXCEPT !.schema = 1, !.complete = c]
  <2>2. base = [rows |-> rows, schema |-> 1, complete |-> c, stat |-> real.stat]
    BY <1>1, UpgradedDatabase DEF DatabaseInv
  <2> HIDE DEF base
  <2>3. /\ base.rows = rows
        /\ base = [rows |-> base.rows, schema |-> base.schema, complete |-> base.complete, stat |-> base.stat]
    BY <2>2
  <2>4. Write(base)
    BY <2>1 DEF base
  <2>5. real'.rows = rows /\ DatabaseInv'
    BY <1>2, <2>3, <2>4
  <2> QED  BY <2>5, DatabaseStep DEF RowsSince
<1>6. CASE FallQuiet
  BY <1>1, <1>6, DatabaseStep DEF FallQuiet, DatabaseInv, RowsSince
<1> QED  BY <1>3, <1>4, <1>5, <1>6 DEF StateNext

-----------------------------------------------------------------------------
(* The collectors                                                          *)

\* The plan, and the item a collector is at.
LEMMA PlanItems ==
    /\ Len(SamplePlan) \in Nat \ {0}
    /\ DOMAIN SamplePlan = 1 .. Len(SamplePlan)
<1>1. SamplePlan \in Seq(ToSet(SamplePlan)) /\ SamplePlan # << >>
  BY SamplesAssumption
<1> HIDE DEF ToSet
<1> QED  BY <1>1

\* What one collector does does not touch the others.
LEMMA OneCollector ==
    ASSUME CollectorsInv, NEW r \in Run, NEW row \in CollectorRow,
           collector' = [collector EXCEPT ![r] = row], world' \in GitHubValue,
           row.pc = "shadow" => row.direct \in GitHubValue,
           row.pc \in {"direct", "shadow"} => Len(row.samples) < Len(SamplePlan)
    PROVE  /\ CollectorsInv'
           /\ collector'[r] = row /\ \A s \in Run \ {r} : collector'[s] = collector[s]
<1>1. collector' \in [Run -> CollectorRow]
  BY DEF CollectorsInv
<1>2. collector'[r] = row /\ \A s \in Run \ {r} : collector'[s] = collector[s]
  BY DEF CollectorsInv
<1>3. ASSUME NEW s \in Run
      PROVE  /\ collector'[s].pc = "shadow" => collector'[s].direct \in GitHubValue
             /\ collector'[s].pc \in {"direct", "shadow"} => Len(collector'[s].samples) < Len(SamplePlan)
  <2>1. CASE s = r
    BY <1>2, <2>1
  <2>2. CASE s # r
    BY <1>2, <2>2 DEF CollectorsInv
  <2> QED  BY <2>1, <2>2
<1> QED  BY <1>1, <1>2, <1>3 DEF CollectorsInv

\* A collector that is over, however.
LEMMA IdleRow == \A pc \in {"off", "done", "failed"} :
    [Idle EXCEPT !.pc = pc] \in CollectorRow /\ [Idle EXCEPT !.pc = pc].pc = pc
<1>1. << >> \in Seq(TrueSample)
  OBVIOUS
<1> QED  BY <1>1 DEF Idle, CollectorRow

\* The fields of what a collector keeps.
LEMMA CollectorFields ==
    ASSUME NEW row \in CollectorRow
    PROVE  /\ row = [pc |-> row.pc, commit |-> row.commit, started |-> row.started,
                     samples |-> row.samples, direct |-> row.direct]
           /\ row.commit \in Nat /\ row.started \in Nat /\ row.samples \in Seq(TrueSample)
           /\ Len(row.samples) \in Nat
  BY DEF CollectorRow

\* One direct read.
LEMMA DirectStep ==
    ASSUME AcceptanceInv, NEW r \in Run, DirectSide(r), UNCHANGED <<stateVars, finalVars>>
    PROVE  AcceptanceInv'
<1> DEFINE old == collector[r]
           row == [pc |-> "shadow", commit |-> old.commit, started |-> old.started,
                   samples |-> old.samples, direct |-> world]
<1>1. CollectorsInv /\ old \in CollectorRow /\ world \in GitHubValue
  BY DEF AcceptanceInv, CollectorsInv
<1>2. old.pc = "direct" /\ Len(old.samples) < Len(SamplePlan)
  BY DEF AcceptanceInv, CollectorsInv, DirectSide
<1>3. collector' = [collector EXCEPT ![r] = row]
  <2>1. collector' = [collector EXCEPT ![r] = [[old EXCEPT !.pc = "shadow"] EXCEPT !.direct = world]]
    BY DEF DirectSide
  <2>2. [[old EXCEPT !.pc = "shadow"] EXCEPT !.direct = world] = row
    <3> DEFINE one == [old EXCEPT !.pc = "shadow"]
    <3>1. one = [pc |-> "shadow", commit |-> old.commit, started |-> old.started,
                 samples |-> old.samples, direct |-> old.direct]
      BY <1>1, CollectorFields
    <3> HIDE DEF one
    <3>2. [one EXCEPT !.direct = world] = row
      BY <3>1
    <3> QED  BY <3>2 DEF one
  <2> QED  BY <2>1, <2>2
<1>4. row \in CollectorRow
  BY <1>1, CollectorFields DEF CollectorRow
<1>5. row.pc = "shadow" /\ row.direct = world /\ row.samples = old.samples /\ row.started = old.started
  OBVIOUS
<1> HIDE DEF row
<1>6. world' = world
  BY DEF DirectSide
<1>7. CollectorsInv' /\ collector'[r] = row /\ \A s \in Run \ {r} : collector'[s] = collector[s]
  BY <1>1, <1>2, <1>3, <1>4, <1>5, <1>6, OneCollector
<1>8. Waning
  BY <1>2, <1>5, <1>7 DEF Waning, Collecting
<1> QED  BY <1>7, <1>8, WaningStep DEF stateVars, finalVars

\* A collector that gives up.
LEMMA GivenUp ==
    ASSUME CollectorsInv, NEW r \in Run, world' = world,
           collector' = [collector EXCEPT ![r] = [Idle EXCEPT !.pc = "failed"]]
    PROVE  CollectorsInv' /\ Waning
<1> DEFINE row == [Idle EXCEPT !.pc = "failed"]
<1>1. row \in CollectorRow /\ row.pc = "failed"
  BY IdleRow
<1> HIDE DEF row
<1>2. CollectorsInv' /\ collector'[r] = row /\ \A s \in Run \ {r} : collector'[s] = collector[s]
  <2>1. world' \in GitHubValue
    BY DEF CollectorsInv
  <2>2. collector' = [collector EXCEPT ![r] = row]
    BY DEF row
  <2> QED  BY <1>1, <2>1, <2>2, OneCollector
<1> QED  BY <1>1, <1>2 DEF Waning, Collecting

\* The values a session had when it was read: its calls are those of the answer, and its
\* rows differ from the answer's in their values only.
LEMMA SeenAnswer ==
    ASSUME NEW a \in Answer
    PROVE  LET s == Seen(a).session IN
           /\ s.calls = a.session.calls
           /\ DOMAIN s.results = DOMAIN a.session.results
           /\ \A i \in DOMAIN s.results :
                /\ s.results[i].id = a.session.results[i].id
                /\ s.results[i].name = a.session.results[i].name
                /\ s.results[i].mine = a.session.results[i].mine
  BY DEF Seen

\* A sample that counts is true: the row that was taken is what the tool returned.
LEMMA CountedIsTrue ==
    ASSUME NEW r \in Run, NEW a \in Answer, NEW here, Counts(r, Seen(a), here),
           collector[r].direct \in GitHubValue
    PROVE  /\ Len(Seen(a).session.calls) = 1
           /\ Returned(Seen(a).session) = {collector[r].direct}
<1> DEFINE s == Seen(a).session
           t == a.session
           call == s.calls[1]
           rows == {i \in DOMAIN s.results : BelongsTo(s.results[i], call)}
           j == Min(rows)
<1>1. s.calls = t.calls /\ DOMAIN s.results = DOMAIN t.results
  BY SeenAnswer
<1>2. ASSUME NEW i \in DOMAIN s.results
      PROVE  /\ BelongsTo(s.results[i], call) <=> BelongsTo(t.results[i], t.calls[1])
             /\ s.results[i].mine = t.results[i].mine
  BY <1>1, SeenAnswer DEF BelongsTo
<1>3. Len(s.calls) = 1 /\ ResultOf(s, call) = collector[r].direct
  BY Zenon DEF Counts, ProvenancePass, Attributable
<1>4. collector[r].direct # NoValue
  BY SamplesAssumption
<1>5. t.results \in Seq(ToSet(t.results))
  BY AnswersAssumption
<1>6. DOMAIN t.results = 1 .. Len(t.results) /\ Len(t.results) \in Nat
  <2> HIDE DEF t
  <2> QED  BY <1>5
<1> HIDE DEF s, t
<1>7. rows # {} /\ Unwrap(s.results[j], call) = collector[r].direct
  BY <1>3, <1>4, Zenon DEF ResultOf
<1>8. s.results[j].value = collector[r].direct
  BY <1>4, <1>7 DEF Unwrap
<1>9. rows \in SUBSET Nat
  BY <1>1, <1>6
<1>10. j \in rows /\ \A i \in rows : j <= i
  <2> HIDE DEF rows
  <2> QED  BY <1>7, <1>9, LeastIn
<1> HIDE DEF j
<1>11. ASSUME NEW i \in 1 .. j - 1 PROVE ~BelongsTo(t.results[i], t.calls[1])
  <2>1. i \in DOMAIN s.results /\ ~(j <= i)
    BY <1>1, <1>6, <1>10
  <2> QED  BY <1>2, <1>10, <2>1
<1>12. \A i \in DOMAIN t.results : t.results[i].mine <=> i = j
  <2>1. j \in DOMAIN t.results /\ BelongsTo(t.results[j], t.calls[1])
    BY <1>1, <1>2, <1>10
  <2>2. Len(t.calls) = 1
    BY <1>1, <1>3
  <2> QED  BY <1>11, <2>1, <2>2, AnswersAssumption DEF t
<1>13. {i \in DOMAIN s.results : s.results[i].mine} = {j}
  BY <1>1, <1>2, <1>10, <1>12
<1>14. Returned(s) = {s.results[j].value}
  BY <1>13 DEF Returned
<1> QED  BY <1>3, <1>8, <1>14 DEF s

\* What makes a sample true.
LEMMA SampleIsTrue ==
    ASSUME NEW i \in DOMAIN SamplePlan, NEW v \in GitHubValue
    PROVE  [item |-> SamplePlan[i], digest |-> v, calls |-> 1, returned |-> {v}] \in TrueSample
  BY DEF TrueSample, ToSet

\* One prompt.
LEMMA SampleStep ==
    ASSUME AcceptanceInv, NEW r \in Run, NEW a \in Answer, Sample(r, a), UNCHANGED stateVars
    PROVE  AcceptanceInv'
<1> DEFINE old == collector[r]
           here == shadow # None /\ shadow.run = r
           b == Seen(a)
           sample == [item |-> Item(r), digest |-> old.direct,
                      calls |-> Len(b.session.calls), returned |-> Returned(b.session)]
           samples == Append(old.samples, sample)
           pc == IF Len(samples) = Len(SamplePlan) THEN "complete" ELSE "direct"
           row == [pc |-> pc, commit |-> old.commit, started |-> old.started,
                   samples |-> samples, direct |-> NoValue]
<1>1. CollectorsInv /\ old \in CollectorRow /\ world \in GitHubValue /\ collector \in [Run -> CollectorRow]
  BY DEF AcceptanceInv, CollectorsInv
<1>2. ShadowSide(r, b, here) /\ UNCHANGED <<real, runner, launcher, paper, tip, clock, begun>>
  BY Zenon DEF Sample, stateVars
<1>3. old.pc = "shadow" /\ world' = world
  BY <1>2 DEF ShadowSide
<1>4. old.direct \in GitHubValue /\ Len(old.samples) < Len(SamplePlan)
  BY <1>1, <1>3 DEF CollectorsInv
<1>5. CASE Counts(r, b, here)
  <2>1. Len(b.session.calls) = 1 /\ Returned(b.session) = {old.direct}
    BY <1>4, <1>5, CountedIsTrue
  <2>2. Len(old.samples) \in Nat /\ old.samples \in Seq(TrueSample)
    BY <1>1, CollectorFields
  <2>3. Len(old.samples) + 1 \in DOMAIN SamplePlan
    BY <1>4, <2>2, PlanItems
  <2> HIDE DEF b
  <2>4. sample \in TrueSample
    <3> DEFINE k == Len(old.samples) + 1
    <3>1. sample = [item |-> SamplePlan[k], digest |-> old.direct, calls |-> 1, returned |-> {old.direct}]
      BY <2>1 DEF Item
    <3> HIDE DEF sample, k
    <3>2. k \in DOMAIN SamplePlan
      BY <2>3 DEF k
    <3> QED  BY <1>4, <3>1, <3>2, SampleIsTrue
  <2>5. collector' = [collector EXCEPT ![r].samples = samples, ![r].direct = NoValue, ![r].pc = pc]
    BY <1>2, <1>5, Zenon DEF ShadowSide
  <2> HIDE DEF sample
  <2>6. samples \in Seq(TrueSample) /\ Len(samples) = Len(old.samples) + 1
    BY <2>2, <2>4
  <2> HIDE DEF samples
  <2>7. pc \in {"complete", "direct"} /\ (pc = "direct" => Len(samples) < Len(SamplePlan))
    <3>1. Len(samples) \in Nat /\ Len(samples) <= Len(SamplePlan) /\ Len(SamplePlan) \in Nat
      BY <1>4, <2>2, <2>6, PlanItems
    <3>2. Len(samples) # Len(SamplePlan) => Len(samples) < Len(SamplePlan)
      BY <3>1
    <3> QED  BY <3>2
  <2> HIDE DEF pc
  <2>8. collector' = [collector EXCEPT ![r] = row]
    <3> DEFINE one == [old EXCEPT !.samples = samples]
               two == [one EXCEPT !.direct = NoValue]
    <3>1. collector' = [collector EXCEPT ![r] = [two EXCEPT !.pc = pc]]
      BY <1>1, <2>5
    <3>2. one = [pc |-> old.pc, commit |-> old.commit, started |-> old.started,
                 samples |-> samples, direct |-> old.direct]
      BY <1>1, CollectorFields
    <3> HIDE DEF one
    <3>3. two = [pc |-> old.pc, commit |-> old.commit, started |-> old.started,
                 samples |-> samples, direct |-> NoValue]
      BY <3>2
    <3> HIDE DEF two
    <3>4. [two EXCEPT !.pc = pc] = row
      BY <3>3
    <3> QED  BY <3>1, <3>4
  <2>9. row \in CollectorRow
    BY <1>1, <2>6, <2>7, CollectorFields DEF CollectorRow
  <2>10. row.pc = pc /\ row.samples = samples /\ row.started = old.started
    OBVIOUS
  <2> HIDE DEF row
  <2>11. CollectorsInv' /\ collector'[r] = row /\ \A s \in Run \ {r} : collector'[s] = collector[s]
    BY <1>1, <1>3, <2>7, <2>8, <2>9, <2>10, OneCollector
  <2>12. Waning
    BY <1>3, <2>10, <2>11 DEF Waning, Collecting
  <2> QED  BY <1>2, <2>11, <2>12, WaningStep
<1>6. CASE ~Counts(r, b, here)
  <2>1. collector' = [collector EXCEPT ![r] = [Idle EXCEPT !.pc = "failed"]]
    BY <1>2, <1>6, Zenon DEF ShadowSide
  <2>2. CollectorsInv' /\ Waning
    BY <1>1, <1>3, <2>1, GivenUp
  <2> QED  BY <1>2, <2>2, WaningStep
<1> QED  BY <1>5, <1>6

\* A collector fails, and what is read changes.
LEMMA AbortStep ==
    ASSUME AcceptanceInv, NEW r \in Run, Abort(r), UNCHANGED <<stateVars, finalVars>>
    PROVE  AcceptanceInv'
<1>1. CollectorsInv' /\ Waning
  BY GivenUp DEF AcceptanceInv, Abort
<1> QED  BY <1>1, WaningStep DEF stateVars, finalVars

\* Somebody else changes what is read.
LEMMA ChangeStep ==
    ASSUME AcceptanceInv, Change, UNCHANGED <<stateVars, finalVars>>
    PROVE  AcceptanceInv'
<1>1. CollectorsInv' /\ Waning
  BY DEF AcceptanceInv, Change, CollectorsInv, Waning, Collecting, GitHubValue
<1> QED  BY <1>1, WaningStep DEF stateVars, finalVars

\* A launcher starts its collector.
LEMMA CollectStep ==
    ASSUME AcceptanceInv, Collect, UNCHANGED stateVars
    PROVE  AcceptanceInv'
<1> DEFINE row == [pc |-> "direct", commit |-> launcher.commit, started |-> clock + 1,
                   samples |-> << >>, direct |-> NoValue]
<1> USE DEF AcceptanceInv
<1>1. launcher # None /\ launcher.pc = "probed" /\ launcher' = [launcher EXCEPT !.pc = "collecting"]
  BY DEF Collect, Step
<1>2. Launched
  BY <1>1 DEF Launched
<1>3. /\ launcher = [pc |-> launcher.pc, run |-> launcher.run, commit |-> launcher.commit,
                     enabled |-> launcher.enabled, rc |-> launcher.rc]
      /\ launcher.run = begun /\ begun \in Run /\ launcher.commit \in Nat
  BY <1>2 DEF LauncherInv
<1>4. launcher' = [pc |-> "collecting", run |-> begun, commit |-> launcher.commit,
                   enabled |-> launcher.enabled, rc |-> launcher.rc]
  BY <1>1, <1>3
<1>5. clock \in Nat /\ clock' = clock + 1 /\ begun \in Nat /\ tip \in Nat
  BY DEF StampsInv, Collect
<1>6. UNCHANGED <<real, runner, tip, begun>> /\ world' = world
  BY DEF Collect, Start, stateVars
<1>7. /\ DOMAIN paper' = Document /\ paper'["evidence"] = None /\ paper'["gate"] = None
      /\ \A d \in Document \ {"evidence", "gate"} : paper'[d] = paper[d]
  BY DEF Collect, EvidenceInv, Document
<1>8. collector' = [collector EXCEPT ![begun] = row]
  <2>1. collector' = [collector EXCEPT ![begun] =
            [Idle EXCEPT !.pc = "direct", !.commit = launcher.commit, !.started = clock + 1]]
    BY <1>3 DEF Collect, Start
  <2>2. [Idle EXCEPT !.pc = "direct", !.commit = launcher.commit, !.started = clock + 1] = row
    <3> DEFINE one == [Idle EXCEPT !.pc = "direct"]
               two == [one EXCEPT !.commit = launcher.commit]
    <3>1. one = [pc |-> "direct", commit |-> 0, started |-> 0, samples |-> << >>, direct |-> NoValue]
      BY DEF Idle
    <3> HIDE DEF one
    <3>2. two = [pc |-> "direct", commit |-> launcher.commit, started |-> 0,
                 samples |-> << >>, direct |-> NoValue]
      BY <3>1
    <3> HIDE DEF two
    <3>3. [two EXCEPT !.started = clock + 1] = row
      BY <3>2
    <3> QED  BY <3>3 DEF two, one
  <2> QED  BY <2>1, <2>2
<1>9. row \in CollectorRow
  <2>1. << >> \in Seq(TrueSample)
    OBVIOUS
  <2> QED  BY <1>3, <1>5, <2>1 DEF CollectorRow
<1>10. row.pc = "direct" /\ row.started = clock + 1 /\ Len(row.samples) < Len(SamplePlan)
  BY PlanItems
<1> HIDE DEF row
<1>11. /\ CollectorsInv'
       /\ collector'[begun] = row /\ \A s \in Run \ {begun} : collector'[s] = collector[s]
  <2>1. world' \in GitHubValue /\ CollectorsInv
    BY <1>6 DEF CollectorsInv
  <2> QED  BY <1>3, <1>8, <1>9, <1>10, <2>1, OneCollector
<1>12. \A r \in Run \ {begun} : Collecting(r)' <=> Collecting(r)
  BY <1>11 DEF Collecting
<1>13. \A r \in Run : collector[r].started \in Nat
  BY DEF CollectorsInv, CollectorRow
<1>14. StampsInv'
  <2>1. ASSUME NEW r \in Run, Collecting(r)' PROVE r <= begun /\ collector'[r].started <= clock + 1
    <3>1. CASE r = begun
      BY <1>5, <1>10, <1>11, <3>1
    <3>2. CASE r # begun
      BY <1>5, <1>11, <1>12, <1>13, <2>1, <3>2 DEF StampsInv
    <3> QED  BY <3>1, <3>2
  <2> QED  BY <1>5, <1>6, <2>1 DEF StampsInv
<1>15. DatabaseInv'
  BY <1>6 DEF DatabaseInv
<1>16. LauncherInv'
  <2>1. /\ launcher'.pc = "collecting" /\ launcher'.run = begun'
        /\ launcher' = [pc |-> launcher'.pc, run |-> launcher'.run, commit |-> launcher'.commit,
                     enabled |-> launcher'.enabled, rc |-> launcher'.rc]
        /\ launcher'.commit \in Nat
    BY <1>3, <1>4, <1>6
  <2>2. paper'["isolation"] # None => paper'["isolation"].run = begun'
    BY <1>1, <1>2, <1>6, <1>7 DEF LauncherInv, Document
  <2> QED  BY <1>3, <1>6, <2>1, <2>2 DEF LauncherInv
<1>17. RunnerInv'
  <2>1. Measured' = Measured
    BY <1>6 DEF Measured
  <2>2. \A s : RowsSince(s)' = RowsSince(s)
    BY <1>6 DEF RowsSince
  <2>3. ASSUME runner # None, Measured
        PROVE  /\ runner.pre \in Nat /\ runner.pre <= clock'
               /\ \A r \in Run : Collecting(r)' /\ r < begun' => collector'[r].started < runner.pre
    <3>1. runner.pre \in Nat /\ runner.pre <= clock
      BY <2>3 DEF RunnerInv
    <3>2. ASSUME NEW r \in Run, Collecting(r)', r < begun' PROVE collector'[r].started < runner.pre
      <4>1. r \in Run \ {begun}
        BY <1>5, <1>6, <3>2
      <4> QED  BY <1>6, <1>11, <1>12, <2>3, <3>2, <4>1 DEF RunnerInv
    <3> QED  BY <1>5, <3>1, <3>2
  <2>4. runner # None => runner.pc # "after"
    BY <1>1 DEF RunnerInv
  <2>5. paper'["witness"] = paper["witness"]
    BY <1>7 DEF Document
  <2> QED  BY <1>6, <1>7, <2>1, <2>2, <2>3, <2>4, <2>5 DEF RunnerInv
<1>18. EvidenceInv' /\ GateInv'
  BY <1>7 DEF EvidenceInv, GateInv
<1>19. MarkerInv'
  <2>1. Completed' = Completed /\ paper'["marker"] = paper["marker"]
    BY <1>7 DEF Completed, Document
  <2>2. SUFFICES ASSUME Completed PROVE MarkerInv'
    BY <2>1 DEF MarkerInv
  <2> DEFINE m == paper["marker"]
  <2>3. /\ m.kept /\ m.witness = m.run /\ m.run \in Run /\ m.run <= begun /\ m.pre \in Nat
        /\ m.post \in Nat /\ m.post <= clock /\ m.run < begun
    BY <1>2, <2>2 DEF MarkerInv
  <2>4. m.run \in Nat
    BY <2>3, SamplesAssumption
  <2>5. ASSUME NEW r \in Run, Collecting(r)'
        PROVE  r # m.run /\ Apart(m, r, collector'[r].started)
    <3>1. CASE r = begun
      BY <1>5, <1>10, <1>11, <2>3, <2>4, <3>1 DEF Apart
    <3>2. CASE r # begun
      BY <1>11, <1>12, <2>2, <2>5, <3>2 DEF MarkerInv
    <3> QED  BY <3>1, <3>2
  <2> QED  BY <1>5, <1>6, <1>7, <2>1, <2>3, <2>5 DEF MarkerInv, Apart
<1> QED  BY <1>11, <1>14, <1>15, <1>16, <1>17, <1>18, <1>19

-----------------------------------------------------------------------------
(* The launcher and the files                                              *)

\* A launcher that exists is the newest run's.
LEMMA LauncherFields ==
    ASSUME LauncherInv, launcher # None
    PROVE  /\ launcher = [pc |-> launcher.pc, run |-> begun, commit |-> launcher.commit,
                          enabled |-> launcher.enabled, rc |-> launcher.rc]
           /\ launcher.run = begun /\ begun \in Run /\ launcher.commit \in Nat /\ Launched
  BY DEF LauncherInv, Launched

\* A collector reports: its evidence is of the window it was started in.
LEMMA ReportStep ==
    ASSUME AcceptanceInv, NEW r \in Run, Report(r), LauncherInv', Launched' => Launched,
           runner # None /\ runner.pc = "after" => launcher'.pc = "left",
           UNCHANGED <<real, runner, tip, begun>>
    PROVE  AcceptanceInv'
<1> USE DEF AcceptanceInv
<1> DEFINE old == collector[r]
           e == paper'["evidence"]
<1>1. collector[r].pc = "complete" /\ Collecting(r) /\ old \in CollectorRow
  BY DEF Report, Collecting, CollectorsInv
<1>2. clock \in Nat /\ begun \in Nat /\ clock' = clock + 1 /\ world' = world
  BY DEF StampsInv, Report
<1>3. r \in Nat /\ r <= begun /\ old.started \in Nat /\ old.started <= clock
  BY <1>1, CollectorFields, SamplesAssumption DEF StampsInv
<1>4. PICK f \in Fact : paper' = [paper EXCEPT !["evidence"] = Evidence(r, f)]
  BY DEF Report
<1>5. /\ DOMAIN paper' = Document /\ e = Evidence(r, f)
      /\ \A d \in Document \ {"evidence"} : paper'[d] = paper[d]
  BY <1>4 DEF EvidenceInv, Document
<1>6. e.run = r /\ e.started = old.started /\ e.finished = clock + 1 /\ e.samples = old.samples
  BY <1>5 DEF Evidence
<1> HIDE DEF e
<1>7. /\ paper'["marker"] = paper["marker"] /\ paper'["gate"] = paper["gate"]
      /\ paper'["witness"] = paper["witness"] /\ Completed' = Completed
  BY <1>5 DEF Document, Completed
<1>8. CollectorsInv' /\ Waning /\ ~Collecting(r)'
  <2> DEFINE row == [Idle EXCEPT !.pc = "done"]
  <2>1. row \in CollectorRow /\ row.pc = "done"
    BY IdleRow
  <2>2. collector' = [collector EXCEPT ![r] = row] /\ CollectorsInv
    BY DEF Report
  <2> HIDE DEF row
  <2>3. world' \in GitHubValue
    BY <1>2 DEF CollectorsInv
  <2>4. CollectorsInv' /\ collector'[r] = row /\ \A s \in Run \ {r} : collector'[s] = collector[s]
    BY <2>1, <2>2, <2>3, OneCollector
  <2> QED  BY <2>1, <2>4 DEF Waning, Collecting
<1>9. \A s \in Run : collector[s].started \in Nat
  BY DEF CollectorsInv, CollectorRow
<1>10. StampsInv' /\ DatabaseInv'
  <2>1. ASSUME NEW s \in Run, Collecting(s)' PROVE s <= begun /\ collector'[s].started <= clock + 1
    <3>1. s <= begun /\ collector[s].started <= clock /\ collector'[s].started = collector[s].started
      BY <1>8, <2>1 DEF Waning, StampsInv
    <3> QED  BY <1>2, <1>9, <3>1
  <2> QED  BY <1>2, <2>1 DEF StampsInv, DatabaseInv
<1>11. EvidenceInv'
  <2>1. e.samples \in Seq(TrueSample)
    BY <1>1, <1>6, CollectorFields
  <2> QED  BY <1>2, <1>3, <1>5, <1>6, <2>1 DEF EvidenceInv, e
<1>12. RunnerInv'
  <2>1. Measured' = Measured
    BY DEF Measured
  <2>2. \A s : RowsSince(s)' = RowsSince(s)
    BY DEF RowsSince
  <2>3. ASSUME runner # None, Measured
        PROVE  /\ runner.pre \in Nat /\ runner.pre <= clock'
               /\ \A s \in Run : Collecting(s)' /\ s < begun' => collector'[s].started < runner.pre
               /\ e.run < begun' => e.started < runner.pre
    <3>1. runner.pre \in Nat /\ runner.pre <= clock
      BY <2>3 DEF RunnerInv
    <3>2. \A s \in Run : Collecting(s) /\ s < begun => collector[s].started < runner.pre
      BY <2>3 DEF RunnerInv
    <3> QED  BY <1>1, <1>2, <1>6, <1>8, <3>1, <3>2 DEF Waning
  <2> QED  BY <1>7, <2>1, <2>2, <2>3 DEF RunnerInv, e
<1>13. MarkerInv'
  <2>1. SUFFICES ASSUME Completed PROVE MarkerInv'
    BY <1>7 DEF MarkerInv
  <2> DEFINE m == paper["marker"]
  <2>2. /\ m.kept /\ m.witness = m.run /\ m.run \in Run /\ m.run <= begun /\ m.pre \in Nat
        /\ m.post \in Nat /\ m.post <= clock /\ (Launched => m.run < begun)
        /\ \A s \in Run : Collecting(s) => s # m.run /\ Apart(m, s, collector[s].started)
    BY <2>1 DEF MarkerInv
  <2>3. r # m.run /\ Apart(m, e.run, e.started)
    BY <1>1, <1>6, <2>2
  <2>4. \A s \in Run : Collecting(s)' => s # m.run /\ Apart(m, s, collector'[s].started)
    BY <1>8, <2>2 DEF Waning
  <2> QED  BY <1>2, <1>6, <1>7, <2>2, <2>3, <2>4 DEF MarkerInv, Apart, e
<1>14. GateInv'
  <2>1. SUFFICES ASSUME paper["gate"] # None, paper["gate"].accepted PROVE GateInv'
    BY <1>7 DEF GateInv
  <2> DEFINE g == paper["gate"]
  <2>2. g.isolated \in Run /\ g.isolated <= begun /\ \A s \in Run : Collecting(s) => s < g.isolated
    BY <2>1 DEF GateInv
  <2>3. r < g.isolated /\ g.isolated \in Nat
    BY <1>1, <2>2, SamplesAssumption
  <2>4. Completed => r # paper["marker"].run
    BY <1>1 DEF MarkerInv
  <2> QED  BY <1>3, <1>6, <1>7, <1>8, <2>2, <2>3, <2>4 DEF GateInv, Waning, e
<1> QED  BY <1>8, <1>10, <1>11, <1>12, <1>13, <1>14

\* The collector of the launcher reports, or one without a launcher does.
LEMMA CollectedStep ==
    ASSUME AcceptanceInv, Collected, UNCHANGED stateVars
    PROVE  AcceptanceInv'
<1> USE DEF AcceptanceInv
<1>1. /\ launcher # None /\ launcher.pc = "collecting" /\ Report(launcher.run)
      /\ launcher' = [launcher EXCEPT !.pc = "collected"]
      /\ UNCHANGED <<real, runner, tip, begun>>
  BY DEF Collected, Step, stateVars
<1>2. /\ launcher = [pc |-> launcher.pc, run |-> begun, commit |-> launcher.commit,
                     enabled |-> launcher.enabled, rc |-> launcher.rc]
      /\ launcher.run = begun /\ begun \in Run /\ launcher.commit \in Nat /\ Launched
  BY <1>1, LauncherFields
<1>3. launcher' = [pc |-> "collected", run |-> begun, commit |-> launcher.commit,
                   enabled |-> launcher.enabled, rc |-> launcher.rc]
  BY <1>1, <1>2
<1>4. paper'["isolation"] = paper["isolation"] /\ ~Collecting(begun)'
  <2>1. PICK f \in Fact : paper' = [paper EXCEPT !["evidence"] = Evidence(begun, f)]
    BY <1>1, <1>2 DEF Report
  <2>2. paper'["isolation"] = paper["isolation"]
    BY <2>1 DEF EvidenceInv, Document
  <2>3. collector'[begun] = [Idle EXCEPT !.pc = "done"] /\ begun' = begun
    BY <1>1, <1>2 DEF Report, CollectorsInv
  <2>4. collector'[begun].pc = "done"
    BY <2>3, IdleRow
  <2> QED  BY <2>2, <2>3, <2>4 DEF Collecting
<1>5. paper["isolation"] # None => paper["isolation"].run = begun
  BY <1>1, <1>2 DEF LauncherInv
<1>6. LauncherInv'
  BY <1>1, <1>2, <1>3, <1>4, <1>5 DEF LauncherInv
<1>7. runner # None => runner.pc # "after"
  BY <1>1 DEF RunnerInv
<1> QED  BY <1>1, <1>2, <1>6, <1>7, ReportStep

\* A collector whose launcher is gone reports.
LEMMA OrphanStep ==
    ASSUME AcceptanceInv, OrphanReports, UNCHANGED stateVars
    PROVE  AcceptanceInv'
<1> USE DEF AcceptanceInv
<1>1. PICK r \in Run : Report(r)
  BY DEF OrphanReports
<1>2. UNCHANGED <<real, runner, launcher, tip, begun>>
  BY DEF OrphanReports, stateVars
<1>3. Launched' = Launched
  BY <1>2 DEF Launched, Measured
<1>4. LauncherInv'
  <2>1. PICK f \in Fact : paper' = [paper EXCEPT !["evidence"] = Evidence(r, f)]
    BY <1>1 DEF Report
  <2>2. paper'["isolation"] = paper["isolation"] /\ paper'["gate"] = paper["gate"]
    BY <2>1 DEF EvidenceInv, Document
  <2>3. \A s \in Run : Collecting(s)' => Collecting(s)
    <3>1. collector' = [collector EXCEPT ![r] = [Idle EXCEPT !.pc = "done"]]
      BY <1>1 DEF Report
    <3>2. collector'[r] = [Idle EXCEPT !.pc = "done"] /\ \A s \in Run \ {r} : collector'[s] = collector[s]
      BY <3>1 DEF CollectorsInv
    <3> QED  BY <3>2, IdleRow DEF Collecting
  <2> QED  BY <1>2, <1>3, <2>2, <2>3 DEF LauncherInv
<1> QED  BY <1>1, <1>2, <1>3, <1>4, ReportStep DEF RunnerInv

\* A launcher goes on, and leaves evidence and marker alone.
LEMMA LauncherGoes ==
    ASSUME AcceptanceInv, launcher # None, launcher.pc # "left",
           NEW pc, pc \notin {"collecting", "collected"}, NEW enabled, NEW rc,
           launcher' = [pc |-> pc, run |-> begun, commit |-> launcher.commit,
                        enabled |-> enabled, rc |-> rc],
           DOMAIN paper' = Document,
           paper'["evidence"] = paper["evidence"], paper'["marker"] = paper["marker"],
           paper'["witness"] # None =>
               paper'["witness"] = paper["witness"] \/ paper'["witness"].run = begun,
           pc = "probed" => paper'["isolation"].run = begun,
           pc \in {"leaving", "left"} /\ rc = 0 =>
               ~Collecting(begun) /\ (paper'["gate"] # None => paper'["gate"].isolated = begun),
           paper'["gate"] = paper["gate"] \/ GateInv',
           UNCHANGED <<real, collectorVars, runner, tip, clock, begun>>
    PROVE  AcceptanceInv'
<1> USE DEF AcceptanceInv, collectorVars
<1>1. /\ launcher.run = begun /\ begun \in Run /\ launcher.commit \in Nat /\ Launched
  BY LauncherFields
<1>2. \A r : Collecting(r)' <=> Collecting(r)
  BY DEF Collecting
<1>3. Measured' = Measured /\ Completed' = Completed
  BY DEF Measured, Completed
<1>4. CollectorsInv' /\ StampsInv' /\ DatabaseInv' /\ EvidenceInv'
  BY <1>2 DEF CollectorsInv, StampsInv, DatabaseInv, EvidenceInv
<1>5. LauncherInv'
  BY <1>1, <1>2 DEF LauncherInv
<1>6. RunnerInv'
  <2>1. \A s : RowsSince(s)' = RowsSince(s)
    BY DEF RowsSince
  <2>2. runner # None => runner.pc # "after"
    BY DEF RunnerInv
  <2> QED  BY <1>2, <1>3, <2>1, <2>2 DEF RunnerInv
<1>7. MarkerInv'
  <2>1. launcher'.pc \notin {"collecting", "collected"}
    OBVIOUS
  <2> QED  BY <1>1, <1>2, <1>3, <2>1 DEF MarkerInv, Apart
<1>8. GateInv'
  BY <1>2, <1>3 DEF GateInv
<1> QED  BY <1>4, <1>5, <1>6, <1>7, <1>8

\* The home and the baseline, and the probes.
LEMMA PrepareStep ==
    ASSUME AcceptanceInv, PrepareHome, UNCHANGED <<stateVars, collectorVars>>
    PROVE  AcceptanceInv'
<1> USE DEF AcceptanceInv
<1>1. launcher # None /\ launcher.pc = "pinned" /\ launcher' = [launcher EXCEPT !.pc = "prepared"]
  BY DEF PrepareHome, Step
<1>2. launcher' = [pc |-> "prepared", run |-> begun, commit |-> launcher.commit,
                   enabled |-> launcher.enabled, rc |-> launcher.rc]
  BY <1>1, LauncherFields
<1>3. DOMAIN paper' = Document /\ \A d \in Document \ {"baseline"} : paper'[d] = paper[d]
  BY DEF PrepareHome, EvidenceInv
<1>4. /\ paper'["evidence"] = paper["evidence"] /\ paper'["marker"] = paper["marker"]
      /\ paper'["witness"] = paper["witness"] /\ paper'["gate"] = paper["gate"]
  BY <1>3 DEF Document
<1>5. UNCHANGED <<real, runner, tip, clock, begun>>
  BY DEF PrepareHome, stateVars
<1>6. /\ launcher # None /\ launcher.pc # "left" /\ "prepared" \notin {"collecting", "collected"}
      /\ "prepared" \notin {"leaving", "left"} /\ "prepared" # "probed"
  BY <1>1
<1> HIDE DEF AcceptanceInv
<1> QED  BY <1>2, <1>3, <1>4, <1>5, <1>6, LauncherGoes

\* The record of the isolation is of the run that probed.
LEMMA ProbeStep ==
    ASSUME AcceptanceInv, ProbeShadow, UNCHANGED <<stateVars, collectorVars>>
    PROVE  AcceptanceInv'
<1> USE DEF AcceptanceInv
<1>1. launcher # None /\ launcher.pc = "prepared" /\ launcher' = [launcher EXCEPT !.pc = "probed"]
  BY DEF ProbeShadow, Step
<1>2. launcher' = [pc |-> "probed", run |-> begun, commit |-> launcher.commit,
                   enabled |-> launcher.enabled, rc |-> launcher.rc]
  BY <1>1, LauncherFields
<1>3. DOMAIN paper' = Document /\ \A d \in Document \ {"isolation"} : paper'[d] = paper[d]
  BY DEF ProbeShadow, EvidenceInv
<1>4. /\ paper'["evidence"] = paper["evidence"] /\ paper'["marker"] = paper["marker"]
      /\ paper'["witness"] = paper["witness"] /\ paper'["gate"] = paper["gate"]
  BY <1>3 DEF Document
<1>5. paper'["isolation"].run = begun
  <2>1. paper' = [paper EXCEPT !["isolation"] = [run |-> launcher.run, commit |-> launcher.commit]]
    BY DEF ProbeShadow
  <2>2. paper'["isolation"] = [run |-> launcher.run, commit |-> launcher.commit]
    BY <2>1 DEF EvidenceInv, Document
  <2> QED  BY <1>1, <2>2, LauncherFields
<1>6. UNCHANGED <<real, runner, tip, clock, begun>>
  BY DEF ProbeShadow, stateVars
<1>7. /\ launcher # None /\ launcher.pc # "left" /\ "probed" \notin {"collecting", "collected"}
      /\ "probed" \notin {"leaving", "left"}
  BY <1>1
<1> HIDE DEF AcceptanceInv
<1> QED  BY <1>2, <1>3, <1>4, <1>5, <1>6, <1>7, LauncherGoes

\* A launcher that blocks leaves with a return code that says so.
LEMMA BlockedStep ==
    ASSUME AcceptanceInv, Blocked, UNCHANGED <<stateVars, collectorVars>>
    PROVE  AcceptanceInv'
<1> USE DEF AcceptanceInv
<1> DEFINE enabled == launcher.enabled /\ launcher.pc # "pinned"
<1>1. launcher # None /\ launcher.pc # "left"
  BY DEF Blocked
<1>2. launcher' = [launcher EXCEPT !.rc = 2, !.pc = "leaving", !.enabled = enabled]
  BY DEF Blocked
<1> HIDE DEF enabled
<1>3. launcher' = [pc |-> "leaving", run |-> begun, commit |-> launcher.commit,
                   enabled |-> enabled, rc |-> 2]
  <2> DEFINE one == [launcher EXCEPT !.rc = 2]
             two == [one EXCEPT !.pc = "leaving"]
  <2>1. one = [pc |-> launcher.pc, run |-> begun, commit |-> launcher.commit,
               enabled |-> launcher.enabled, rc |-> 2]
    BY <1>1, LauncherFields
  <2> HIDE DEF one
  <2>2. two = [pc |-> "leaving", run |-> begun, commit |-> launcher.commit,
               enabled |-> launcher.enabled, rc |-> 2]
    BY <2>1
  <2> HIDE DEF two
  <2>3. [two EXCEPT !.enabled = enabled] = [pc |-> "leaving", run |-> begun,
            commit |-> launcher.commit, enabled |-> enabled, rc |-> 2]
    BY <2>2
  <2> QED  BY <1>2, <2>3, Zenon DEF one, two
<1>4. UNCHANGED <<paper, real, runner, tip, clock, begun>> /\ DOMAIN paper = Document
  BY DEF Blocked, stateVars, EvidenceInv
<1> QED  BY <1>1, <1>3, <1>4, LauncherGoes

\* The verdict is of the evidence that is there, in the shadow that was probed last.
LEMMA JudgeStep ==
    ASSUME AcceptanceInv, Judge, UNCHANGED <<stateVars, collectorVars>>
    PROVE  AcceptanceInv'
<1> USE DEF AcceptanceInv
<1> DEFINE e == paper["evidence"]
           g == paper'["gate"]
           rc == IF GateHolds THEN 0 ELSE 2
<1>1. launcher # None /\ launcher.pc = "collected"
  BY DEF Judge
<1>2. /\ launcher = [pc |-> launcher.pc, run |-> begun, commit |-> launcher.commit,
                     enabled |-> launcher.enabled, rc |-> launcher.rc]
      /\ launcher.run = begun /\ begun \in Run /\ launcher.commit \in Nat /\ Launched
  BY <1>1, LauncherFields
<1>3. launcher' = [pc |-> "leaving", run |-> begun, commit |-> launcher.commit,
                   enabled |-> launcher.enabled, rc |-> rc]
  <2> HIDE DEF rc
  <2> DEFINE one == [launcher EXCEPT !.pc = "leaving"]
  <2>1. one = [pc |-> "leaving", run |-> begun, commit |-> launcher.commit,
               enabled |-> launcher.enabled, rc |-> launcher.rc]
    BY <1>2
  <2> HIDE DEF one
  <2>2. [one EXCEPT !.rc = rc] = [pc |-> "leaving", run |-> begun, commit |-> launcher.commit,
               enabled |-> launcher.enabled, rc |-> rc]
    BY <2>1
  <2>3. launcher' = [one EXCEPT !.rc = rc]
    BY Zenon DEF Judge, one, rc
  <2> QED  BY <2>2, <2>3, Zenon
<1>4. /\ DOMAIN paper' = Document /\ \A d \in Document \ {"gate"} : paper'[d] = paper[d]
      /\ g = [accepted |-> GateHolds, run |-> IF e = None THEN 0 ELSE e.run,
              commit |-> IF e = None THEN 0 ELSE e.commit,
              isolated |-> IF paper["isolation"] = None THEN 0 ELSE paper["isolation"].run]
  BY DEF Judge, EvidenceInv, Document
<1>5. UNCHANGED <<real, runner, tip, clock, begun>>
  BY DEF Judge, stateVars
<1>6. /\ paper'["evidence"] = paper["evidence"] /\ paper'["marker"] = paper["marker"]
      /\ paper'["witness"] = paper["witness"]
  BY <1>4 DEF Document
<1>7. GateHolds => /\ e # None /\ g.run = e.run /\ g.isolated = begun
  <2>1. GateHolds => e # None /\ paper["isolation"] # None
    BY DEF GateHolds, IsolationHolds
  <2>2. paper["isolation"] # None => paper["isolation"].run = begun
    BY <1>1, <1>2 DEF LauncherInv
  <2> QED  BY <1>4, <2>1, <2>2
<1>8. g.accepted <=> GateHolds
  BY <1>4
<1>9. ~Collecting(begun) /\ \A r : Collecting(r)' <=> Collecting(r)
  BY <1>1, <1>2 DEF LauncherInv, Collecting, collectorVars
<1> HIDE DEF g, rc
<1>10. GateInv'
  <2>1. SUFFICES ASSUME g # None, GateHolds PROVE GateInv'
    BY <1>8 DEF GateInv, g
  <2>2. e # None /\ g.run = e.run /\ g.isolated = begun
    BY <1>7, <2>1
  <2>3. begun \in Nat /\ e.run \in Run /\ e.run <= begun
    BY <2>2 DEF StampsInv, EvidenceInv
  <2>4. ASSUME NEW r \in Run, Collecting(r)' PROVE r < begun
    <3>1. r <= begun /\ r # begun /\ r \in Nat
      BY <1>9, <2>4, SamplesAssumption DEF StampsInv
    <3> QED  BY <2>3, <3>1
  <2>5. Completed' => e.run # paper'["marker"].run
    <3>1. Completed' = Completed
      BY <1>6 DEF Completed
    <3>2. Completed => e.run # paper["marker"].run
      BY <1>1, <1>2, <2>2 DEF MarkerInv
    <3> QED  BY <1>6, <3>1, <3>2
  <2> QED  BY <1>2, <1>5, <1>6, <2>2, <2>3, <2>4, <2>5 DEF GateInv, g
<1>11. rc = 0 => ~Collecting(begun) /\ (g # None => g.isolated = begun)
  BY <1>7, <1>9 DEF rc
<1>12. launcher # None /\ launcher.pc # "left" /\ "leaving" \notin {"collecting", "collected"}
       /\ "leaving" # "probed"
  BY <1>1
<1> HIDE DEF AcceptanceInv
<1> QED  BY <1>3, <1>4, <1>5, <1>6, <1>10, <1>11, <1>12, LauncherGoes DEF g

\* What the trap writes: a witness of its own run, or none, and nothing else that stays.
LEMMA TrapWrites ==
    ASSUME EvidenceInv, Trap
    PROVE  /\ DOMAIN paper' = Document
           /\ \A d \in {"evidence", "gate", "isolation", "marker"} : paper'[d] = paper[d]
           /\ paper'["witness"] = paper["witness"] \/ paper'["witness"].run = launcher.run
<1>1. PICK emitted \in BOOLEAN :
          paper' = [paper EXCEPT !["baseline"] = None,
                                 !["witness"] = IF emitted THEN Witness ELSE @]
  BY DEF Trap
<1>2. Witness.run = launcher.run
  BY DEF Witness
<1>3. DOMAIN paper' = Document /\ \A d \in Document \ {"baseline", "witness"} : paper'[d] = paper[d]
  BY <1>1 DEF EvidenceInv
<1>4. paper'["witness"] \in {paper["witness"], Witness}
  <2>1. CASE emitted
    BY <1>1, <2>1 DEF EvidenceInv, Document
  <2>2. CASE ~emitted
    BY <1>1, <2>2 DEF EvidenceInv, Document
  <2> QED  BY <2>1, <2>2
<1> QED  BY <1>2, <1>3, <1>4 DEF Document

\* The launcher is gone; or it waits for the runner, its return code as it was.
LEMMA CleanupStep ==
    ASSUME AcceptanceInv, Cleanup, UNCHANGED <<stateVars, collectorVars>>
    PROVE  AcceptanceInv'
<1> USE DEF AcceptanceInv
<1>1. launcher # None /\ launcher.pc = "leaving" /\ Trap
  BY DEF Cleanup
<1>2. /\ launcher = [pc |-> launcher.pc, run |-> begun, commit |-> launcher.commit,
                     enabled |-> launcher.enabled, rc |-> launcher.rc]
      /\ launcher.run = begun /\ begun \in Run /\ launcher.commit \in Nat /\ Launched
  BY <1>1, LauncherFields
<1>3. /\ DOMAIN paper' = Document
      /\ \A d \in {"evidence", "gate", "isolation", "marker"} : paper'[d] = paper[d]
      /\ paper'["witness"] = paper["witness"] \/ paper'["witness"].run = begun
  BY <1>1, <1>2, TrapWrites
<1>4. UNCHANGED <<real, runner, tip, clock, begun>>
  BY DEF Cleanup, stateVars
<1>5. CASE runner = None
  <2>1. launcher' = None /\ runner' = None
    BY <1>4, <1>5 DEF Cleanup
  <2>2. CollectorsInv' /\ Waning
    BY DEF CollectorsInv, Waning, Collecting, collectorVars
  <2>3. PapersStay
    BY <1>3 DEF PapersStay, Completed
  <2> QED  BY <1>4, <2>1, <2>2, <2>3, EndStep
<1>6. CASE runner # None
  <2>1. launcher' = [pc |-> "left", run |-> begun, commit |-> launcher.commit,
                     enabled |-> launcher.enabled, rc |-> launcher.rc]
    BY <1>2, <1>6 DEF Cleanup
  <2>2. launcher.rc = 0 => ~Collecting(begun) /\ (paper'["gate"] # None => paper'["gate"].isolated = begun)
    BY <1>1, <1>2, <1>3 DEF LauncherInv
  <2>3. launcher # None /\ launcher.pc # "left" /\ "left" \notin {"collecting", "collected"}
        /\ "left" # "probed"
    BY <1>1
  <2>4. /\ paper'["evidence"] = paper["evidence"] /\ paper'["marker"] = paper["marker"]
        /\ paper'["gate"] = paper["gate"]
    BY <1>3
  <2> HIDE DEF AcceptanceInv
  <2> QED  BY <1>3, <1>4, <2>1, <2>2, <2>3, <2>4, LauncherGoes
<1> QED  BY <1>5, <1>6

\* A launcher of its own begins.
LEMMA AloneStep ==
    ASSUME AcceptanceInv, Alone, UNCHANGED <<stateVars, collectorVars>>
    PROVE  AcceptanceInv'
<1> USE DEF AcceptanceInv
<1>1. /\ runner = None /\ begun + 1 \in Run /\ begun' = begun + 1
      /\ launcher' = [pc |-> "pinned", run |-> begun + 1, commit |-> tip, enabled |-> FALSE, rc |-> 0]
  BY DEF Alone, Begin
<1>2. UNCHANGED <<real, collector, world, runner, paper, tip, clock>>
  BY DEF Alone, stateVars, collectorVars
<1>3. begun \in Nat /\ clock \in Nat /\ tip \in Nat
  BY DEF StampsInv
<1>4. \A r : Collecting(r)' <=> Collecting(r)
  BY <1>2 DEF Collecting
<1>5. CollectorsInv' /\ DatabaseInv' /\ RunnerInv'
  BY <1>1, <1>2 DEF CollectorsInv, DatabaseInv, RunnerInv
<1>6. \A r \in Run : r \in Nat /\ (r <= begun => r <= begun' /\ r < begun')
  BY <1>1, <1>3, SamplesAssumption
<1>7. StampsInv'
  BY <1>1, <1>2, <1>3, <1>4, <1>6 DEF StampsInv
<1>8. LauncherInv'
  BY <1>1, <1>2, <1>3 DEF LauncherInv
<1>9. EvidenceInv'
  BY <1>2, <1>6 DEF EvidenceInv
<1>10. Completed' = Completed
  BY <1>2 DEF Completed
<1>11. MarkerInv'
  <2>1. launcher'.pc = "pinned"
    BY <1>1
  <2> QED  BY <1>2, <1>4, <1>6, <1>10, <2>1 DEF MarkerInv, Apart
<1>12. GateInv'
  BY <1>2, <1>4, <1>6, <1>10 DEF GateInv
<1> QED  BY <1>5, <1>7, <1>8, <1>9, <1>11, <1>12

\* systemd ends the unit, or the launcher is killed.
LEMMA UnitKilledStep ==
    ASSUME AcceptanceInv, UnitKilled, UNCHANGED stateVars
    PROVE  AcceptanceInv'
<1> USE DEF AcceptanceInv
<1>1. /\ runner' = None /\ launcher' = None /\ UNCHANGED <<real, world, tip, clock, begun>>
      /\ (launcher # None /\ Trap) \/ UNCHANGED paper
  BY DEF UnitKilled, stateVars
<1>2. PapersStay
  <2>1. CASE Trap
    BY <2>1, TrapWrites DEF PapersStay, Completed
  <2>2. CASE UNCHANGED paper
    BY <2>2 DEF PapersStay, Completed, EvidenceInv
  <2> QED  BY <1>1, <2>1, <2>2
<1> DEFINE over == [Idle EXCEPT !.pc = "failed"]
<1>3. over \in CollectorRow /\ over.pc = "failed"
  BY IdleRow
<1>4. /\ collector' \in [Run -> CollectorRow]
      /\ \A r \in Run : collector'[r] = over \/ collector'[r] = collector[r]
  <2>1. collector' = [r \in Run |->
            IF launcher # None /\ r = launcher.run /\ collector[r].pc \notin {"off", "done"}
            THEN over ELSE collector[r]]
    BY DEF UnitKilled
  <2> HIDE DEF over
  <2> QED  BY <1>3, <2>1 DEF CollectorsInv
<1> HIDE DEF over
<1>5. CollectorsInv' /\ Waning
  BY <1>1, <1>3, <1>4 DEF CollectorsInv, Waning, Collecting
<1> QED  BY <1>1, <1>2, <1>5, EndStep

\* The launcher is killed without its trap.
LEMMA LauncherKilledStep ==
    ASSUME AcceptanceInv, LauncherKilled, UNCHANGED <<stateVars, collectorVars>>
    PROVE  AcceptanceInv'
<1>1. CollectorsInv' /\ Waning
  BY DEF AcceptanceInv, CollectorsInv, Waning, Collecting, collectorVars
<1>2. PapersStay
  BY DEF PapersStay, Completed, EvidenceInv, AcceptanceInv, LauncherKilled
<1> QED  BY <1>1, <1>2, EndStep DEF LauncherKilled, stateVars

\* The runner fails.
LEMMA FailStep ==
    ASSUME AcceptanceInv, Fail, clock' \in {clock, clock + 1}, UNCHANGED <<real, collectorVars, tip, begun>>
    PROVE  AcceptanceInv'
<1>1. CollectorsInv' /\ Waning
  BY DEF AcceptanceInv, CollectorsInv, Waning, Collecting, collectorVars
<1>2. PapersStay
  <2>1. CASE paper' = paper
    BY <2>1 DEF PapersStay, Completed, EvidenceInv, AcceptanceInv
  <2>2. CASE paper' = WriteMarker([state |-> "FAILED"])
    <3>1. /\ DOMAIN paper' = Document /\ paper'["marker"] = [state |-> "FAILED"]
          /\ \A d \in Document \ {"marker"} : paper'[d] = paper[d]
      BY <2>2 DEF WriteMarker, EvidenceInv, AcceptanceInv, Document
    <3>2. paper'["marker"].state # "COMPLETED"
      BY <3>1
    <3> QED  BY <3>1, <3>2 DEF PapersStay, Completed, Document
  <2> QED  BY <2>1, <2>2 DEF Fail
<1> QED  BY <1>1, <1>2, EndStep DEF Fail

\* The checkout moves.
LEMMA TipStep ==
    ASSUME AcceptanceInv, TipMoves, UNCHANGED <<stateVars, collectorVars>>
    PROVE  AcceptanceInv'
<1> USE DEF AcceptanceInv
<1>1. UNCHANGED <<real, collector, world, runner, launcher, paper, clock, begun>> /\ tip' = tip + 1
  BY DEF TipMoves, stateVars, collectorVars
<1>2. /\ Measured' = Measured /\ Launched' = Launched /\ Completed' = Completed
      /\ \A r : Collecting(r)' = Collecting(r)
  BY <1>1 DEF Measured, Launched, Completed, Collecting
<1>3. CollectorsInv' /\ DatabaseInv' /\ StampsInv' /\ EvidenceInv'
  BY <1>1, <1>2 DEF CollectorsInv, DatabaseInv, StampsInv, EvidenceInv
<1>4. LauncherInv'
  BY <1>1, <1>2 DEF LauncherInv
<1>5. RunnerInv'
  BY <1>1, <1>2 DEF RunnerInv, RowsSince
<1>6. MarkerInv' /\ GateInv'
  BY <1>1, <1>2 DEF MarkerInv, Apart, GateInv
<1> QED  BY <1>3, <1>4, <1>5, <1>6

-----------------------------------------------------------------------------
(* The runner                                                              *)

\* The first look.
LEMMA ExecuteStep ==
    ASSUME AcceptanceInv, Execute, UNCHANGED <<stateVars, collectorVars>>
    PROVE  AcceptanceInv'
<1> USE DEF AcceptanceInv
<1>1. launcher = None /\ runner = None /\ UNCHANGED <<real, tip, clock, begun>>
  BY DEF Execute, stateVars
<1>2. CASE Fail
  BY <1>1, <1>2, FailStep
<1>3. CASE ~Fail
  <2>1. /\ runner' = [pc |-> "before", run |-> begun + 1, commit |-> tip, stat |-> real.stat,
                      snap |-> None, rows |-> {}, pre |-> 0, witness |-> None]
        /\ UNCHANGED <<collector, world, launcher, paper>>
    BY <1>3 DEF Execute, collectorVars
  <2>2. runner'.pc = "before"
    BY <2>1
  <2>3. ~Launched' /\ ~Launched /\ ~Measured'
    BY <1>1, <2>1, <2>2 DEF Launched, Measured
  <2>4. Completed' = Completed /\ \A r : Collecting(r)' = Collecting(r)
    BY <2>1 DEF Completed, Collecting
  <2>5. CollectorsInv' /\ DatabaseInv' /\ StampsInv' /\ EvidenceInv' /\ LauncherInv'
    BY <1>1, <2>1, <2>3, <2>4 DEF CollectorsInv, DatabaseInv, StampsInv, EvidenceInv, LauncherInv
  <2>6. RunnerInv'
    BY <2>1, <2>3 DEF RunnerInv
  <2>7. MarkerInv' /\ GateInv'
    BY <1>1, <2>1, <2>3, <2>4 DEF MarkerInv, Apart, GateInv
  <2> QED  BY <2>5, <2>6, <2>7
<1> QED  BY <1>2, <1>3

\* What the runner keeps when it has measured, and when it has consumed the witness.
LEMMA RunnerMeasures ==
    ASSUME NEW old, NEW pc, NEW snap, NEW rows, NEW pre,
           old = [pc |-> old.pc, run |-> old.run, commit |-> old.commit, stat |-> old.stat,
                  snap |-> old.snap, rows |-> old.rows, pre |-> old.pre, witness |-> old.witness]
    PROVE  [old EXCEPT !.pc = pc, !.snap = snap, !.rows = rows, !.pre = pre] =
               [pc |-> pc, run |-> old.run, commit |-> old.commit, stat |-> old.stat,
                snap |-> snap, rows |-> rows, pre |-> pre, witness |-> old.witness]
<1> DEFINE one == [old EXCEPT !.pc = pc]
           two == [one EXCEPT !.snap = snap]
           three == [two EXCEPT !.rows = rows]
<1>1. one = [pc |-> pc, run |-> old.run, commit |-> old.commit, stat |-> old.stat,
             snap |-> old.snap, rows |-> old.rows, pre |-> old.pre, witness |-> old.witness]
  OBVIOUS
<1> HIDE DEF one
<1>2. two = [pc |-> pc, run |-> old.run, commit |-> old.commit, stat |-> old.stat,
             snap |-> snap, rows |-> old.rows, pre |-> old.pre, witness |-> old.witness]
  BY <1>1
<1> HIDE DEF two
<1>3. three = [pc |-> pc, run |-> old.run, commit |-> old.commit, stat |-> old.stat,
               snap |-> snap, rows |-> rows, pre |-> old.pre, witness |-> old.witness]
  BY <1>2
<1> HIDE DEF three
<1>4. [three EXCEPT !.pre = pre] =
          [pc |-> pc, run |-> old.run, commit |-> old.commit, stat |-> old.stat,
           snap |-> snap, rows |-> rows, pre |-> pre, witness |-> old.witness]
  BY <1>3
<1> QED  BY <1>4, Zenon DEF one, two, three

\* The same when it has consumed the witness.
LEMMA RunnerConsumes ==
    ASSUME NEW old, NEW pc, NEW stat, NEW witness,
           old = [pc |-> old.pc, run |-> old.run, commit |-> old.commit, stat |-> old.stat,
                  snap |-> old.snap, rows |-> old.rows, pre |-> old.pre, witness |-> old.witness]
    PROVE  [old EXCEPT !.pc = pc, !.stat = stat, !.witness = witness] =
               [pc |-> pc, run |-> old.run, commit |-> old.commit, stat |-> stat,
                snap |-> old.snap, rows |-> old.rows, pre |-> old.pre, witness |-> witness]
<1> DEFINE one == [old EXCEPT !.pc = pc]
           two == [one EXCEPT !.stat = stat]
<1>1. one = [pc |-> pc, run |-> old.run, commit |-> old.commit, stat |-> old.stat,
             snap |-> old.snap, rows |-> old.rows, pre |-> old.pre, witness |-> old.witness]
  OBVIOUS
<1> HIDE DEF one
<1>2. two = [pc |-> pc, run |-> old.run, commit |-> old.commit, stat |-> stat,
             snap |-> old.snap, rows |-> old.rows, pre |-> old.pre, witness |-> old.witness]
  BY <1>1
<1> HIDE DEF two
<1>3. [two EXCEPT !.witness = witness] =
          [pc |-> pc, run |-> old.run, commit |-> old.commit, stat |-> stat,
           snap |-> old.snap, rows |-> old.rows, pre |-> old.pre, witness |-> witness]
  BY <1>2
<1> QED  BY <1>3, Zenon DEF one, two

\* The measurement before: all that was there began before it.
LEMMA LaunchStep ==
    ASSUME AcceptanceInv, Launch, UNCHANGED <<stateVars, collectorVars>>
    PROVE  AcceptanceInv'
<1> USE DEF AcceptanceInv
<1> DEFINE snap == StateSnapshot(real, runner.stat, runner.run)
<1>1. runner # None /\ runner.pc = "before" /\ launcher = None
  BY DEF Launch, Begin
<1>2. runner' = [pc |-> "waiting", run |-> runner.run, commit |-> runner.commit, stat |-> runner.stat,
                 snap |-> snap, rows |-> real.rows, pre |-> clock + 1, witness |-> runner.witness]
  <2>1. runner' = [runner EXCEPT !.pc = "waiting", !.snap = snap, !.rows = real.rows, !.pre = clock + 1]
    BY Zenon DEF Launch
  <2> HIDE DEF snap
  <2> QED  BY <1>1, <2>1, RunnerMeasures DEF RunnerInv
<1>3. /\ begun + 1 \in Run /\ begun' = begun + 1
      /\ launcher' = [pc |-> "pinned", run |-> begun + 1, commit |-> tip, enabled |-> TRUE, rc |-> 0]
  BY DEF Launch, Begin
<1>4. /\ clock' = clock + 1 /\ UNCHANGED <<real, collector, world, tip>>
      /\ paper' = [paper EXCEPT !["witness"] = None]
  BY DEF Launch, Handoff, stateVars, collectorVars
<1>5. begun \in Nat /\ clock \in Nat /\ tip \in Nat
  BY DEF StampsInv
<1>6. /\ DOMAIN paper' = Document /\ paper'["witness"] = None
      /\ paper'["evidence"] = paper["evidence"] /\ paper'["marker"] = paper["marker"]
      /\ paper'["gate"] = paper["gate"] /\ Completed' = Completed
  BY <1>4 DEF EvidenceInv, Document, Completed
<1>7. \A r : Collecting(r)' = Collecting(r)
  BY <1>4 DEF Collecting
<1>8. CollectorsInv' /\ DatabaseInv'
  BY <1>4 DEF CollectorsInv, DatabaseInv
<1>9. \A r \in Run : r \in Nat /\ (r <= begun => r <= begun' /\ r < begun')
  BY <1>3, <1>5, SamplesAssumption
<1>10. \A r \in Run : Collecting(r) =>
           /\ r <= begun /\ collector[r].started \in Nat
           /\ collector[r].started <= clock' /\ collector[r].started < clock'
  <2>1. ASSUME NEW r \in Run, Collecting(r)
        PROVE  r <= begun /\ collector[r].started <= clock /\ collector[r].started \in Nat
    BY <2>1 DEF StampsInv, CollectorsInv, CollectorRow
  <2> QED  BY <1>4, <1>5, <2>1
<1>11. StampsInv'
  BY <1>3, <1>4, <1>5, <1>7, <1>9, <1>10 DEF StampsInv
<1>12. LauncherInv'
  BY <1>3, <1>4, <1>5 DEF LauncherInv
<1>13. paper["evidence"] # None =>
          LET e == paper["evidence"]
          IN  e.started \in Nat /\ e.finished \in Nat /\ e.finished <= clock' /\ e.started < clock'
  BY <1>4, <1>5 DEF EvidenceInv
<1>14. EvidenceInv'
  BY <1>6, <1>9, <1>13 DEF EvidenceInv
<1>15. RunnerInv'
  <2>1. snap.table.row_count = Cardinality(real.rows) /\ snap.table.max_rowid = Max(real.rows)
    <3>1. real.rows # {}
      BY DEF DatabaseInv, HasNewest
    <3> QED  BY <3>1 DEF StateSnapshot, TableFingerprint
  <2> HIDE DEF snap
  <2>2. /\ runner'.pc = "waiting" /\ runner'.pre = clock' /\ runner'.rows = real.rows
        /\ runner'.snap = snap
        /\ runner' = [pc |-> runner'.pc, run |-> runner'.run, commit |-> runner'.commit,
                      stat |-> runner'.stat, snap |-> runner'.snap, rows |-> runner'.rows,
                      pre |-> runner'.pre, witness |-> runner'.witness]
    BY <1>2, <1>4
  <2>3. RowsSince(runner.rows)'
    <3>1. HasNewest(real.rows) /\ Max(real.rows) \in Nat
      BY NewestIn DEF DatabaseInv
    <3> QED  BY <1>4, <2>2, <3>1 DEF RowsSince
  <2>4. clock' \in Nat
    BY <1>4, <1>5
  <2> QED  BY <1>6, <1>7, <1>4, <1>10, <1>13, <2>1, <2>2, <2>3, <2>4 DEF RunnerInv
<1>16. MarkerInv'
  <2>1. launcher'.pc = "pinned"
    BY <1>3
  <2>2. Completed => LET m == paper["marker"]
                     IN  m.post \in Nat /\ m.post <= clock' /\ m.run \in Run /\ m.run <= begun
    BY <1>4, <1>5 DEF MarkerInv
  <2> QED  BY <1>4, <1>6, <1>7, <1>9, <2>1, <2>2 DEF MarkerInv, Apart
<1>17. GateInv'
  BY <1>6, <1>7, <1>9 DEF GateInv
<1> QED  BY <1>8, <1>11, <1>12, <1>14, <1>15, <1>16, <1>17

\* The witness that is consumed is the one of the run that just ended.
LEMMA ConsumeWitnessStep ==
    ASSUME AcceptanceInv, Consume, UNCHANGED <<stateVars, collectorVars>>
    PROVE  AcceptanceInv'
<1> USE DEF AcceptanceInv
<1> DEFINE witness == IF WitnessHolds(paper["witness"]) THEN paper["witness"] ELSE None
<1>1. /\ runner # None /\ launcher # None /\ runner.pc = "waiting" /\ launcher.pc = "left"
      /\ UNCHANGED <<real, collector, world, launcher, tip, clock, begun>>
      /\ paper' = [paper EXCEPT !["witness"] = None]
  BY DEF Consume, stateVars, collectorVars
<1>2. runner' = [pc |-> "after", run |-> runner.run, commit |-> runner.commit, stat |-> real.stat,
                 snap |-> runner.snap, rows |-> runner.rows, pre |-> runner.pre, witness |-> witness]
  <2>1. runner' = [runner EXCEPT !.pc = "after", !.stat = real.stat, !.witness = witness]
    BY Zenon DEF Consume
  <2> HIDE DEF witness
  <2> QED  BY <1>1, <2>1, RunnerConsumes DEF RunnerInv
<1>3. witness # None => witness.run = begun
  BY <1>1 DEF RunnerInv, WitnessHolds
<1> HIDE DEF witness
<1>4. /\ DOMAIN paper' = Document /\ paper'["isolation"] = paper["isolation"]
      /\ paper'["evidence"] = paper["evidence"] /\ paper'["marker"] = paper["marker"]
      /\ paper'["gate"] = paper["gate"] /\ Completed' = Completed
  BY <1>1 DEF EvidenceInv, Document, Completed
<1>5. Launched /\ Measured /\ \A r : Collecting(r)' = Collecting(r)
  BY <1>1 DEF Launched, Measured, Collecting
<1>6. CollectorsInv' /\ DatabaseInv' /\ StampsInv' /\ EvidenceInv'
  BY <1>1, <1>4, <1>5 DEF CollectorsInv, DatabaseInv, StampsInv, EvidenceInv
<1>7. LauncherInv'
  BY <1>1, <1>4, <1>5 DEF LauncherInv
<1>8. RunnerInv'
  <2>1. /\ runner'.pc = "after" /\ runner'.pre = runner.pre /\ runner'.rows = runner.rows
        /\ runner'.snap = runner.snap /\ runner'.witness = witness
        /\ runner' = [pc |-> runner'.pc, run |-> runner'.run, commit |-> runner'.commit,
                      stat |-> runner'.stat, snap |-> runner'.snap, rows |-> runner'.rows,
                      pre |-> runner'.pre, witness |-> runner'.witness]
    BY <1>2
  <2>2. \A s : RowsSince(s)' = RowsSince(s)
    BY <1>1 DEF RowsSince
  <2> QED  BY <1>1, <1>3, <1>4, <1>5, <2>1, <2>2 DEF RunnerInv
<1>9. MarkerInv'
  BY <1>1, <1>4, <1>5 DEF MarkerInv, Apart
<1>10. GateInv'
  BY <1>1, <1>4, <1>5 DEF GateInv
<1> QED  BY <1>6, <1>7, <1>8, <1>9, <1>10

\* The measurement after: what is counted as unchanged is unchanged, and no other
\* collector than that of this run was started in between.
LEMMA ConcludeStep ==
    ASSUME AcceptanceInv, Conclude, UNCHANGED <<stateVars, collectorVars>>
    PROVE  AcceptanceInv'
<1> USE DEF AcceptanceInv
<1>1. /\ runner # None /\ runner.pc = "after" /\ clock' = clock + 1
      /\ UNCHANGED <<real, collector, world, tip, begun>>
  BY DEF Conclude, stateVars, collectorVars
<1>2. CASE Fail
  BY <1>1, <1>2, FailStep
<1>3. CASE ~Fail
  <2>1. Passed /\ paper' = WriteMarker(IntegrityDocument) /\ runner' = None /\ launcher' = None
    BY <1>3 DEF Conclude
  <2> DEFINE m == paper'["marker"]
  <2>2. /\ DOMAIN paper' = Document /\ m = IntegrityDocument
        /\ paper'["evidence"] = paper["evidence"] /\ paper'["gate"] = paper["gate"]
    BY <2>1 DEF WriteMarker, EvidenceInv, Document
  <2>3. /\ m.run = launcher.run /\ m.witness = runner.witness.run /\ m.pre = runner.pre
        /\ m.post = clock + 1 /\ m.kept = (runner.rows = real.rows)
    BY <2>2 DEF IntegrityDocument
  <2>4. Measured /\ Launched
    BY <1>1 DEF Measured, Launched
  <2>5. launcher.run = begun /\ begun \in Run /\ launcher.pc = "left" /\ ~Collecting(begun)
    BY <1>1, <2>1, <2>4 DEF LauncherInv, RunnerInv, Passed
  <2>6. m.witness = begun
    BY <1>1, <2>1, <2>3 DEF RunnerInv, Passed
  <2>7. runner.rows = real.rows
    <3> DEFINE after == StateSnapshot(real, runner.stat, runner.run)
    <3>1. Unchanged(runner.snap, after)
      BY <2>1, Zenon DEF Passed
    <3>2. /\ after.table.row_count - runner.snap.table.row_count = 0
          /\ after.table.max_rowid - runner.snap.table.max_rowid = 0
      BY <3>1 DEF Unchanged
    <3>3. /\ RowsSince(runner.rows) /\ HasNewest(runner.rows) /\ HasNewest(real.rows)
          /\ runner.snap.table.row_count = Cardinality(runner.rows)
          /\ runner.snap.table.max_rowid = Max(runner.rows)
      BY <1>1, <2>4 DEF RunnerInv, RowsSince, DatabaseInv
    <3>4. after.table.row_count = Cardinality(real.rows) /\ after.table.max_rowid = Max(real.rows)
      <4>1. real.rows # {}
        BY <3>3 DEF HasNewest
      <4> QED  BY <4>1 DEF StateSnapshot, TableFingerprint
    <3> HIDE DEF after
    <3>5. /\ Cardinality(real.rows) \in Nat /\ Cardinality(runner.rows) \in Nat
          /\ Max(real.rows) \in Nat /\ Max(runner.rows) \in Nat
      BY <3>3, NewestIn, FS_CardinalityType
    <3>6. Cardinality(runner.rows) = Cardinality(real.rows) /\ Max(runner.rows) = Max(real.rows)
      BY <3>2, <3>3, <3>4, <3>5
    <3> QED  BY <3>3, <3>6, SameRows
  <2>8. m.kept
    BY <2>3, <2>7
  <2> HIDE DEF m
  <2>9. clock \in Nat /\ begun \in Nat /\ clock' \in Nat
    BY <1>1 DEF StampsInv
  <2>10. \A r : Collecting(r)' = Collecting(r)
    BY <1>1 DEF Collecting
  <2>11. ~Launched'
    BY <2>1 DEF Launched, Measured
  <2>12. \A r \in Run : collector[r].started \in Nat /\ r \in Nat
    BY SamplesAssumption DEF CollectorsInv, CollectorRow
  <2>13. CollectorsInv' /\ DatabaseInv' /\ LauncherInv' /\ RunnerInv'
    BY <1>1, <2>1, <2>11 DEF CollectorsInv, DatabaseInv, LauncherInv, RunnerInv
  <2>14. StampsInv'
    BY <1>1, <2>9, <2>10, <2>12 DEF StampsInv
  <2>15. EvidenceInv'
    BY <1>1, <2>2, <2>9 DEF EvidenceInv
  <2>16. MarkerInv'
    <3>1. runner.pre \in Nat /\ \A r \in Run : Collecting(r) /\ r < begun => collector[r].started < runner.pre
      BY <1>1, <2>4 DEF RunnerInv
    <3>2. ASSUME NEW r \in Run, Collecting(r) PROVE r # m.run /\ Apart(m, r, collector[r].started)
      <4>1. r <= begun /\ r # begun
        BY <2>5, <3>2 DEF StampsInv
      <4>2. r \in Nat /\ r < begun /\ ~(r > begun) /\ r # begun
        BY <2>9, <2>12, <4>1
      <4>3. collector[r].started < runner.pre
        BY <3>1, <3>2, <4>2
      <4> QED  BY <2>3, <2>5, <4>2, <4>3 DEF Apart
    <3>3. paper["evidence"] # None => Apart(m, paper["evidence"].run, paper["evidence"].started)
      <4>1. SUFFICES ASSUME paper["evidence"] # None
                     PROVE  Apart(m, paper["evidence"].run, paper["evidence"].started)
        OBVIOUS
      <4>2. paper["evidence"].run \in Run /\ paper["evidence"].run <= begun
        BY <4>1 DEF EvidenceInv
      <4>3. paper["evidence"].run < begun => paper["evidence"].started < runner.pre
        BY <1>1, <2>4, <4>1 DEF RunnerInv
      <4>4. ~(paper["evidence"].run > begun)
        BY <2>9, <2>12, <4>2
      <4> QED  BY <2>3, <2>5, <4>3, <4>4 DEF Apart
    <3> QED  BY <1>1, <2>2, <2>3, <2>5, <2>6, <2>8, <2>9, <2>10, <2>11, <3>1, <3>2, <3>3
             DEF MarkerInv, Apart, m
  <2>17. GateInv'
    <3>1. SUFFICES ASSUME paper["gate"] # None, paper["gate"].accepted PROVE GateInv'
      BY <2>2 DEF GateInv
    <3> DEFINE g == paper["gate"]
    <3>2. g.isolated \in Run /\ g.isolated <= begun
      BY <3>1 DEF GateInv
    <3>3. paper["evidence"] # None => /\ paper["evidence"].run <= g.isolated
                                      /\ paper["evidence"].run = m.run => g.isolated = m.run
      <4>1. paper["evidence"] # None => paper["evidence"].run <= g.isolated
        BY <3>1 DEF GateInv
      <4>2. g.isolated \in Nat /\ (begun <= g.isolated => g.isolated = begun)
        BY <2>9, <2>12, <3>2
      <4> QED  BY <2>3, <2>5, <4>1, <4>2
    <3> QED  BY <1>1, <2>2, <2>10, <3>1, <3>3 DEF GateInv, m
  <2> QED  BY <2>13, <2>14, <2>15, <2>16, <2>17
<1> QED  BY <1>2, <1>3

-----------------------------------------------------------------------------
(* Nothing false is accepted                                               *)

\* Nothing is there yet.
LEMMA AcceptanceStart == ASSUME AcceptanceInit PROVE AcceptanceInv
<1>1. CollectorsInv
  <2>1. Idle \in CollectorRow /\ Idle.pc = "off"
    <3>1. << >> \in Seq(TrueSample)
      OBVIOUS
    <3> QED  BY <3>1 DEF Idle, CollectorRow
  <2> QED  BY <2>1 DEF AcceptanceInit, CollectorInit, CollectorsInv, GitHubValue
<1>2. \A r \in Run : ~Collecting(r)
  BY DEF AcceptanceInit, CollectorInit, Collecting, Idle
<1>3. DatabaseInv
  <2>1. real = [rows |-> {1, 2}, schema |-> 0, complete |-> TRUE, stat |-> 0]
    BY DEF AcceptanceInit, StateInit
  <2>2. HasNewest({1, 2})
    BY DEF HasNewest
  <2> QED  BY <2>1, <2>2 DEF DatabaseInv
<1>4. ~Launched /\ ~Completed
  BY DEF AcceptanceInit, Launched, Measured, Completed, Document
<1> QED  BY <1>1, <1>2, <1>3, <1>4 DEF AcceptanceInit, AcceptanceInv, StampsInv, LauncherInv, RunnerInv,
             EvidenceInv, MarkerInv, GateInv, Document

\* The invariant is kept by every step.
LEMMA AcceptanceStep == ASSUME AcceptanceInv, AcceptanceNext PROVE AcceptanceInv'
<1>1. CASE StateNext /\ UNCHANGED <<collectorVars, finalVars>>
  BY <1>1, HermesWrites
<1>2. CASE Change /\ UNCHANGED <<stateVars, finalVars>>
  BY <1>2, ChangeStep
<1>3. CASE (\E r \in Run : DirectSide(r) \/ Abort(r)) /\ UNCHANGED <<stateVars, finalVars>>
  BY <1>3, DirectStep, AbortStep
<1>4. CASE (\E r \in Run, a \in Answer : Sample(r, a)) /\ UNCHANGED stateVars
  BY <1>4, SampleStep
<1>5. CASE (Collect \/ Collected \/ OrphanReports \/ UnitKilled) /\ UNCHANGED stateVars
  BY <1>5, CollectStep, CollectedStep, OrphanStep, UnitKilledStep
<1>6. CASE RunnerStep /\ UNCHANGED <<stateVars, collectorVars>>
  BY <1>6, ExecuteStep, LaunchStep, ConsumeWitnessStep, ConcludeStep DEF RunnerStep
<1>7. CASE LauncherStep /\ UNCHANGED <<stateVars, collectorVars>>
  BY <1>7, AloneStep, PrepareStep, ProbeStep, JudgeStep, BlockedStep, CleanupStep DEF LauncherStep
<1>8. CASE Outside /\ UNCHANGED <<stateVars, collectorVars>>
  BY <1>8, LauncherKilledStep, TipStep DEF Outside
<1> QED  BY <1>1, <1>2, <1>3, <1>4, <1>5, <1>6, <1>7, <1>8 DEF AcceptanceNext

\* A step of anything else leaves the acceptance alone.
LEMMA AcceptanceRest == AcceptanceInv /\ UNCHANGED acceptanceVars => AcceptanceInv'
<1> SUFFICES ASSUME AcceptanceInv, UNCHANGED acceptanceVars PROVE AcceptanceInv'
  OBVIOUS
<1>1. UNCHANGED <<stateVars, collectorVars, finalVars>>
  BY DEF acceptanceVars
<1>2. CollectorsInv' /\ Waning
  BY <1>1 DEF AcceptanceInv, CollectorsInv, Waning, Collecting, collectorVars
<1> QED  BY <1>1, <1>2, WaningStep DEF stateVars, finalVars

\* The window leaves one run for the evidence; its samples are true, the verdict beside
\* it is its own, and the rows between the measurements are the same.
LEMMA AcceptanceFollows == AcceptanceInv => AcceptedIsTrue
<1> DEFINE f == FinalEvidence
           e == paper["evidence"]
           g == paper["gate"]
           m == paper["marker"]
<1> SUFFICES ASSUME AcceptanceInv, FinalHolds(f) PROVE OneRun(f) /\ RealKept(f) /\ SamplesTrue(f)
  BY DEF AcceptedIsTrue
<1> USE DEF AcceptanceInv
<1>1. f.evidence = e /\ f.gate = g /\ f.marker = IF Completed THEN m ELSE None
  BY DEF FinalEvidence, Completed
<1> HIDE DEF f
<1>2. /\ g # None /\ g.accepted /\ e # None /\ f.marker # None
      /\ f.marker.pre <= e.started /\ e.finished <= f.marker.post
  BY <1>1 DEF FinalHolds, InnerHolds, ProvenanceHolds, StateIntegrityHolds, WindowEncloses
<1>3. Completed /\ f.marker = m
  BY <1>1, <1>2
<1>4. /\ m.kept /\ m.witness = m.run /\ m.run \in Run /\ m.pre \in Nat /\ m.post \in Nat
      /\ Apart(m, e.run, e.started)
  BY <1>2, <1>3 DEF MarkerInv
<1>5. /\ e.run \in Run /\ e.started \in Nat /\ e.finished \in Nat /\ e.started < e.finished
      /\ e.samples \in Seq(TrueSample)
  BY <1>2 DEF EvidenceInv
<1>6. e.run \in Nat /\ m.run \in Nat
  BY <1>4, <1>5, SamplesAssumption
<1>7. ~(e.run < m.run) /\ ~(e.run > m.run)
  BY <1>2, <1>3, <1>4, <1>5 DEF Apart
<1>8. e.run = m.run
  BY <1>6, <1>7
<1>9. g.isolated = m.run /\ g.run = g.isolated
  BY <1>2, <1>3, <1>8 DEF GateInv
<1>10. OneRun(f)
  BY <1>1, <1>3, <1>4, <1>8, <1>9 DEF OneRun
<1>11. SamplesTrue(f)
  <2>1. ASSUME NEW i \in DOMAIN e.samples PROVE e.samples[i] \in TrueSample
    BY <1>5
  <2> QED  BY <1>1, <2>1 DEF SamplesTrue, TrueSample
<1> QED  BY <1>1, <1>3, <1>4, <1>10, <1>11 DEF RealKept

\* validate_final_evidence: whatever was killed, repeated, left over or written late, final
\* evidence that is accepted is of one run, between two equal looks at the real database,
\* and every sample in it is what the one tool call returned.
THEOREM Acceptance == AcceptanceSpec => []AcceptedIsTrue
<1>1. AcceptanceInit => AcceptanceInv
  BY AcceptanceStart
<1>2. AcceptanceInv /\ [AcceptanceNext]_acceptanceVars => AcceptanceInv'
  BY AcceptanceStep, AcceptanceRest
<1> QED  BY <1>1, <1>2, AcceptanceFollows, PTL DEF AcceptanceSpec

-----------------------------------------------------------------------------
(* The operations side as a whole                                          *)

\* Each part keeps its own invariant: no two of them share a variable.
OperationsInv ==
    /\ PromiseIsCached
    /\ LocksTypeOK /\ WritersExclude
    /\ ToolsInv /\ RotationInv /\ BackupInv /\ MigrationsInv /\ SigningInv

\* A step that leaves a part alone keeps its invariant.
LEMMA LocksRest == LocksTypeOK /\ WritersExclude /\ UNCHANGED lock => (LocksTypeOK /\ WritersExclude)'
  BY DEF LocksTypeOK, WritersExclude

\* The stores of the tools.
LEMMA ToolsRest == ToolsInv /\ UNCHANGED storeVars => ToolsInv'
  BY DEF storeVars, ToolsInv, ToolsTypeOK

\* The schema and its ledger.
LEMMA MigrationsRest == MigrationsInv /\ UNCHANGED migrationVars => MigrationsInv'
<1> SUFFICES ASSUME MigrationsInv, UNCHANGED migrationVars PROVE MigrationsInv'
  OBVIOUS
<1>1. UNCHANGED <<inWal, ledger, schema, writer, migrator>>
  BY DEF migrationVars
<1>2. PICK n \in 0 .. Len(Script) : MigratedTo(n)
  BY DEF MigrationsInv
<1>3. MigratedTo(n)'
  BY <1>1, <1>2 DEF MigratedTo
<1>4. MigrationsTypeOK' /\ migrator' \in [Migrator -> MigratorRow]
  BY <1>1 DEF MigrationsInv, MigrationsTypeOK
<1> QED  BY <1>3, <1>4 DEF MigrationsInv

\* The signed manifests.
LEMMA SigningRest == SigningInv /\ UNCHANGED signingVars => SigningInv'
  BY SigningKept

\* A step of one part is a step that leaves every other part alone.
LEMMA OperationsStep ==
    ASSUME OperationsInv, Next PROVE OperationsInv'
<1> USE DEF OperationsInv
<1>0. PromiseIsCached'
  <2>1. PolicyNext \/ UNCHANGED policyVars
    <3>1. PolicyNext \/ LocksNext \/ ToolsNext \/ UNCHANGED policyVars
      BY DEF Next, PolicyLane, LocksLane, PlansLane, StoresLane, RotationLane, BackupLane,
             AcceptanceLane, MigrationsLane, SigningLane, ToolsNext
    <3> QED  BY <3>1, LocksUsePolicy, ToolsUsePolicy
  <2> QED  BY <2>1, PromiseKept
<1>1. CASE PolicyLane \/ AcceptanceLane
  <2>1. UNCHANGED <<lock, storeVars, rotationVars, backupVars, migrationVars, signingVars>>
    BY <1>1 DEF PolicyLane, AcceptanceLane
  <2> QED  BY <1>0, <2>1, LocksRest, ToolsRest, RotationStutters, BackupRest, MigrationsRest, SigningRest
<1>2. CASE LocksLane
  <2>1. LocksNext /\ UNCHANGED <<storeVars, rotationVars, backupVars, migrationVars, signingVars>>
    BY <1>2 DEF LocksLane
  <2> QED  BY <1>0, <2>1, LocksStep, ToolsRest, RotationStutters, BackupRest, MigrationsRest, SigningRest
<1>3. CASE PlansLane \/ StoresLane
  <2>1. ToolsNext /\ UNCHANGED <<lock, rotationVars, backupVars, migrationVars, signingVars>>
    BY <1>3 DEF PlansLane, StoresLane, ToolsNext
  <2> QED  BY <1>0, <2>1, LocksRest, ToolsStep, RotationStutters, BackupRest, MigrationsRest, SigningRest
<1>4. CASE RotationLane
  <2>1. RotationNext /\ UNCHANGED <<lock, storeVars, backupVars, migrationVars, signingVars>>
    BY <1>4 DEF RotationLane
  <2> QED  BY <1>0, <2>1, LocksRest, ToolsRest, RotationKept, BackupRest, MigrationsRest, SigningRest
<1>5. CASE BackupLane
  <2>1. BackupNext /\ UNCHANGED <<lock, storeVars, rotationVars, migrationVars, signingVars>>
    BY <1>5 DEF BackupLane
  <2> QED  BY <1>0, <2>1, LocksRest, ToolsRest, RotationStutters, BackupSteps, MigrationsRest, SigningRest
<1>6. CASE MigrationsLane
  <2>1. MigrationsNext /\ UNCHANGED <<lock, storeVars, rotationVars, backupVars, signingVars>>
    BY <1>6 DEF MigrationsLane
  <2> QED  BY <1>0, <2>1, LocksRest, ToolsRest, RotationStutters, BackupRest, MigrationsStep, SigningRest
<1>7. CASE SigningLane
  <2>1. SigningNext /\ UNCHANGED <<lock, storeVars, rotationVars, backupVars, migrationVars>>
    BY <1>7 DEF SigningLane
  <2> QED  BY <1>0, <2>1, LocksRest, ToolsRest, RotationStutters, BackupRest, MigrationsRest, SigningKept
<1> QED  BY <1>1, <1>2, <1>3, <1>4, <1>5, <1>6, <1>7 DEF Next

\* The invariant of all parts holds in every reachable state.
LEMMA OperationsHold == OperationsSpec => []OperationsInv
<1>1. Init => OperationsInv
  BY LocksStart, ToolsStart, RotationStart, BackupStart, MigrationsStart, SigningStart
    DEF Init, OperationsInv, PolicyInit, PromiseIsCached
<1> DEFINE all == <<lane, policyVars, lock, storeVars, rotationVars, backupVars, acceptanceVars,
                    migrationVars, signingVars>>
<1>2. OperationsInv /\ UNCHANGED all => OperationsInv'
  <2> SUFFICES ASSUME OperationsInv, UNCHANGED all PROVE OperationsInv'
    OBVIOUS
  <2>1. UNCHANGED <<lock, storeVars, rotationVars, backupVars, migrationVars, signingVars>>
    OBVIOUS
  <2>2. PromiseIsCached'
    BY PromiseKept DEF OperationsInv
  <2> QED  BY <2>1, <2>2, LocksRest, ToolsRest, RotationStutters, BackupRest, MigrationsRest,
              SigningRest
            DEF OperationsInv
<1>3. OperationsInv /\ [Next]_all => OperationsInv'
  BY <1>2, OperationsStep
<1> QED  BY <1>1, <1>3, PTL DEF OperationsSpec

\* For any keys, owners, plans and migrations: no two owners hold locks that
\* exclude one another (LockRegistry), and the ledger of migrations is true of the
\* schema wherever a migrator dies (apply_migrations).
THEOREM StateDb == OperationsSpec => []StateDbHolds
<1>1. OperationsInv => StateDbHolds
  <2> SUFFICES ASSUME OperationsInv PROVE StateDbHolds
    OBVIOUS
  <2>1. LocksTypeOK /\ WritersExclude /\ ToolsTypeOK /\ RotationTypeOK /\ BackupTypeOK
        /\ MigrationsTypeOK
    BY DEF OperationsInv, ToolsInv, RotationInv, BackupInv, MigrationsInv
  <2>2. LedgerIsTrue
    BY LedgerHolds DEF OperationsInv
  <2> QED  BY <2>1, <2>2 DEF StateDbHolds
<1> QED  BY <1>1, OperationsHold, PTL

\* Under any policy documents, edited at any time, what the preview answered is no
\* weaker than what is enforced until the policy is read again, but for a label that
\* does not parse (policy.py, server.py); and under any settings and key
\* replacements a signature is accepted, or left out, only as signing.py says.
THEOREM Verdicts == OperationsSpec => []VerdictsHold
<1>1. OperationsInv => VerdictsHold
  BY PreviewIsStrict, SignaturesFollow DEF OperationsInv, VerdictsHold
<1> QED  BY <1>1, OperationsHold, PTL
=============================================================================
