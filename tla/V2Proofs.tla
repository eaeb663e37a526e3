------------------------------ MODULE V2Proofs ------------------------------
(***************************************************************************)
(* Theorems about the parts of MCV2, for any constants: batches, runbooks, *)
(* merges, mutation calls, escalations, profiles, credentials and plans.   *)
(***************************************************************************)
EXTENDS MCV2, MutationIdempotencyProofs, FiniteSetTheorems, WellFoundedInduction

-----------------------------------------------------------------------------
(* Batches                                                                 *)

\* A batch may run as many steps at once as its declaration and the ceiling allow.
LEMMA ParallelismIsSmall ==
    ASSUME NEW b \in Batch PROVE Parallelism(b) \in 1 .. MaxParallelism
<1>1. Requested[b] \in 1 .. MaxParallelism /\ MaxParallelism \in Nat \ {0}
  BY BatchAssumption
<1>2. Min({Requested[b], MaxParallelism}) = Requested[b]
  BY <1>1 DEF Min
<1> QED  BY <1>1, <1>2 DEF Parallelism

\* A batch that holds a part of the capacity, and the slots it holds.
Active(b) == phase[b] \in {"running", "deadline", "disconnected"}
SlotsOf(b) == {b} \X (1 .. Parallelism(b))
Slots == UNION {SlotsOf(b) : b \in {x \in Batch : Active(x)}}
AtExecutor == UNION {{b} \X InFlight(b) : b \in Batch}

\* What is in use is what the active batches have reserved, and none of them has
\* more steps at the executor than that.
CapacityInv ==
    /\ IsFiniteSet(Slots) /\ used = Cardinality(Slots)
    /\ \A b \in Batch :
        /\ IsFiniteSet(InFlight(b)) /\ Cardinality(InFlight(b)) <= Parallelism(b)
        /\ InFlight(b) # {} => Active(b)

\* What the executor has had is at it, or has a result that says so; a batch whose
\* steps ended badly, and that fails fast, is closed.
Had == {"SUCCESS", "CANCELLED"} \cup Failed
\* A step that was handed to the executor is still at work or has a result that says so, and
\* a batch that fails fast is closed by its first failure.
CalledInv ==
    \A b \in Batch :
        /\ \A s \in Step : <<b, s>> \in called =>
            \/ task[b][s] \in {"running", "cancelled"}
            \/ task[b][s] = "ended" /\ results[b][s] \in Had
        /\ phase[b] \in {"new", "done"} => \A s \in Step : task[b][s] \in {"none", "ended"}
        /\ phase[b] = "new" => \A s \in Step : task[b][s] = "none"
        /\ phase[b] = "running" => \A s \in Step : task[b][s] # "cancelled"
        /\ b \in FailFast /\ (\E s \in Step : results[b][s] \in Failed) => closed[b]
        /\ phase[b] = "done" /\ answer[b] = "SUCCESS" /\ b \notin DryRun =>
                \A s \in Step : results[b][s] = "SUCCESS"

BatchInv == BatchTypeOK /\ DOMAIN answer = Batch /\ CapacityInv /\ CalledInv

\* The slots of a batch are as many as its parallelism.
LEMMA SlotsCounted ==
    ASSUME NEW b \in Batch
    PROVE  IsFiniteSet(SlotsOf(b)) /\ Cardinality(SlotsOf(b)) = Parallelism(b)
<1> DEFINE n == Parallelism(b)
           f == [i \in 1 .. n |-> <<b, i>>]
<1>1. n \in Nat
  BY ParallelismIsSmall
<1> HIDE DEF n
<1>2. IsFiniteSet(1 .. n) /\ Cardinality(1 .. n) = n
  BY <1>1, FS_Interval
<1>3. f \in Bijection(1 .. n, {b} \X (1 .. n))
  BY DEF Bijection, Injection, Surjection, IsInjective
<1>4. ExistsBijection(1 .. n, {b} \X (1 .. n))
  BY <1>3 DEF ExistsBijection
<1> QED  BY <1>2, <1>4, FS_Bijection DEF SlotsOf, n

\* A finite set that is not larger than n can be numbered up to n.
LEMMA Numbered ==
    ASSUME NEW S, IsFiniteSet(S), NEW n \in Nat, Cardinality(S) <= n
    PROVE  \E g \in [S -> 1 .. n] : \A x, y \in S : g[x] = g[y] => x = y
<1>1. Cardinality(S) \in Nat /\ ExistsBijection(1 .. Cardinality(S), S)
  BY FS_CardinalityType
<1>2. PICK f \in Bijection(1 .. Cardinality(S), S) : TRUE
  BY <1>1 DEF ExistsBijection
<1>3. /\ f \in [1 .. Cardinality(S) -> S]
      /\ \A x \in S : \E i \in 1 .. Cardinality(S) : f[i] = x
  BY <1>2 DEF Bijection, Surjection, Injection
<1> DEFINE g == [x \in S |-> CHOOSE i \in 1 .. Cardinality(S) : f[i] = x]
<1>4. \A x \in S : g[x] \in 1 .. Cardinality(S) /\ f[g[x]] = x
  BY <1>3
<1>5. g \in [S -> 1 .. n]
  BY <1>1, <1>4
<1> HIDE DEF g
<1> QED  BY <1>4, <1>5

\* The steps at the executor fit into the slots of their batches.
LEMMA ExecutorFits ==
    ASSUME BatchTypeOK, CapacityInv PROVE Cardinality(AtExecutor) <= Limit
<1> DEFINE P(b, g) == g \in [InFlight(b) -> 1 .. Parallelism(b)]
                      /\ \A x, y \in InFlight(b) : g[x] = g[y] => x = y
           G == [b \in Batch |-> CHOOSE g : P(b, g)]
           f == [x \in AtExecutor |-> <<x[1], G[x[1]][x[2]]>>]
<1>1. ASSUME NEW b \in Batch PROVE P(b, G[b])
  <2>1. Parallelism(b) \in Nat
    BY ParallelismIsSmall
  <2>2. \E g : P(b, g)
    BY <2>1, Numbered DEF CapacityInv
  <2> QED  BY <2>2
<1> HIDE DEF G
<1>2. ASSUME NEW x \in AtExecutor
      PROVE  /\ x[1] \in Batch /\ x[2] \in InFlight(x[1]) /\ x = <<x[1], x[2]>>
             /\ f[x] = <<x[1], G[x[1]][x[2]]>> /\ f[x] \in Slots
  <2>1. x[1] \in Batch /\ x[2] \in InFlight(x[1]) /\ x = <<x[1], x[2]>>
    BY DEF AtExecutor
  <2>2. G[x[1]][x[2]] \in 1 .. Parallelism(x[1])
    BY <1>1, <2>1
  <2>3. Active(x[1])
    BY <2>1 DEF CapacityInv
  <2>4. <<x[1], G[x[1]][x[2]]>> \in SlotsOf(x[1])
    BY <2>2 DEF SlotsOf
  <2> QED  BY <2>1, <2>3, <2>4 DEF Slots
<1>3. f \in [AtExecutor -> Slots]
  BY <1>2
<1>4. ASSUME NEW x \in AtExecutor, NEW y \in AtExecutor, f[x] = f[y] PROVE x = y
  <2>1. x[1] = y[1] /\ G[x[1]][x[2]] = G[y[1]][y[2]]
    BY <1>2, <1>4
  <2> QED  BY <1>1, <1>2, <2>1
<1> HIDE DEF f
<1>5. f \in Injection(AtExecutor, Slots)
  BY <1>3, <1>4 DEF Injection, IsInjective
<1>6. Cardinality(AtExecutor) <= Cardinality(Slots) /\ IsFiniteSet(AtExecutor)
  BY <1>5, FS_Injection DEF CapacityInv
<1>7. used \in 0 .. Limit /\ used = Cardinality(Slots) /\ Limit \in Nat
  BY BatchAssumption DEF BatchTypeOK, CapacityInv
<1>8. Cardinality(AtExecutor) \in Nat
  BY <1>6, FS_CardinalityType
<1> QED  BY <1>6, <1>7, <1>8

\* A step after which the same batches are active, and none has more steps at the
\* executor, keeps the account.
LEMMA CapacityStays ==
    ASSUME CapacityInv, used' = used, \A b \in Batch : Active(b)' <=> Active(b),
           \A b \in Batch : InFlight(b)' \subseteq InFlight(b)
    PROVE  CapacityInv'
<1>1. Slots' = Slots
  BY DEF Slots
<1>2. ASSUME NEW b \in Batch
      PROVE  /\ IsFiniteSet(InFlight(b)') /\ Cardinality(InFlight(b)') <= Parallelism(b)
             /\ InFlight(b)' # {} => Active(b)'
  <2>1. /\ IsFiniteSet(InFlight(b)) /\ Cardinality(InFlight(b)) <= Parallelism(b)
        /\ InFlight(b) # {} => Active(b)
    BY DEF CapacityInv
  <2>2. IsFiniteSet(InFlight(b)') /\ Cardinality(InFlight(b)') <= Cardinality(InFlight(b))
    BY <2>1, FS_Subset
  <2>3. Parallelism(b) \in Nat /\ Cardinality(InFlight(b)) \in Nat /\ Cardinality(InFlight(b)') \in Nat
    BY <2>1, <2>2, ParallelismIsSmall, FS_CardinalityType
  <2> QED  BY <2>1, <2>2, <2>3
<1>3. \A b \in Batch : Parallelism(b)' = Parallelism(b)
  BY DEF Parallelism
<1> QED  BY <1>1, <1>2, <1>3 DEF CapacityInv

\* How the two tables of steps change when one step moves.
LEMMA StepMoves ==
    ASSUME BatchTypeOK, NEW b \in Batch, NEW s \in Step,
           NEW t \in {"running", "ended"}, task' = [task EXCEPT ![b][s] = t]
    PROVE  /\ task'[b][s] = t
           /\ \A x \in Batch, y \in Step : (x # b \/ y # s) => task'[x][y] = task[x][y]
           /\ task' \in [Batch -> [Step -> {"none", "waiting", "running", "cancelled", "ended"}]]
  BY DEF BatchTypeOK

\* A result is set for one step of one batch.
LEMMA ResultMoves ==
    ASSUME BatchTypeOK, NEW b \in Batch, NEW s \in Step,
           NEW r \in StepStatus, results' = [results EXCEPT ![b][s] = r]
    PROVE  /\ results'[b][s] = r
           /\ \A x \in Batch, y \in Step : (x # b \/ y # s) => results'[x][y] = results[x][y]
           /\ results' \in [Batch -> [Step -> StepStatus \cup {"none"}]]
  BY DEF BatchTypeOK

\* run before its tasks exist: a dry run, and the admission.
LEMMA AdmissionStep ==
    ASSUME BatchInv, NEW b \in Batch, RunDry(b) \/ Admit(b) PROVE BatchInv'
<1>1. BatchTypeOK /\ CapacityInv /\ CalledInv /\ phase[b] = "new"
      /\ UNCHANGED <<closed, called, recorded>>
  BY DEF BatchInv, RunDry, Admit
<1>2. /\ \A s \in Step : task[b][s] = "none" /\ <<b, s>> \notin called
      /\ ~Active(b) /\ InFlight(b) = {}
  <2>1. \A s \in Step : task[b][s] = "none"
    BY <1>1 DEF CalledInv
  <2>2. \A s \in Step : <<b, s>> \notin called
    BY <1>1, <2>1 DEF CalledInv
  <2> QED  BY <1>1, <2>1, <2>2 DEF Active, InFlight
<1>3. CASE RunDry(b)
  <2> DEFINE row == [s \in Step |-> IF <<b, s>> \in Allowed THEN "NOT_STARTED" ELSE "DENIED"]
  <2>1. /\ b \in DryRun /\ phase' = [phase EXCEPT ![b] = "done"] /\ UNCHANGED <<task, used>>
        /\ results' = [results EXCEPT ![b] = row]
    BY <1>3 DEF RunDry
  <2>2. row \in [Step -> StepStatus \cup {"none"}] /\ \A s \in Step : row[s] \notin Failed
    BY DEF StepStatus, Failed
  <2> HIDE DEF row
  <2>3. /\ phase'[b] = "done" /\ results'[b] = row
        /\ \A x \in Batch \ {b} : phase'[x] = phase[x] /\ results'[x] = results[x]
    BY <1>1, <2>1 DEF BatchTypeOK
  <2>4. BatchTypeOK'
    BY <1>1, <2>1, <2>2 DEF BatchTypeOK
  <2>5. \A x \in Batch \ {b} : answer'[x] = answer[x]
    <3>1. PICK v : answer' = [answer EXCEPT ![b] = v]
      BY <1>3 DEF RunDry
    <3> QED  BY <3>1
  <2>6. DOMAIN answer' = Batch
    BY <1>3 DEF RunDry, BatchInv
  <2>8. CapacityInv'
    <3>1. \A x \in Batch : InFlight(x)' = InFlight(x)
      BY <1>1, <2>1 DEF InFlight
    <3>2. \A x \in Batch : Active(x)' <=> Active(x)
      BY <1>1, <2>3 DEF Active
    <3> QED  BY <1>1, <2>1, <3>1, <3>2, CapacityStays
  <2>7. ASSUME NEW x \in Batch
        PROVE  /\ \A s \in Step : <<x, s>> \in called' =>
                    \/ task'[x][s] \in {"running", "cancelled"}
                    \/ task'[x][s] = "ended" /\ results'[x][s] \in Had
               /\ phase'[x] \in {"new", "done"} => \A s \in Step : task'[x][s] \in {"none", "ended"}
               /\ phase'[x] = "new" => \A s \in Step : task'[x][s] = "none"
               /\ phase'[x] = "running" => \A s \in Step : task'[x][s] # "cancelled"
               /\ x \in FailFast /\ (\E s \in Step : results'[x][s] \in Failed) => closed'[x]
               /\ phase'[x] = "done" /\ answer'[x] = "SUCCESS" /\ x \notin DryRun =>
                    \A s \in Step : results'[x][s] = "SUCCESS"
    <3>1. CASE x = b
      BY <1>1, <1>2, <2>1, <2>2, <2>3, <3>1
    <3>2. CASE x # b
      BY <1>1, <2>1, <2>3, <2>5, <3>2 DEF CalledInv
    <3> QED  BY <3>1, <3>2
  <2> QED  BY <2>4, <2>6, <2>7, <2>8 DEF BatchInv, CalledInv
<1>4. CASE Admit(b) /\ used + Parallelism(b) > Limit
  <2>1. /\ b \notin DryRun /\ phase' = [phase EXCEPT ![b] = "done"] /\ UNCHANGED <<task, used, results>>
        /\ answer' = [answer EXCEPT ![b] = "CAPACITY"]
    BY <1>4 DEF Admit
  <2>2. phase'[b] = "done" /\ \A x \in Batch \ {b} : phase'[x] = phase[x]
    BY <1>1, <2>1 DEF BatchTypeOK
  <2>3. answer'[b] = "CAPACITY" /\ DOMAIN answer' = Batch
    BY <2>1 DEF BatchInv
  <2>4. \A x \in Batch \ {b} : answer'[x] = answer[x]
    BY <2>1
  <2>5. BatchTypeOK'
    BY <1>1, <2>1 DEF BatchTypeOK
  <2>6. CapacityInv'
    <3>1. \A x \in Batch : InFlight(x)' = InFlight(x)
      BY <1>1, <2>1 DEF InFlight
    <3>2. \A x \in Batch : Active(x)' <=> Active(x)
      BY <1>1, <2>2 DEF Active
    <3> QED  BY <1>1, <2>1, <3>1, <3>2, CapacityStays
  <2>7. CalledInv'
    BY <1>1, <1>2, <2>1, <2>2, <2>3, <2>4 DEF CalledInv
  <2> QED  BY <2>3, <2>5, <2>6, <2>7 DEF BatchInv
<1>5. CASE Admit(b) /\ ~(used + Parallelism(b) > Limit)
  <2>1. /\ phase' = [phase EXCEPT ![b] = "running"] /\ UNCHANGED <<results, answer>>
        /\ used' = used + Parallelism(b)
        /\ task' = [task EXCEPT ![b] = [s \in Step |-> "waiting"]]
    BY <1>5 DEF Admit
  <2>2. /\ phase'[b] = "running" /\ \A x \in Batch \ {b} : phase'[x] = phase[x] /\ task'[x] = task[x]
        /\ \A s \in Step : task'[b][s] = "waiting"
    BY <1>1, <2>1 DEF BatchTypeOK
  <2>3. Parallelism(b) \in Nat /\ used \in Nat /\ Limit \in Nat
    BY <1>1, ParallelismIsSmall, BatchAssumption DEF BatchTypeOK
  <2>4. BatchTypeOK'
    BY <1>1, <1>5, <2>1, <2>3 DEF BatchTypeOK
  <2>5. Slots' = Slots \cup SlotsOf(b) /\ Slots \cap SlotsOf(b) = {}
    <3>1. \A x \in Batch : Active(x)' <=> (Active(x) \/ x = b)
      BY <2>2 DEF Active
    <3>2. Slots' = UNION {SlotsOf(x) : x \in {y \in Batch : Active(y)'}}
      BY DEF Slots, SlotsOf, Parallelism
    <3>3. Slots' = Slots \cup SlotsOf(b)
      BY <3>1, <3>2 DEF Slots
    <3>4. ASSUME NEW p \in Slots, p \in SlotsOf(b) PROVE FALSE
      <4>1. PICK x \in Batch : Active(x) /\ p \in SlotsOf(x)
        BY <3>4 DEF Slots
      <4> QED  BY <1>2, <3>4, <4>1 DEF SlotsOf
    <3> QED  BY <3>3, <3>4
  <2>6. IsFiniteSet(Slots') /\ used' = Cardinality(Slots')
    <3>1. IsFiniteSet(Slots) /\ used = Cardinality(Slots)
      BY <1>1 DEF CapacityInv
    <3>2. IsFiniteSet(SlotsOf(b)) /\ Cardinality(SlotsOf(b)) = Parallelism(b)
      BY SlotsCounted
    <3>3. Cardinality(Slots \cap SlotsOf(b)) = 0
      BY <2>5, FS_EmptySet
    <3>4. /\ IsFiniteSet(Slots \cup SlotsOf(b))
          /\ Cardinality(Slots \cup SlotsOf(b))
                = Cardinality(Slots) + Cardinality(SlotsOf(b)) - Cardinality(Slots \cap SlotsOf(b))
      BY <3>1, <3>2, FS_Union
    <3> QED  BY <2>1, <2>3, <2>5, <3>1, <3>2, <3>3, <3>4
  <2>7. ASSUME NEW x \in Batch
        PROVE  InFlight(x)' = InFlight(x) /\ (InFlight(x)' # {} => Active(x)')
    <3>1. CASE x = b
      BY <1>1, <1>2, <2>2, <3>1 DEF InFlight
    <3>2. CASE x # b
      <4>1. InFlight(x)' = InFlight(x)
        BY <1>1, <2>2, <3>2 DEF InFlight
      <4> QED  BY <1>1, <2>2, <3>2, <4>1 DEF CapacityInv, Active
    <3> QED  BY <3>1, <3>2
  <2>8. CapacityInv'
    BY <1>1, <2>6, <2>7 DEF CapacityInv, Parallelism
  <2>9. CalledInv'
    BY <1>1, <1>2, <2>1, <2>2 DEF CalledInv
  <2> QED  BY <2>1, <2>4, <2>8, <2>9 DEF BatchInv
<1> QED  BY <1>3, <1>4, <1>5

\* What one task does between two awaits.
LEMMA TaskStep ==
    ASSUME BatchInv, NEW b \in Batch, NEW s \in Step,
           \/ TurnedAway(b, s) \/ StepCancelled(b, s)
           \/ \E status \in {"SUCCESS"} \cup Failed : FinishStep(b, s, status)
    PROVE  BatchInv'
<1>1. BatchTypeOK /\ CapacityInv /\ CalledInv /\ UNCHANGED <<phase, used, called, answer>>
      /\ task[b][s] \in {"waiting", "running", "cancelled"}
  BY DEF BatchInv, TurnedAway, StepCancelled, FinishStep
<1>2. PICK r \in StepStatus :
        /\ task' = [task EXCEPT ![b][s] = "ended"] /\ results' = [results EXCEPT ![b][s] = r]
        /\ r \notin Had => task[b][s] = "waiting"
        /\ \/ UNCHANGED closed /\ r \notin Failed
           \/ closed' = [closed EXCEPT ![b] = closed[b] \/ (b \in FailFast /\ r # "SUCCESS")]
  <2>1. CASE TurnedAway(b, s)
    <3>1. PICK r \in {"DENIED", "NOT_STARTED"} : End(b, s, r)
      BY <2>1 DEF TurnedAway
    <3>2. r \in StepStatus /\ r \notin Failed /\ task[b][s] = "waiting" /\ UNCHANGED closed
      BY <2>1 DEF TurnedAway, StepStatus, Failed
    <3> QED  BY <3>1, <3>2 DEF End
  <2>2. CASE StepCancelled(b, s)
    <3>1. "CANCELLED" \in StepStatus /\ "CANCELLED" \in Had /\ "CANCELLED" \notin Failed
      BY DEF StepStatus, Had, Failed
    <3> QED  BY <2>2, <3>1 DEF StepCancelled, End
  <2>3. ASSUME NEW r \in {"SUCCESS"} \cup Failed, FinishStep(b, s, r)
        PROVE  /\ r \in StepStatus /\ r \in Had /\ End(b, s, r)
               /\ closed' = [closed EXCEPT ![b] = closed[b] \/ (b \in FailFast /\ r # "SUCCESS")]
    BY <2>3 DEF FinishStep, StepStatus, Had
  <2> QED  BY <2>1, <2>2, <2>3 DEF End
<1>3. /\ task'[b][s] = "ended"
      /\ \A x \in Batch, y \in Step : (x # b \/ y # s) => task'[x][y] = task[x][y]
      /\ task' \in [Batch -> [Step -> {"none", "waiting", "running", "cancelled", "ended"}]]
  BY <1>1, <1>2, StepMoves
<1>4. /\ results'[b][s] = r
      /\ \A x \in Batch, y \in Step : (x # b \/ y # s) => results'[x][y] = results[x][y]
      /\ results' \in [Batch -> [Step -> StepStatus \cup {"none"}]]
  BY <1>1, <1>2, ResultMoves
<1>5. /\ closed' \in [Batch -> BOOLEAN]
      /\ \A x \in Batch : closed[x] => closed'[x]
      /\ b \in FailFast /\ r \in Failed => closed'[b]
  <2>1. "SUCCESS" \notin Failed /\ closed \in [Batch -> BOOLEAN]
    BY <1>1 DEF Failed, BatchTypeOK
  <2>2. CASE UNCHANGED closed /\ r \notin Failed
    BY <2>1, <2>2
  <2>3. CASE closed' = [closed EXCEPT ![b] = closed[b] \/ (b \in FailFast /\ r # "SUCCESS")]
    BY <2>1, <2>3
  <2> QED  BY <1>2, <2>2, <2>3
<1>6. BatchTypeOK'
  BY <1>1, <1>3, <1>4, <1>5 DEF BatchTypeOK
<1>7. CapacityInv'
  <2>1. \A x \in Batch : InFlight(x)' \subseteq InFlight(x)
    BY <1>1, <1>3 DEF InFlight
  <2>2. \A x \in Batch : Active(x)' <=> Active(x)
    BY <1>1 DEF Active
  <2> QED  BY <1>1, <2>1, <2>2, CapacityStays
<1>8. phase[b] \notin {"new", "done"}
  BY <1>1 DEF CalledInv
<1>9. ASSUME NEW x \in Batch
      PROVE  /\ \A y \in Step : <<x, y>> \in called =>
                    \/ task'[x][y] \in {"running", "cancelled"}
                    \/ task'[x][y] = "ended" /\ results'[x][y] \in Had
             /\ phase[x] \in {"new", "done"} => \A y \in Step : task'[x][y] \in {"none", "ended"}
             /\ phase[x] = "new" => \A y \in Step : task'[x][y] = "none"
             /\ phase[x] = "running" => \A y \in Step : task'[x][y] # "cancelled"
             /\ x \in FailFast /\ (\E y \in Step : results'[x][y] \in Failed) => closed'[x]
             /\ phase[x] = "done" /\ answer[x] = "SUCCESS" /\ x \notin DryRun =>
                    \A y \in Step : results'[x][y] = "SUCCESS"
  <2>1. ASSUME NEW y \in Step, <<x, y>> \in called
        PROVE  \/ task'[x][y] \in {"running", "cancelled"}
               \/ task'[x][y] = "ended" /\ results'[x][y] \in Had
    <3>1. CASE x = b /\ y = s
      <4>1. r \in Had
        BY <1>1, <1>2, <2>1, <3>1 DEF CalledInv
      <4> QED  BY <1>3, <1>4, <3>1, <4>1
    <3>2. CASE x # b \/ y # s
      BY <1>1, <1>3, <1>4, <2>1, <3>2 DEF CalledInv
    <3> QED  BY <3>1, <3>2
  <2>2. ASSUME NEW y \in Step, x \in FailFast, results'[x][y] \in Failed PROVE closed'[x]
    <3>1. CASE x = b /\ y = s
      BY <1>4, <1>5, <2>2, <3>1
    <3>2. CASE x # b \/ y # s
      <4>1. results[x][y] \in Failed
        BY <1>4, <2>2, <3>2
      <4> QED  BY <1>1, <1>5, <2>2, <4>1 DEF CalledInv
    <3> QED  BY <3>1, <3>2
  <2>3. CASE x = b
    <3>1. phase[b] = "running" => \A y \in Step : task'[b][y] # "cancelled"
      BY <1>1, <1>3 DEF CalledInv
    <3> QED  BY <1>8, <2>1, <2>2, <2>3, <3>1
  <2>4. CASE x # b
    <3>1. \A y \in Step : task'[x][y] = task[x][y] /\ results'[x][y] = results[x][y]
      BY <1>3, <1>4, <2>4
    <3> QED  BY <1>1, <2>1, <2>2, <3>1 DEF CalledInv
  <2> QED  BY <2>3, <2>4
<1>10. CalledInv'
  BY <1>1, <1>9 DEF CalledInv
<1> QED  BY <1>1, <1>6, <1>7, <1>10 DEF BatchInv

\* A step gets the semaphore and goes to the executor.
LEMMA StartStepKept ==
    ASSUME BatchInv, NEW b \in Batch, NEW s \in Step, StartStep(b, s) PROVE BatchInv'
<1>1. /\ BatchTypeOK /\ CapacityInv /\ CalledInv
      /\ UNCHANGED <<phase, results, closed, used, answer>>
      /\ phase[b] = "running" /\ task[b][s] = "waiting"
      /\ Cardinality(InFlight(b)) < Parallelism(b)
      /\ task' = [task EXCEPT ![b][s] = "running"] /\ called' = called \cup {<<b, s>>}
  BY DEF BatchInv, StartStep
<1>2. /\ task'[b][s] = "running"
      /\ \A x \in Batch, y \in Step : (x # b \/ y # s) => task'[x][y] = task[x][y]
      /\ task' \in [Batch -> [Step -> {"none", "waiting", "running", "cancelled", "ended"}]]
  BY <1>1, StepMoves
<1>3. BatchTypeOK'
  BY <1>1, <1>2 DEF BatchTypeOK
<1>4. /\ InFlight(b)' = InFlight(b) \cup {s} /\ s \notin InFlight(b)
      /\ \A x \in Batch \ {b} : InFlight(x)' = InFlight(x)
  BY <1>1, <1>2 DEF InFlight
<1>5. Slots' = Slots /\ \A x \in Batch : Active(x)' <=> Active(x)
  BY <1>1 DEF Slots, Active, SlotsOf, Parallelism
<1>6. ASSUME NEW x \in Batch
      PROVE  /\ IsFiniteSet(InFlight(x)') /\ Cardinality(InFlight(x)') <= Parallelism(x)
             /\ InFlight(x)' # {} => Active(x)'
  <2>1. CASE x = b
    <3>1. IsFiniteSet(InFlight(b))
      BY <1>1 DEF CapacityInv
    <3>2. IsFiniteSet(InFlight(b)') /\ Cardinality(InFlight(b)') = Cardinality(InFlight(b)) + 1
      BY <1>4, <3>1, FS_AddElement
    <3>3. Cardinality(InFlight(b)) \in Nat /\ Parallelism(b) \in Nat
      BY <3>1, FS_CardinalityType, ParallelismIsSmall
    <3> QED  BY <1>1, <2>1, <3>2, <3>3 DEF Active
  <2>2. CASE x # b
    BY <1>1, <1>4, <1>5, <2>2 DEF CapacityInv
  <2> QED  BY <2>1, <2>2
<1>7. CapacityInv'
  BY <1>1, <1>5, <1>6 DEF CapacityInv, Parallelism
<1>8. CalledInv'
  BY <1>1, <1>2 DEF CalledInv
<1> QED  BY <1>1, <1>3, <1>7, <1>8 DEF BatchInv

\* The deadline of a batch, or the loss of its caller.
LEMMA CancelStep ==
    ASSUME BatchInv, NEW b \in Batch, NEW why \in {"deadline", "disconnected"}, CancelAll(b, why)
    PROVE  BatchInv'
<1> DEFINE row == [s \in Step |-> IF task[b][s] = "running" THEN "cancelled" ELSE "ended"]
<1>1. /\ BatchTypeOK /\ CapacityInv /\ CalledInv
      /\ UNCHANGED <<results, used, called, answer>> /\ phase[b] = "running"
      /\ phase' = [phase EXCEPT ![b] = why] /\ closed' = [closed EXCEPT ![b] = TRUE]
      /\ task' = [task EXCEPT ![b] = row]
  BY DEF BatchInv, CancelAll
<1>2. /\ row \in [Step -> {"none", "waiting", "running", "cancelled", "ended"}]
      /\ \A s \in Step : \/ task[b][s] = "running" /\ row[s] = "cancelled"
                         \/ task[b][s] # "running" /\ row[s] = "ended"
  OBVIOUS
<1> HIDE DEF row
<1>3. /\ phase'[b] = why /\ task'[b] = row /\ closed'[b]
      /\ \A x \in Batch \ {b} : phase'[x] = phase[x] /\ task'[x] = task[x] /\ closed'[x] = closed[x]
  BY <1>1 DEF BatchTypeOK
<1>4. BatchTypeOK'
  BY <1>1, <1>2 DEF BatchTypeOK
<1>5. CapacityInv'
  <2>1. ASSUME NEW x \in Batch PROVE InFlight(x)' \subseteq InFlight(x)
    BY <1>1, <1>2, <1>3 DEF InFlight
  <2>2. \A x \in Batch : Active(x)' <=> Active(x)
    BY <1>1, <1>3 DEF Active
  <2> QED  BY <1>1, <2>1, <2>2, CapacityStays
<1>6. ASSUME NEW s \in Step, <<b, s>> \in called
      PROVE  \/ task'[b][s] \in {"running", "cancelled"}
             \/ task'[b][s] = "ended" /\ results'[b][s] \in Had
  <2>1. CASE task[b][s] = "cancelled"
    BY <1>1, <2>1 DEF CalledInv
  <2>2. CASE task[b][s] # "cancelled"
    BY <1>1, <1>2, <1>3, <1>6, <2>2 DEF CalledInv
  <2> QED  BY <2>1, <2>2
<1>7. CalledInv'
  BY <1>1, <1>3, <1>6 DEF CalledInv
<1> QED  BY <1>1, <1>4, <1>5, <1>7 DEF BatchInv

\* The end of a batch: its slots are free again.
LEMMA FinishKept ==
    ASSUME BatchInv, NEW b \in Batch, Finish(b) PROVE BatchInv'
<1>1. /\ BatchTypeOK /\ CapacityInv /\ CalledInv
      /\ UNCHANGED <<task, results, closed, called>>
      /\ Active(b) /\ \A s \in Step : task[b][s] = "ended"
      /\ phase' = [phase EXCEPT ![b] = "done"]
      /\ used' = Max({0, used - Parallelism(b)})
  BY DEF BatchInv, Finish, Active, Release
<1>2. phase'[b] = "done" /\ \A x \in Batch \ {b} : phase'[x] = phase[x]
  BY <1>1 DEF BatchTypeOK
<1>3. /\ IsFiniteSet(Slots) /\ used = Cardinality(Slots)
      /\ IsFiniteSet(SlotsOf(b)) /\ Cardinality(SlotsOf(b)) = Parallelism(b)
  BY <1>1, SlotsCounted DEF CapacityInv
<1>4. Slots' = Slots \ SlotsOf(b) /\ SlotsOf(b) \subseteq Slots
  <2>1. \A x \in Batch : Active(x)' <=> (Active(x) /\ x # b)
    BY <1>2 DEF Active
  <2>2. Slots' = UNION {SlotsOf(x) : x \in {y \in Batch : Active(y)'}}
    BY DEF Slots, SlotsOf, Parallelism
  <2>3. \A x \in Batch : x # b => SlotsOf(x) \cap SlotsOf(b) = {}
    BY DEF SlotsOf
  <2>4. SlotsOf(b) \subseteq Slots
    BY <1>1 DEF Slots
  <2>5. Slots' = Slots \ SlotsOf(b)
    BY <2>1, <2>2, <2>3 DEF Slots
  <2> QED  BY <2>4, <2>5
<1>5. IsFiniteSet(Slots') /\ Cardinality(Slots') = used - Parallelism(b) /\ Cardinality(Slots') \in Nat
  <2>1. Slots \cap SlotsOf(b) = SlotsOf(b)
    BY <1>4
  <2>2. IsFiniteSet(Slots') /\ Cardinality(Slots') = Cardinality(Slots) - Cardinality(SlotsOf(b))
    BY <1>3, <1>4, <2>1, FS_Difference
  <2> QED  BY <1>3, <2>2, FS_CardinalityType
<1>6. used' = Cardinality(Slots') /\ used' \in 0 .. Limit
  <2>1. used \in 0 .. Limit /\ Parallelism(b) \in Nat /\ Limit \in Nat
    BY <1>1, ParallelismIsSmall, BatchAssumption DEF BatchTypeOK
  <2>2. Max({0, used - Parallelism(b)}) = used - Parallelism(b)
    BY <1>5, <2>1 DEF Max
  <2> QED  BY <1>1, <1>5, <2>1, <2>2
<1>7. BatchTypeOK'
  BY <1>1, <1>6 DEF BatchTypeOK
<1>8. \A x \in Batch : InFlight(x)' = InFlight(x) /\ (x = b => InFlight(x) = {})
  BY <1>1 DEF InFlight
<1>9. CapacityInv'
  <2>1. ASSUME NEW x \in Batch PROVE InFlight(x)' # {} => Active(x)'
    BY <1>1, <1>2, <1>8 DEF CapacityInv, Active
  <2> QED  BY <1>1, <1>5, <1>6, <1>8, <2>1 DEF CapacityInv, Parallelism
<1>10. PICK v : /\ answer' = [answer EXCEPT ![b] = v]
                /\ v = "SUCCESS" => \A s \in Step : results[b][s] = "SUCCESS"
  <2> DEFINE a == Aggregate(b, phase[b] = "deadline")
  <2>1. a = "SUCCESS" => \A s \in Step : results[b][s] = "SUCCESS"
    <3> DEFINE all == {Entry(b, s) : s \in Step}
    <3>1. a = "SUCCESS" => all = {"SUCCESS"}
      BY DEF Aggregate
    <3>2. all = {"SUCCESS"} => \A s \in Step : Entry(b, s) = "SUCCESS"
      OBVIOUS
    <3> HIDE DEF a, all
    <3> QED  BY <3>1, <3>2 DEF Entry
  <2>2. answer' = [answer EXCEPT ![b] = IF phase[b] = "disconnected" THEN "none" ELSE a]
    BY DEF Finish
  <2> HIDE DEF a
  <2> QED  BY <2>1, <2>2
<1>11. /\ DOMAIN answer' = Batch /\ answer'[b] = v
       /\ \A x \in Batch \ {b} : answer'[x] = answer[x]
  BY <1>10 DEF BatchInv
<1>12. CalledInv'
  BY <1>1, <1>2, <1>10, <1>11 DEF CalledInv
<1> QED  BY <1>7, <1>9, <1>11, <1>12 DEF BatchInv

\* No batch starts with anything reserved.
LEMMA BatchStart == BatchInit => BatchInv
<1> SUFFICES ASSUME BatchInit PROVE BatchInv
  OBVIOUS
<1>1. /\ phase = [b \in Batch |-> "new"] /\ task = [b \in Batch |-> [s \in Step |-> "none"]]
      /\ results = [b \in Batch |-> [s \in Step |-> "none"]]
      /\ closed = [b \in Batch |-> FALSE] /\ used = 0
      /\ called = {} /\ answer = [b \in Batch |-> "none"]
  BY DEF BatchInit
<1>2. BatchTypeOK
  <2>1. closed \in [Batch -> BOOLEAN]
    BY <1>1
  <2>2. task \in [Batch -> [Step -> {"none", "waiting", "running", "cancelled", "ended"}]]
    BY <1>1
  <2>3. results \in [Batch -> [Step -> StepStatus \cup {"none"}]]
    BY <1>1
  <2> QED  BY <1>1, <2>1, <2>2, <2>3, BatchAssumption DEF BatchTypeOK
<1>3. Slots = {} /\ \A b \in Batch : InFlight(b) = {} /\ ~Active(b)
  BY <1>1 DEF Slots, Active, InFlight
<1>4. CapacityInv
  BY <1>1, <1>3, FS_EmptySet, ParallelismIsSmall DEF CapacityInv
<1>5. CalledInv
  BY <1>1 DEF CalledInv, Failed
<1> QED  BY <1>1, <1>2, <1>4, <1>5 DEF BatchInv

\* Nothing of a batch changes while the other lanes move.
LEMMA BatchRest == ASSUME BatchInv, UNCHANGED batchVars PROVE BatchInv'
<1>1. UNCHANGED <<phase, task, results, closed, used, called, answer>>
  BY DEF batchVars
<1>2. BatchTypeOK' /\ DOMAIN answer' = Batch /\ CalledInv'
  BY <1>1 DEF BatchInv, BatchTypeOK, CalledInv
<1>3. CapacityInv'
  BY <1>1, CapacityStays DEF BatchInv, Active, InFlight
<1> QED  BY <1>2, <1>3 DEF BatchInv

\* Every action of the scheduler keeps the invariant.
LEMMA BatchKept == ASSUME BatchInv, BatchNext PROVE BatchInv'
<1>1. PICK b \in Batch :
        \/ RunDry(b) \/ Admit(b) \/ Finish(b)
        \/ \E why \in {"deadline", "disconnected"} : CancelAll(b, why)
        \/ \E s \in Step :
            \/ TurnedAway(b, s) \/ StartStep(b, s) \/ StepCancelled(b, s)
            \/ \E status \in {"SUCCESS"} \cup Failed : FinishStep(b, s, status)
  BY DEF BatchNext
<1> QED
  BY <1>1, AdmissionStep, FinishKept, CancelStep, TaskStep, StartStepKept

\* What the invariant says of capacity and of what a caller may run again.
LEMMA BatchFollows == BatchInv => BatchesAccounted
<1> SUFFICES ASSUME BatchInv PROVE BatchesAccounted
  OBVIOUS
<1>1. BatchTypeOK /\ CapacityInv /\ CalledInv
  BY DEF BatchInv
<1>2. CapacityReturns
  <2>1. Cardinality(AtExecutor) <= Limit
    BY <1>1, ExecutorFits
  <2>2. ASSUME \A b \in Batch : phase[b] \in {"new", "done"} PROVE used = 0
    <3>1. Slots = {}
      BY <2>2 DEF Slots, Active
    <3> QED  BY <1>1, <3>1, FS_EmptySet DEF CapacityInv
  <2> QED  BY <2>1, <2>2 DEF CapacityReturns, AtExecutor
<1>3. NotStartedIsTrue
  <2>1. ASSUME NEW b \in Batch, phase[b] = "done", NEW s \in Step, <<b, s>> \in called
        PROVE  Entry(b, s) # "NOT_STARTED"
    <3>1. results[b][s] \in Had
      BY <1>1, <2>1 DEF CalledInv
    <3> QED  BY <3>1 DEF Entry, Had, Failed
  <2> QED  BY <1>1, <2>1 DEF NotStartedIsTrue, CalledInv
<1> QED  BY <1>1, <1>2, <1>3 DEF BatchesAccounted

\* What a step of a batch that is stopped does not do.
NoneStarted ==
    \A b \in Batch :
        (\/ phase[b] \in {"deadline", "disconnected"}
         \/ b \in FailFast /\ \E s \in Step : results[b][s] \in Failed)
        => called' \cap ({b} \X Step) = called \cap ({b} \X Step)

\* No action of the scheduler hands on a step of a batch that was stopped.
LEMMA StoppedStays == ASSUME BatchInv, BatchNext PROVE NoneStarted
<1>1. ASSUME NEW x \in Batch, NEW s \in Step, StartStep(x, s) PROVE NoneStarted
  <2>1. phase[x] = "running" /\ ~closed[x] /\ called' = called \cup {<<x, s>>}
    BY <1>1 DEF StartStep, MayStart
  <2>2. ~(x \in FailFast /\ \E y \in Step : results[x][y] \in Failed)
    BY <2>1 DEF BatchInv, CalledInv
  <2>3. \A b \in Batch : b # x => called' \cap ({b} \X Step) = called \cap ({b} \X Step)
    BY <2>1
  <2> QED  BY <2>1, <2>2, <2>3 DEF NoneStarted
<1>2. CASE UNCHANGED called
  BY <1>2 DEF NoneStarted
<1> QED  BY <1>1, <1>2 DEF BatchNext, RunDry, Admit, Finish, CancelAll, TurnedAway, StepCancelled,
           FinishStep

-----------------------------------------------------------------------------
(* V2Spec: the batches                                                      *)

\* A step of another lane leaves the batches as they are.
LEMMA BatchOfV2 == [V2Next]_v2Vars => [BatchNext]_batchVars
<1>1. V2Next => BatchNext \/ UNCHANGED batchVars
  BY DEF V2Next, StoreLane, MergeLane, MintLane, WriteLane, ReadLane, BatchLane, PlanLane,
     RunbookLane, HybridLane, CallLane, DomainsLane, ActivationLane
<1>2. UNCHANGED v2Vars => UNCHANGED batchVars
  BY DEF v2Vars
<1> QED  BY <1>1, <1>2

\* BatchScheduler.run: whatever order steps start, finish, fail and are cancelled in,
\* the capacity that is held is that of the steps at the executor, every slot comes
\* back, and a step that is reported as not started was not handed over.
THEOREM Batches == V2Spec => []BatchesAccounted
<1>1. V2Init => BatchInv
  BY BatchStart DEF V2Init
<1>2. BatchInv /\ [V2Next]_v2Vars => BatchInv'
  BY BatchOfV2, BatchKept, BatchRest
<1> QED  BY <1>1, <1>2, BatchFollows, PTL DEF V2Spec

\* BatchScheduler.run: once a batch is past its deadline, its caller is gone or, in a
\* batch that fails fast, a step has failed, no further step is handed to the executor.
THEOREM StoppedBatches == V2Spec => NoStartAfterStop
<1>1. V2Init => BatchInv
  BY BatchStart DEF V2Init
<1>2. BatchInv /\ [V2Next]_v2Vars => BatchInv'
  BY BatchOfV2, BatchKept, BatchRest
<1>3. BatchInv /\ [V2Next]_v2Vars => [NoneStarted]_batchVars
  BY BatchOfV2, StoppedStays
<1> QED  BY <1>1, <1>2, <1>3, PTL DEF V2Spec, NoStartAfterStop, NoneStarted

-----------------------------------------------------------------------------
(* Runbooks                                                                *)

\* What validate_admission leaves to the approval gateway: a manifest of another class
\* than READ_ONLY, which invoke does not refuse as overdue, asks for an approval.
Covered(m) == m.policy # "READ_ONLY" /\ ~HighBlast(m) => NeedsApproval(m)

\* The rows of the registry: each under its own version, the validated ones covered.
RunbookRow == [manifest : Manifest, state : RunbookState, checked : BOOLEAN]
RowFits(row, v) ==
    /\ row \in RunbookRow /\ row.manifest.version = v
    /\ row.checked => Covered(row.manifest)

RegistryInv ==
    /\ DOMAIN registry = Versions
    /\ \A v \in Versions : registry[v] # Unknown => RowFits(registry[v], v)

\* What an invocation that is past its checks knows of its row and its key.
Known(i) == registry[Asks[i].version] # Unknown
Checked(i) == Known(i) /\ ~HighBlast(ManifestOf(i)) /\ Asks[i].principal \in Authorized
HasGrant(i) == NeedsApproval(ManifestOf(i)) => Digest(i) \in granted

\* What an invocation knows at each place of invoke.
InvocationInv ==
    /\ DOMAIN call = Invocation
    /\ \A i \in Invocation :
        /\ call[i] \in {"approve", "admit", "run", "save"} => Checked(i)
        /\ call[i] \in {"admit", "run", "save"} => HasGrant(i)
        /\ call[i] \in {"run", "save"} => checkpoints[Asks[i].key] # Unknown
        /\ call[i] = "run" => \A r \in ran : r.key # Asks[i].key
        /\ call[i] = "run" => \A j \in Invocation : call[j] = "run" /\ Asks[j].key = Asks[i].key
                                                    => j = i

\* A plan that ran is of a row of the registry, and was approved if it asked for it.
RanFits(digest) ==
    /\ digest.manifest.version \in Versions /\ registry[digest.manifest.version] # Unknown
    /\ registry[digest.manifest.version].manifest = digest.manifest
    /\ NeedsApproval(digest.manifest) => digest \in granted
    /\ ~HighBlast(digest.manifest) /\ digest.principal \in Authorized

\* A plan that ran holds its key for good.
RanInv ==
    /\ DOMAIN checkpoints = Keys /\ DOMAIN executions = Keys /\ DOMAIN returned = Invocation
    /\ \A r \in ran : r.key \in Keys /\ checkpoints[r.key] # Unknown
    /\ \A r, s \in ran : r.key = s.key => r = s
    /\ \A r \in ran : RanFits(r.digest)

\* What save_execution kept, and what a repeated invocation is answered from it.
RanAs(k, digest, status) == \E r \in ran : r.key = k /\ r.digest = digest /\ r.status = status

KeptInv ==
    /\ \A k \in Keys : executions[k] # Unknown =>
        RanAs(k, executions[k].digest, executions[k].status)
    /\ \A i \in Invocation : returned[i] # Unknown /\ returned[i].kind = "recorded" =>
        Known(i) /\ RanAs(Asks[i].key, Digest(i), returned[i].status)

RunbookInv == RegistryInv /\ InvocationInv /\ RanInv /\ KeptInv

\* The digest of a known row's plan is one.
LEMMA DigestIsKnown == ASSUME RegistryInv, NEW i \in Invocation, Known(i) PROVE Digest(i) # Unknown
<1>1. ManifestOf(i) \in Manifest
  BY RunbookAssumption DEF RegistryInv, RowFits, RunbookRow, Known, ManifestOf
<1>2. /\ Asks[i].args \in {Asks[j].args : j \in Invocation}
      /\ Asks[i].principal \in {Asks[j].principal : j \in Invocation}
  OBVIOUS
<1> QED  BY <1>1, <1>2, RunbookAssumption DEF Digest

\* A row, once there, keeps its manifest: the registry is append-only.
LEMMA RowsStay ==
    ASSUME RegistryInv,
           \/ \E m \in Manifest, checked \in BOOLEAN : AdmitRunbook(m, checked)
           \/ \E v \in Versions, s \in {"ACTIVE", "DEPRECATED", "YANKED"} : Transition(v, s)
    PROVE  /\ RegistryInv'
           /\ \A v \in Versions : registry[v] # Unknown =>
                registry'[v] # Unknown /\ registry'[v].manifest = registry[v].manifest
<1>1. ASSUME NEW m \in Manifest, NEW checked \in BOOLEAN, AdmitRunbook(m, checked)
      PROVE  /\ RegistryInv'
             /\ \A v \in Versions : registry[v] # Unknown =>
                  registry'[v] # Unknown /\ registry'[v].manifest = registry[v].manifest
  <2>1. PICK row : row = [manifest |-> m, state |-> "ADMITTED", checked |-> checked]
    OBVIOUS
  <2>2. row \in RunbookRow /\ row.manifest = m /\ row.checked = checked
    BY <2>1 DEF RunbookRow, RunbookState
  <2>3. registry[m.version] = Unknown /\ registry' = [registry EXCEPT ![m.version] = row]
    BY <1>1, <2>1 DEF AdmitRunbook
  <2>4. checked => ApprovalRank[m.approval] >= ApprovalRank[RequiredApproval(m)]
    BY <1>1 DEF AdmitRunbook, ValidateAdmission
  <2>5. checked => Covered(m)
    BY <2>4 DEF Covered, NeedsApproval, RequiredApproval, ApprovalRank
  <2>6. m.version \in Versions
    BY DEF Versions
  <2>7. /\ DOMAIN registry' = Versions /\ registry'[m.version] = row
        /\ \A v \in Versions : v # m.version => registry'[v] = registry[v]
    BY <2>3, <2>6 DEF RegistryInv
  <2>8. RowFits(row, m.version)
    BY <2>2, <2>5 DEF RowFits
  <2> QED  BY <2>3, <2>7, <2>8 DEF RegistryInv
<1>2. ASSUME NEW w \in Versions, NEW s \in {"ACTIVE", "DEPRECATED", "YANKED"}, Transition(w, s)
      PROVE  /\ RegistryInv'
             /\ \A v \in Versions : registry[v] # Unknown =>
                  registry'[v] # Unknown /\ registry'[v].manifest = registry[v].manifest
  <2>1. PICK old \in RunbookRow : old = registry[w] /\ RowFits(old, w)
    BY <1>2 DEF Transition, RegistryInv, RowFits
  <2>2. PICK row : row = [old EXCEPT !.state = s] /\ registry' = [registry EXCEPT ![w] = row]
    BY <1>2, <2>1 DEF Transition
  <2>3. row \in RunbookRow /\ row.manifest = old.manifest /\ row.checked = old.checked
    BY <2>2 DEF RunbookRow, RunbookState
  <2>4. /\ DOMAIN registry' = Versions /\ registry'[w] = row
        /\ \A v \in Versions : v # w => registry'[v] = registry[v]
    BY <2>2 DEF RegistryInv
  <2>5. row # Unknown /\ RowFits(row, w)
    BY <2>1, <2>3, RunbookAssumption DEF RowFits, RunbookRow
  <2> QED  BY <2>1, <2>3, <2>4, <2>5 DEF RegistryInv
<1> QED  BY <1>1, <1>2

\* A change of the registry disturbs no invocation and no plan that ran.
LEMMA RegistryStep ==
    ASSUME RunbookInv,
           \/ \E m \in Manifest, checked \in BOOLEAN : AdmitRunbook(m, checked)
           \/ \E v \in Versions, s \in {"ACTIVE", "DEPRECATED", "YANKED"} : Transition(v, s)
    PROVE  RunbookInv'
<1>1. UNCHANGED <<checkpoints, executions, call, granted, ran, returned>>
  BY DEF AdmitRunbook, Transition
<1>2. /\ RegistryInv'
      /\ \A v \in Versions : registry[v] # Unknown =>
            registry'[v] # Unknown /\ registry'[v].manifest = registry[v].manifest
  BY RowsStay DEF RunbookInv
<1>3. ASSUME NEW i \in Invocation, Known(i)
      PROVE  Known(i)' /\ ManifestOf(i)' = ManifestOf(i) /\ Digest(i)' = Digest(i)
  BY <1>2, <1>3, RunbookAssumption DEF Known, ManifestOf, Digest
<1>4. ASSUME NEW i \in Invocation
      PROVE  (Checked(i) => Checked(i)') /\ (Checked(i) /\ HasGrant(i) => HasGrant(i)')
  <2>1. Checked(i) => Known(i)
    BY DEF Checked
  <2> QED  BY <1>1, <1>3, <2>1 DEF Checked, HasGrant
<1>5. InvocationInv'
  BY <1>1, <1>4 DEF RunbookInv, InvocationInv
<1>6. RanInv'
  <2>1. \A r \in ran : RanFits(r.digest) => RanFits(r.digest)'
    BY <1>1, <1>2 DEF RanFits
  <2> QED  BY <1>1, <2>1 DEF RunbookInv, RanInv
<1>7. KeptInv'
  BY <1>1, <1>3 DEF RunbookInv, KeptInv, RanAs
<1> QED  BY <1>2, <1>5, <1>6, <1>7 DEF RunbookInv

\* What an invocation is moved to, the rest staying where it is.
LEMMA CallMoves ==
    ASSUME RunbookInv, UNCHANGED registry, NEW i \in Invocation, NEW place,
           call' = [call EXCEPT ![i] = place],
           granted \subseteq granted', ran \subseteq ran',
           \A k \in Keys : checkpoints[k] # Unknown => checkpoints'[k] # Unknown,
           place \in {"approve", "admit", "run", "save"} => Checked(i),
           place \in {"admit", "run", "save"} => HasGrant(i)',
           place \in {"run", "save"} => checkpoints'[Asks[i].key] # Unknown,
           place = "run" => /\ \A r \in ran' : r.key # Asks[i].key
                            /\ \A j \in Invocation : call[j] = "run" => Asks[j].key # Asks[i].key,
           \A r \in ran' \ ran : r.key = Asks[i].key /\ call[i] = "run" /\ place # "run"
    PROVE  InvocationInv' /\ \A j \in Invocation : Digest(j)' = Digest(j)
<1>1. \A j \in Invocation : /\ Known(j)' = Known(j) /\ ManifestOf(j)' = ManifestOf(j)
                            /\ Digest(j)' = Digest(j) /\ Checked(j)' = Checked(j)
                            /\ (HasGrant(j) => HasGrant(j)')
  BY DEF Known, ManifestOf, Digest, Checked, HasGrant
<1>2. /\ DOMAIN call' = Invocation /\ call'[i] = place
      /\ \A j \in Invocation : j # i => call'[j] = call[j]
  BY DEF RunbookInv, InvocationInv
<1>3. \A j \in Invocation : Asks[j].key \in Keys
  BY DEF Keys
<1>4. ASSUME NEW j \in Invocation
      PROVE  /\ call'[j] \in {"approve", "admit", "run", "save"} => Checked(j)'
             /\ call'[j] \in {"admit", "run", "save"} => HasGrant(j)'
             /\ call'[j] \in {"run", "save"} => checkpoints'[Asks[j].key] # Unknown
  <2>1. CASE j = i
    BY <1>1, <1>2, <2>1
  <2>2. CASE j # i
    BY <1>1, <1>2, <1>3, <2>2 DEF RunbookInv, InvocationInv
  <2> QED  BY <2>1, <2>2
<1>5. ASSUME NEW j \in Invocation, call'[j] = "run"
      PROVE  /\ \A r \in ran' : r.key # Asks[j].key
             /\ \A l \in Invocation : call'[l] = "run" /\ Asks[l].key = Asks[j].key => l = j
  <2>1. CASE j = i
    BY <1>2, <1>5, <2>1
  <2>2. CASE j # i
    <3>1. /\ call[j] = "run" /\ \A r \in ran : r.key # Asks[j].key
          /\ \A l \in Invocation : call[l] = "run" /\ Asks[l].key = Asks[j].key => l = j
      BY <1>2, <1>5, <2>2 DEF RunbookInv, InvocationInv
    <3>2. \A r \in ran' \ ran : r.key # Asks[j].key
      BY <2>2, <3>1
    <3>3. place = "run" => Asks[j].key # Asks[i].key
      BY <3>1
    <3> QED  BY <1>2, <3>1, <3>2, <3>3
  <2> QED  BY <2>1, <2>2
<1> QED  BY <1>1, <1>2, <1>4, <1>5 DEF InvocationInv

\* An answer that is not from the record, and no other change.
LEMMA AnswerStep ==
    ASSUME RunbookInv, NEW i \in Invocation, NEW what, Answer(i, what),
           UNCHANGED <<registry, checkpoints, executions, granted, ran>>,
           what.kind = "recorded" => Known(i) /\ RanAs(Asks[i].key, Digest(i), what.status)
    PROVE  RunbookInv'
<1>1. call' = [call EXCEPT ![i] = "done"] /\ returned' = [returned EXCEPT ![i] = what]
  BY DEF Answer
<1>2. InvocationInv' /\ \A j \in Invocation : Digest(j)' = Digest(j)
  BY <1>1, CallMoves
<1>3. RegistryInv'
  BY DEF RunbookInv, RegistryInv
<1>4. /\ DOMAIN returned' = Invocation /\ returned'[i] = what
      /\ \A j \in Invocation : j # i => returned'[j] = returned[j]
  BY <1>1 DEF RunbookInv, RanInv
<1>5. RanInv'
  BY <1>4 DEF RunbookInv, RanInv, RanFits
<1>6. KeptInv'
  BY <1>2, <1>4 DEF RunbookInv, KeptInv, RanAs, Known
<1> QED  BY <1>2, <1>3, <1>5, <1>6 DEF RunbookInv

\* A move of an invocation that tells its caller nothing and runs nothing.
LEMMA PlaceStep ==
    ASSUME RunbookInv, InvocationInv',
           \A j \in Invocation : Digest(j)' = Digest(j),
           UNCHANGED <<registry, executions, ran, returned>>, granted \subseteq granted',
           DOMAIN checkpoints' = Keys,
           \A k \in Keys : checkpoints[k] # Unknown => checkpoints'[k] # Unknown
    PROVE  RunbookInv'
<1>1. RegistryInv'
  BY DEF RunbookInv, RegistryInv
<1>2. \A r \in ran' : RanFits(r.digest)'
  BY DEF RunbookInv, RanInv, RanFits
<1>3. RanInv'
  BY <1>2 DEF RunbookInv, RanInv
<1>4. KeptInv'
  BY DEF RunbookInv, KeptInv, RanAs, Known
<1> QED  BY <1>1, <1>3, <1>4 DEF RunbookInv

\* Every step of an invocation keeps the invariant.
LEMMA InvocationStep ==
    ASSUME RunbookInv, NEW i \in Invocation,
           \/ Refused(i) \/ LookUp(i) \/ Approve(i) \/ AdmitPlan(i) \/ RunPlan(i) \/ SaveExecution(i)
    PROVE  RunbookInv'
<1>0. Asks[i].key \in Keys
  BY DEF Keys
<1>1. CASE Refused(i)
  <2>1. PICK what : what = [kind |-> Refusal(i)] /\ Answer(i, what)
    BY <1>1 DEF Refused
  <2>2. Refusal(i) # "recorded"
    BY DEF Refusal
  <2> QED  BY <1>1, <2>1, <2>2, AnswerStep DEF Refused
<1>2. CASE LookUp(i)
  <2>1. Checked(i)
    <3>1. Refusal(i) = "none"
      BY <1>2 DEF LookUp
    <3> QED  BY <3>1 DEF Refusal, Checked, Known, ManifestOf
  <2>2. UNCHANGED <<registry, checkpoints, executions, granted, ran>>
    BY <1>2 DEF LookUp
  <2>3. CASE call' = [call EXCEPT ![i] = "approve"] /\ UNCHANGED returned
    <3>1. InvocationInv' /\ \A j \in Invocation : Digest(j)' = Digest(j)
      BY <2>1, <2>2, <2>3, CallMoves
    <3> QED  BY <2>2, <2>3, <3>1, PlaceStep DEF RunbookInv, RanInv
  <2>4. CASE Answer(i, [kind |-> "RB_IDEMPOTENCY_CONFLICT"])
    <3>1. PICK what : what = [kind |-> "RB_IDEMPOTENCY_CONFLICT"] /\ Answer(i, what)
      BY <2>4
    <3> QED  BY <2>2, <3>1, AnswerStep
  <2>5. CASE /\ executions[Asks[i].key] # Unknown /\ SamePlan(i)
             /\ Answer(i, [kind |-> "recorded", status |-> executions[Asks[i].key].status])
    <3>1. PICK what : /\ what = [kind |-> "recorded", status |-> executions[Asks[i].key].status]
                      /\ Answer(i, what)
      BY <2>5
    <3>2. what.status = executions[Asks[i].key].status
      BY <3>1
    <3>3. RanAs(Asks[i].key, Digest(i), what.status)
      BY <1>0, <2>5, <3>2 DEF RunbookInv, KeptInv, SamePlan
    <3> QED  BY <2>1, <2>2, <3>1, <3>3, AnswerStep DEF Checked
  <2> QED  BY <1>2, <2>3, <2>4, <2>5 DEF LookUp
<1>3. CASE Approve(i)
  <2>1. Checked(i) /\ UNCHANGED <<registry, checkpoints, executions, ran>>
    BY <1>3 DEF Approve, RunbookInv, InvocationInv
  <2>2. CASE /\ call' = [call EXCEPT ![i] = "admit"] /\ returned' = returned
             /\ \/ ~NeedsApproval(ManifestOf(i)) /\ granted' = granted
                \/ granted' = granted \cup {Digest(i)}
    <3>1. granted \subseteq granted' /\ HasGrant(i)'
      BY <2>1, <2>2 DEF HasGrant, ManifestOf, Digest
    <3>2. InvocationInv' /\ \A j \in Invocation : Digest(j)' = Digest(j)
      BY <2>1, <2>2, <3>1, CallMoves
    <3> QED  BY <2>1, <2>2, <3>1, <3>2, PlaceStep DEF RunbookInv, RanInv
  <2>3. CASE Answer(i, [kind |-> "RB_APPROVAL_INVALID"]) /\ granted' = granted
    <3>1. PICK what : what = [kind |-> "RB_APPROVAL_INVALID"] /\ Answer(i, what)
      BY <2>3
    <3> QED  BY <2>1, <2>3, <3>1, AnswerStep
  <2> QED  BY <1>3, <2>2, <2>3 DEF Approve
<1>4. CASE AdmitPlan(i)
  <2>1. Checked(i) /\ HasGrant(i) /\ UNCHANGED <<registry, executions, granted, ran>>
    BY <1>4 DEF AdmitPlan, RunbookInv, InvocationInv
  <2>2. CASE Fresh(Asks[i].key)
    <3>1. /\ checkpoints' = [checkpoints EXCEPT ![Asks[i].key] = Digest(i)]
          /\ call' = [call EXCEPT ![i] = "run"] /\ returned' = returned
      BY <1>4, <2>2 DEF AdmitPlan
    <3>2. Digest(i) # Unknown
      BY <2>1, DigestIsKnown DEF Checked, RunbookInv
    <3>3. /\ DOMAIN checkpoints' = Keys /\ checkpoints'[Asks[i].key] # Unknown
          /\ \A k \in Keys : checkpoints[k] # Unknown => checkpoints'[k] # Unknown
      BY <1>0, <3>1, <3>2 DEF RunbookInv, RanInv
    <3>4. /\ \A r \in ran : r.key # Asks[i].key
          /\ \A j \in Invocation : call[j] = "run" => Asks[j].key # Asks[i].key
      BY <2>2 DEF Fresh, RunbookInv, RanInv, InvocationInv
    <3>5. HasGrant(i)'
      BY <2>1 DEF HasGrant, ManifestOf, Digest
    <3>6. InvocationInv' /\ \A j \in Invocation : Digest(j)' = Digest(j)
      BY <2>1, <3>1, <3>3, <3>4, <3>5, CallMoves
    <3> QED  BY <2>1, <3>1, <3>3, <3>6, PlaceStep
  <2>3. CASE ~Fresh(Asks[i].key)
    <3>1. PICK what : what = [kind |-> "duplicate execution"] /\ Answer(i, what)
      BY <1>4, <2>3 DEF AdmitPlan
    <3>2. checkpoints' = checkpoints
      BY <1>4, <2>3 DEF AdmitPlan
    <3> QED  BY <2>1, <3>1, <3>2, AnswerStep
  <2> QED  BY <2>2, <2>3
<1>5. CASE RunPlan(i)
  <2>1. /\ Checked(i) /\ HasGrant(i) /\ checkpoints[Asks[i].key] # Unknown
        /\ \A r \in ran : r.key # Asks[i].key
        /\ UNCHANGED <<registry, checkpoints, executions, granted, returned>>
    BY <1>5 DEF RunPlan, RunbookInv, InvocationInv
  <2>2. call[i] = "run" /\ call' = [call EXCEPT ![i] = "save"]
    BY <1>5 DEF RunPlan
  <2>3. PICK new : ran' = ran \cup {new} /\ new.key = Asks[i].key /\ new.digest = Digest(i)
    <3>1. PICK s \in PlanStatus :
            ran' = ran \cup {[by |-> i, key |-> Asks[i].key, digest |-> Digest(i), status |-> s]}
      BY <1>5 DEF RunPlan
    <3>2. PICK new : new = [by |-> i, key |-> Asks[i].key, digest |-> Digest(i), status |-> s]
      OBVIOUS
    <3>3. new.key = Asks[i].key /\ new.digest = Digest(i)
      BY <3>2
    <3> QED  BY <3>1, <3>2, <3>3
  <2>4. HasGrant(i)'
    BY <2>1 DEF HasGrant, ManifestOf, Digest
  <2>5. InvocationInv' /\ \A j \in Invocation : Digest(j)' = Digest(j)
    <3>1. granted \subseteq granted' /\ ran \subseteq ran' /\ \A r \in ran' \ ran : r.key = Asks[i].key
      BY <2>1, <2>3
    <3>2. \A k \in Keys : checkpoints[k] # Unknown => checkpoints'[k] # Unknown
      BY <2>1
    <3>3. checkpoints'[Asks[i].key] # Unknown
      BY <2>1
    <3>4. Checked(i) /\ UNCHANGED registry
      BY <2>1
    <3>5. PICK place : place = "save"
      OBVIOUS
    <3>6. call' = [call EXCEPT ![i] = place] /\ place # "run" /\ call[i] = "run"
      BY <2>2, <3>5
    <3> QED  BY <2>4, <3>1, <3>2, <3>3, <3>4, <3>6, CallMoves
  <2>6. RegistryInv'
    BY <2>1 DEF RunbookInv, RegistryInv
  <2>7. /\ Digest(i).manifest = ManifestOf(i) /\ Digest(i).principal = Asks[i].principal
    BY DEF Digest
  <2>8. /\ ManifestOf(i).version = Asks[i].version /\ Asks[i].version \in Versions
        /\ registry[Asks[i].version] # Unknown
    BY <2>1, RunbookAssumption DEF Checked, Known, RunbookInv, RegistryInv, RowFits, ManifestOf
  <2>9. RanFits(new.digest)
    BY <2>1, <2>3, <2>7, <2>8 DEF Checked, HasGrant, RanFits, ManifestOf
  <2>10. \A r \in ran' : RanFits(r.digest)'
    BY <2>1, <2>3, <2>9 DEF RunbookInv, RanInv, RanFits
  <2>11. RanInv'
    BY <1>0, <2>1, <2>3, <2>10 DEF RunbookInv, RanInv
  <2>12. KeptInv'
    BY <2>1, <2>3, <2>5 DEF RunbookInv, KeptInv, RanAs, Known
  <2> QED  BY <2>5, <2>6, <2>11, <2>12 DEF RunbookInv
<1>6. CASE SaveExecution(i)
  <2>1. PICK r \in ran : /\ executions' = [executions EXCEPT ![r.key] = [digest |-> r.digest, status |-> r.status]]
                         /\ Answer(i, [kind |-> "ran", status |-> r.status])
    BY <1>6 DEF SaveExecution
  <2>2. UNCHANGED <<registry, checkpoints, granted, ran>>
    BY <1>6 DEF SaveExecution
  <2>3. PICK what : what.kind = "ran" /\ returned' = [returned EXCEPT ![i] = what]
    BY <2>1 DEF Answer
  <2>4. InvocationInv' /\ \A j \in Invocation : Digest(j)' = Digest(j)
    <3>1. call' = [call EXCEPT ![i] = "done"]
      BY <2>1 DEF Answer
    <3> QED  BY <2>2, <3>1, CallMoves
  <2>5. RegistryInv'
    BY <2>2 DEF RunbookInv, RegistryInv
  <2>6. r.key \in Keys
    BY DEF RunbookInv, RanInv
  <2>7. /\ DOMAIN executions' = Keys /\ executions'[r.key].digest = r.digest
        /\ executions'[r.key].status = r.status
        /\ \A k \in Keys : k # r.key => executions'[k] = executions[k]
    BY <2>1, <2>6 DEF RunbookInv, RanInv
  <2>8. /\ DOMAIN returned' = Invocation /\ returned'[i] = what
        /\ \A j \in Invocation : j # i => returned'[j] = returned[j]
    BY <2>3 DEF RunbookInv, RanInv
  <2>9. RanInv'
    BY <2>2, <2>7, <2>8 DEF RunbookInv, RanInv, RanFits
  <2>10. ASSUME NEW k \in Keys, executions'[k] # Unknown
         PROVE  RanAs(k, executions[k].digest, executions[k].status)'
    BY <2>2, <2>7, <2>10 DEF RunbookInv, KeptInv, RanAs
  <2>11. ASSUME NEW j \in Invocation, returned'[j] # Unknown, returned'[j].kind = "recorded"
         PROVE  Known(j)' /\ RanAs(Asks[j].key, Digest(j), returned[j].status)'
    BY <2>2, <2>3, <2>4, <2>8, <2>11 DEF RunbookInv, KeptInv, RanAs, Known
  <2>12. KeptInv'
    BY <2>10, <2>11 DEF KeptInv
  <2> QED  BY <2>4, <2>5, <2>9, <2>12 DEF RunbookInv
<1> QED  BY <1>1, <1>2, <1>3, <1>4, <1>5, <1>6

\* Every step of the runbooks keeps the invariant, crashes included.
LEMMA RunbookKept == ASSUME RunbookInv, [RunbookNext]_runbookVars PROVE RunbookInv'
<1>1. CASE RunbookCrash
  <2>1. /\ DOMAIN call' = Invocation /\ \A i \in Invocation : call'[i] \in {"new", "done"}
        /\ UNCHANGED <<registry, checkpoints, executions, granted, ran, returned>>
    BY <1>1 DEF RunbookCrash
  <2>2. InvocationInv'
    BY <2>1 DEF InvocationInv
  <2>3. \A j \in Invocation : Digest(j)' = Digest(j)
    BY <2>1 DEF Digest, ManifestOf
  <2> QED  BY <2>1, <2>2, <2>3, PlaceStep DEF RunbookInv, RanInv
<1>2. CASE UNCHANGED runbookVars
  <2>1. UNCHANGED <<registry, checkpoints, executions, call, granted, ran, returned>>
    BY <1>2 DEF runbookVars
  <2>2. \A j \in Invocation : Digest(j)' = Digest(j) /\ Checked(j)' = Checked(j)
                              /\ HasGrant(j)' = HasGrant(j)
    BY <2>1 DEF Digest, ManifestOf, Checked, HasGrant, Known
  <2>3. InvocationInv'
    BY <2>1, <2>2 DEF RunbookInv, InvocationInv
  <2> QED  BY <2>1, <2>2, <2>3, PlaceStep DEF RunbookInv, RanInv
<1> QED  BY <1>1, <1>2, RegistryStep, InvocationStep DEF RunbookNext

\* The invariant of the runbooks holds at the start and gives the property.
LEMMA RunbookStart == RunbookInit => RunbookInv
<1> SUFFICES ASSUME RunbookInit PROVE RunbookInv
  OBVIOUS
<1>1. RegistryInv /\ InvocationInv
  BY RunbookAssumption DEF RunbookInit, RegistryInv, InvocationInv
<1>2. RanInv /\ KeptInv
  BY DEF RunbookInit, RanInv, KeptInv
<1> QED  BY <1>1, <1>2 DEF RunbookInv

\* What the invariant says of keys and of approvals.
LEMMA RunbookFollows == RunbookInv => RunbooksHold
<1> SUFFICES ASSUME RunbookInv PROVE RunbooksHold
  OBVIOUS
<1>1. KeyRunsOnce
  BY DEF RunbookInv, RanInv, KeptInv, RanAs, KeyRunsOnce
<1>2. ASSUME NEW r \in ran, registry[r.digest.manifest.version].checked,
             r.digest.manifest.policy # "READ_ONLY"
      PROVE  r.digest \in granted
  BY <1>2 DEF RunbookInv, RanInv, RanFits, RegistryInv, RowFits, Covered
<1>3. MutationsApproved
  BY <1>2 DEF RunbookInv, RanInv, RanFits, NeedsApproval, MutationsApproved
<1> QED  BY <1>1, <1>3 DEF RunbooksHold

\* RunbookEngine.invoke: attempts that overlap, repeat, change their arguments or are
\* cut off by a crash run the plan of a key at most once, a recorded answer is of that
\* plan, and no plan runs without the approval its manifest asks for. A validated
\* manifest asks for it unless it declares itself READ_ONLY; what its nodes do is not
\* looked at.
THEOREM Runbooks == V2Spec => []RunbooksHold
<1>1. V2Init => RunbookInv
  BY RunbookStart DEF V2Init
<1>2. [V2Next]_v2Vars => [RunbookNext]_runbookVars
  <2>1. V2Next => RunbookNext \/ UNCHANGED runbookVars
    BY DEF V2Next, StoreLane, MergeLane, MintLane, WriteLane, ReadLane, BatchLane, PlanLane,
       RunbookLane, HybridLane, CallLane, DomainsLane, ActivationLane
  <2>2. UNCHANGED v2Vars => UNCHANGED runbookVars
    BY DEF v2Vars
  <2> QED  BY <2>1, <2>2
<1>3. RunbookInv /\ [V2Next]_v2Vars => RunbookInv'
  BY <1>2, RunbookKept
<1> QED  BY <1>1, <1>3, RunbookFollows, PTL DEF V2Spec

-----------------------------------------------------------------------------
(* Merges over the idempotency store                                       *)

\* _resolve by a merge that may have been overtaken is a call of the store, or none.
LEMMA SettleIsCall ==
    ASSUME NEW k \in Key, NEW o \in {"COMMITTED", "FAILED_CLEAN", "AMBIGUOUS"}, Settle(k, o), now' = now
    PROVE  [Next]_vars
<1>1. CASE Pending(k)
  BY <1>1 DEF Settle, Next, Call, Commit, FailClean, MarkAmbiguous
<1>2. CASE ~Pending(k)
  BY <1>2 DEF Settle, storeVars, vars
<1> QED  BY <1>1, <1>2

\* Every step of a merge is a step of the store or leaves it alone.
LEMMA MergeUsesStore == ASSUME MergeNext PROVE [Next]_vars
<1>1. ASSUME NEW a \in Attempt, BeginMerge(a) PROVE [Next]_vars
  <2>1. Pin[a] \in Key
    BY MergeAssumption
  <2> QED  BY <1>1, <2>1 DEF BeginMerge, Next, Call, Begin
<1>2. ASSUME NEW a \in Attempt,
             \/ DenyObserved(a) \/ ObserveLost(a) \/ NoIntent(a) \/ PutTimesOut(a) \/ ReadBack(a)
             \/ ReadBackFails(a)
      PROVE [Next]_vars
  <2>1. Pin[a] \in Key /\ now' = now
    BY <1>2, MergeAssumption DEF DenyObserved, ObserveLost, NoIntent, PutTimesOut, ReadBack, ReadBackFails
  <2>2. \E o \in {"COMMITTED", "FAILED_CLEAN", "AMBIGUOUS"} : Settle(Pin[a], o)
    BY <1>2 DEF DenyObserved, ObserveLost, NoIntent, PutTimesOut, ReadBack, ReadBackFails,
       FinishAmbiguous
  <2> QED  BY <2>1, <2>2, SettleIsCall
<1>3. ASSUME NEW a \in Attempt, PutAnswered(a) PROVE [Next]_vars
  <2>1. Pin[a] \in Key /\ now' = now
    BY <1>3, MergeAssumption DEF PutAnswered
  <2>2. \/ UNCHANGED storeVars
        \/ \E o \in {"COMMITTED", "FAILED_CLEAN", "AMBIGUOUS"} : Settle(Pin[a], o)
    <3>1. Classify(reply[a]) \in {"ok", "clean", "unknown"}
      BY DEF Classify
    <3>2. CASE Classify(reply[a]) = "ok"
      BY <1>3, <3>2 DEF PutAnswered
    <3>3. CASE Classify(reply[a]) = "clean"
      BY <1>3, <3>3 DEF PutAnswered
    <3>4. CASE Classify(reply[a]) = "unknown"
      BY <1>3, <3>4 DEF PutAnswered, FinishAmbiguous
    <3> QED  BY <3>1, <3>2, <3>3, <3>4
  <2> QED  BY <2>1, <2>2, SettleIsCall DEF storeVars, vars
<1>4. ASSUME \/ \E a \in Attempt : \/ DenyMerge(a) \/ SendPut(a) \/ GitHubActs(a)
                                   \/ \E o \in Observed : Clear(a, o)
             \/ \E sha \in Key : Push(sha)
      PROVE [Next]_vars
  BY <1>4 DEF DenyMerge, SendPut, GitHubActs, Clear, Push, vars
<1>5. CASE MergeTick
  BY <1>5 DEF MergeTick, Next
<1> QED  BY <1>1, <1>2, <1>3, <1>4, <1>5 DEF MergeNext

\* The merges of a pull request use the store as any callers may, so what is proved of
\* the store holds of it: one unresolved merge at a time, and the record lifecycle.
THEOREM MergesUseStore == V2Spec => Spec
<1>1. V2Init => Init
  BY DEF V2Init
<1>2. [V2Next]_v2Vars => [Next]_vars
  <2>1. V2Next => Next \/ MergeNext \/ UNCHANGED vars
    BY DEF V2Next, StoreLane, MergeLane, MintLane, WriteLane, ReadLane, BatchLane, PlanLane,
       RunbookLane, HybridLane, CallLane, DomainsLane, ActivationLane, DirectNext, readVars
  <2>2. UNCHANGED v2Vars => UNCHANGED vars
    BY DEF v2Vars
  <2> QED  BY <2>1, <2>2, MergeUsesStore
<1> QED  BY <1>1, <1>2, PTL DEF V2Spec, Spec

\* An attempt that may write consumed an approval that is bound to the head it pins.
Approved(a) == MergeGrant[a] \in spent /\ GrantPin[MergeGrant[a]] = Pin[a]

\* What is known of one attempt: before its PUT nothing is at GitHub, and what it told
\* its caller and its ledger is true of its PUT.
AttemptInv(a) ==
    /\ at[a] \in {"new", "claimed", "cleared"} => put[a] = "none" /\ intent[a] = "ABSENT"
    /\ at[a] # "done" => told[a] = "nothing"
    /\ at[a] \in {"claimed", "cleared", "sent", "accepted"} \/ put[a] # "none" => Approved(a)
    /\ put[a] # "none" => intent[a] # "ABSENT"
    /\ Classify(reply[a]) = "clean" => put[a] = "refused"
    /\ told[a] \in {"denied", "refused"} \/ intent[a] = "FAILED_CLEAN" => put[a] \in {"none", "refused"}
    /\ told[a] = "merged" \/ intent[a] = "COMMITTED" => merged = Pin[a]

\* What is known of the pull request: its head stays what was merged, one of the
\* attempts pinned it, and a record is COMMITTED for no other head.
PullInv ==
    /\ merged # NoSha => head = merged /\ \E a \in Attempt : put[a] = "merged" /\ Pin[a] = merged
    /\ \A k \in Key : records[k].outcome = "COMMITTED" => merged = k

\* The attempts, and the pull request they are about.
MergeInv ==
    /\ MergeTypeOK /\ DOMAIN reply = Attempt /\ PullInv
    /\ \A a \in Attempt : AttemptInv(a)

\* No call of the store but commit makes a record COMMITTED.
CommitsOnly(S) ==
    \A k \in Key : records'[k].outcome = "COMMITTED" => records[k].outcome = "COMMITTED" \/ k \in S

\* Settling a record commits at most that record.
LEMMA SettleCommits ==
    ASSUME StoreInv, NEW k \in Key, NEW o \in Outcome, Settle(k, o)
    PROVE  CommitsOnly(IF o = "COMMITTED" THEN {k} ELSE {})
<1>1. CASE Pending(k)
  <2>1. PICK r : r = Resolved(o) /\ records' = [records EXCEPT ![k] = r]
    BY <1>1 DEF Settle, Resolve
  <2>2. r.outcome = o
    BY <2>1 DEF Resolved
  <2>3. /\ records'[k] = r /\ \A j \in Key : j # k => records'[j] = records[j]
    BY <2>1 DEF StoreInv, TypeOK
  <2> QED  BY <2>2, <2>3 DEF CommitsOnly
<1>2. CASE ~Pending(k)
  BY <1>2 DEF Settle, storeVars, CommitsOnly
<1> QED  BY <1>1, <1>2

\* begin makes no record COMMITTED.
LEMMA BeginCommits == ASSUME StoreInv, NEW k \in Key, Begin(k) PROVE CommitsOnly({})
<1>1. CASE BeginRefused(k)
  BY <1>1 DEF BeginRefused, CommitsOnly
<1>2. CASE ~BeginRefused(k)
  <2>1. \E j \in Key : \E r : r.outcome # "COMMITTED" /\ records' = [records EXCEPT ![j] = r]
    <3>1. CASE BeginNew(k)
      <4>1. PICK r : r = [outcome |-> "PENDING", updated_at |-> now, lease |-> now + LeaseTime]
        OBVIOUS
      <4>2. r.outcome = "PENDING" /\ records' = [records EXCEPT ![k] = r]
        BY <3>1, <4>1 DEF BeginNew
      <4> QED  BY <4>2
    <3>2. PICK r : r = Resolved("AMBIGUOUS")
      OBVIOUS
    <3>3. r.outcome = "AMBIGUOUS"
      BY <3>2 DEF Resolved
    <3>4. CASE BeginLeaseLost(k)
      BY <3>2, <3>3, <3>4 DEF BeginLeaseLost
    <3>5. CASE BeginHolderLost(k)
      <4>1. ContendingHolder(k) # NoKey
        BY <3>5 DEF BeginHolderLost, BeginDecision
      <4>2. ContendingHolder(k) \in Key
        BY <4>1, HolderIsPending DEF StoreInv
      <4> QED  BY <3>2, <3>3, <3>5, <4>2 DEF BeginHolderLost
    <3> QED  BY <1>2, <3>1, <3>4, <3>5 DEF Begin
  <2>2. PICK j \in Key : \E r : r.outcome # "COMMITTED" /\ records' = [records EXCEPT ![j] = r]
    BY <2>1
  <2>3. PICK r : r.outcome # "COMMITTED" /\ records' = [records EXCEPT ![j] = r]
    BY <2>2
  <2>4. records'[j] = r /\ \A l \in Key : l # j => records'[l] = records[l]
    BY <2>3 DEF StoreInv, TypeOK
  <2> QED  BY <2>3, <2>4 DEF CommitsOnly
<1> QED  BY <1>1, <1>2

\* A step of one attempt leaves the others alone.
Alone(a) ==
    /\ \A b \in Attempt : b # a =>
        /\ at'[b] = at[b] /\ told'[b] = told[b] /\ intent'[b] = intent[b]
        /\ put'[b] = put[b] /\ reply'[b] = reply[b]
    /\ spent \subseteq spent' /\ merged' \in {merged, IF merged = NoSha THEN head ELSE merged}
    /\ head' = head

\* A step of one attempt that leaves the others where they are keeps what is known of them.
LEMMA AttemptMoves ==
    ASSUME MergeInv, NEW a \in Attempt, Alone(a), MergeTypeOK', DOMAIN reply' = Attempt,
           AttemptInv(a)', PullInv'
    PROVE  MergeInv'
<1>1. ASSUME NEW b \in Attempt, b # a PROVE AttemptInv(b)'
  <2>1. Pin[b] \in Key /\ NoSha \notin Key
    BY MergeAssumption
  <2>2. AttemptInv(b)
    BY DEF MergeInv
  <2>3. /\ at'[b] = at[b] /\ told'[b] = told[b] /\ intent'[b] = intent[b]
        /\ put'[b] = put[b] /\ reply'[b] = reply[b]
    BY <1>1 DEF Alone
  <2>4. Approved(b) => Approved(b)'
    BY DEF Approved, Alone
  <2>5. Classify(reply[b])' = Classify(reply[b])
    BY <2>3 DEF Classify
  <2>6. merged = Pin[b] => merged' = Pin[b]
    BY <2>1 DEF Alone
  <2> QED  BY <2>2, <2>3, <2>4, <2>5, <2>6 DEF AttemptInv
<1> QED  BY <1>1 DEF MergeInv

\* The pull request when nothing is merged or pushed and no other head is committed.
LEMMA PullStays ==
    ASSUME MergeInv, UNCHANGED <<head, merged>>, CommitsOnly({merged}),
           \A a \in Attempt : put[a] = "merged" => put'[a] = "merged"
    PROVE  PullInv'
  BY DEF MergeInv, PullInv, CommitsOnly

\* An attempt that ends before its PUT: nothing of it is at GitHub.
LEMMA EndsUnsent ==
    ASSUME MergeInv, NEW a \in Attempt, at[a] \in {"new", "claimed", "cleared"},
           NEW what \in {"denied", "replayed", "unknown"}, Tell(a, what), CommitsOnly({}),
           UNCHANGED <<intent, put, reply, head, merged>>, spent \subseteq spent'
    PROVE  MergeInv'
<1>1. /\ at'[a] = "done" /\ told'[a] = what
      /\ \A b \in Attempt : b # a => at'[b] = at[b] /\ told'[b] = told[b]
      /\ MergeTypeOK'
  BY DEF Tell, MergeInv, MergeTypeOK
<1>2. Alone(a)
  BY <1>1 DEF Alone
<1>3. put'[a] = "none" /\ intent'[a] = "ABSENT" /\ AttemptInv(a)
  BY DEF MergeInv, AttemptInv
<1>4. Classify(reply[a])' = Classify(reply[a])
  BY DEF Classify
<1>5. AttemptInv(a)'
  BY <1>1, <1>3, <1>4 DEF AttemptInv
<1>6. PullInv'
  BY PullStays DEF CommitsOnly
<1> QED  BY <1>1, <1>2, <1>5, <1>6, AttemptMoves DEF MergeInv

\* An attempt that ends after its PUT, with what its ledger and its caller learn.
LEMMA EndsSent ==
    ASSUME MergeInv, NEW a \in Attempt, at[a] \in {"sent", "accepted"},
           NEW what \in {"refused", "unknown", "merged"},
           NEW o \in {"COMMITTED", "FAILED_CLEAN", "AMBIGUOUS"},
           Tell(a, what), intent' = [intent EXCEPT ![a] = o], CommitsOnly({merged}),
           UNCHANGED <<put, reply, spent, head, merged>>,
           what = "refused" \/ o = "FAILED_CLEAN" => put[a] = "refused",
           what = "merged" \/ o = "COMMITTED" => merged = Pin[a]
    PROVE  MergeInv'
<1>1. /\ at'[a] = "done" /\ told'[a] = what /\ intent'[a] = o
      /\ \A b \in Attempt : b # a => at'[b] = at[b] /\ told'[b] = told[b] /\ intent'[b] = intent[b]
      /\ MergeTypeOK'
  BY DEF Tell, MergeInv, MergeTypeOK, Outcome
<1>2. Alone(a)
  BY <1>1 DEF Alone
<1>3. AttemptInv(a) /\ Approved(a)' = Approved(a) /\ Classify(reply[a])' = Classify(reply[a])
  BY DEF MergeInv, Approved, Classify
<1>4. AttemptInv(a)'
  BY <1>1, <1>3 DEF AttemptInv
<1>5. PullInv'
  BY PullStays
<1> QED  BY <1>1, <1>2, <1>4, <1>5, AttemptMoves DEF MergeInv

\* An attempt that moves on.
LEMMA MovesOn ==
    ASSUME MergeInv, NEW a \in Attempt, at[a] # "done",
           NEW place \in {"claimed", "cleared", "accepted"}, at' = [at EXCEPT ![a] = place],
           UNCHANGED <<told, intent, put, reply, head, merged>>, spent \subseteq spent',
           Approved(a)', CommitsOnly({}),
           place \in {"claimed", "cleared"} => at[a] \in {"new", "claimed"}
    PROVE  MergeInv'
<1>1. /\ at'[a] = place /\ \A b \in Attempt : b # a => at'[b] = at[b]
      /\ MergeTypeOK'
  BY DEF MergeInv, MergeTypeOK
<1>2. Alone(a)
  BY <1>1 DEF Alone
<1>3. AttemptInv(a) /\ Classify(reply[a])' = Classify(reply[a])
  BY DEF MergeInv, Classify
<1>4. AttemptInv(a)'
  BY <1>1, <1>3 DEF AttemptInv
<1>5. PullInv'
  BY PullStays DEF CommitsOnly
<1> QED  BY <1>1, <1>2, <1>4, <1>5, AttemptMoves DEF MergeInv

\* The PUT goes out, with its intent in the ledger.
LEMMA PutLeaves == ASSUME MergeInv, NEW a \in Attempt, SendPut(a) PROVE MergeInv'
<1>1. /\ at'[a] = "sent" /\ intent'[a] = "PENDING" /\ put'[a] = "flying"
      /\ \A b \in Attempt : b # a => at'[b] = at[b] /\ put'[b] = put[b] /\ intent'[b] = intent[b]
      /\ MergeTypeOK' /\ UNCHANGED <<records, told, reply, spent, head, merged>>
  BY DEF SendPut, MergeInv, MergeTypeOK, Outcome
<1>2. Alone(a)
  BY <1>1 DEF Alone
<1>3. AttemptInv(a) /\ at[a] = "cleared" /\ Approved(a)' = Approved(a)
      /\ Classify(reply[a])' = Classify(reply[a])
  BY <1>1 DEF SendPut, MergeInv, Approved, Classify
<1>4. AttemptInv(a)'
  BY <1>1, <1>3 DEF AttemptInv
<1>5. PullInv'
  BY <1>1, <1>3, PullStays DEF CommitsOnly, AttemptInv
<1> QED  BY <1>1, <1>2, <1>4, <1>5, AttemptMoves DEF MergeInv

\* GitHub takes the PUT: it merges the pinned head, or nothing.
LEMMA PutArrives == ASSUME MergeInv, NEW a \in Attempt, GitHubActs(a) PROVE MergeInv'
<1>0. /\ put[a] = "flying" /\ AttemptInv(a) /\ head \in Key /\ NoSha \notin Key
      /\ UNCHANGED <<records, at, told, intent, spent, head>>
  BY MergeAssumption DEF GitHubActs, MergeInv, MergeTypeOK
<1>1. PICK s \in {200, 405, 409, 502}, p \in {"merged", "refused"} :
        /\ put' = [put EXCEPT ![a] = p] /\ reply' = [reply EXCEPT ![a] = s]
        /\ p = "merged" => merged = NoSha /\ Pin[a] = head /\ merged' = head /\ s \in {200, 502}
        /\ p = "refused" => merged' = merged
  BY DEF GitHubActs, BodySha
<1>2. /\ put'[a] = p /\ reply'[a] = s /\ DOMAIN reply' = Attempt
      /\ \A b \in Attempt : b # a => put'[b] = put[b] /\ reply'[b] = reply[b]
      /\ MergeTypeOK'
  BY <1>0, <1>1 DEF MergeInv, MergeTypeOK
<1>3. Alone(a)
  BY <1>0, <1>1, <1>2 DEF Alone
<1>4. Classify(reply[a])' = "clean" => p = "refused"
  BY <1>1, <1>2 DEF Classify
<1>5. Approved(a)' = Approved(a)
  BY <1>0 DEF Approved
<1>6. AttemptInv(a)'
  BY <1>0, <1>1, <1>2, <1>4, <1>5 DEF AttemptInv
<1>7. PullInv'
  <2>1. CASE p = "merged"
    BY <1>0, <1>1, <1>2, <2>1 DEF MergeInv, PullInv
  <2>2. CASE p = "refused"
    BY <1>0, <1>1, <1>2, <2>2, PullStays DEF CommitsOnly
  <2> QED  BY <2>1, <2>2
<1> QED  BY <1>2, <1>3, <1>6, <1>7, AttemptMoves

\* Every step of the merges keeps their invariant.
LEMMA MergeKept == ASSUME MergeInv, StoreInv, MergeNext PROVE MergeInv'
<1>1. ASSUME NEW a \in Attempt PROVE Pin[a] \in Key /\ AttemptInv(a)
  BY MergeAssumption DEF MergeInv
<1>2. ASSUME NEW a \in Attempt, DenyMerge(a) PROVE MergeInv'
  BY <1>2, EndsUnsent DEF DenyMerge, CommitsOnly
<1>3. ASSUME NEW a \in Attempt, BeginMerge(a) PROVE MergeInv'
  <2>1. /\ at[a] = "new" /\ spent \subseteq spent' /\ Approved(a)'
        /\ UNCHANGED <<intent, put, reply, head, merged>>
    BY <1>3 DEF BeginMerge, Approved
  <2>2. CommitsOnly({})
    BY <1>1, <1>3, BeginCommits DEF BeginMerge, Begin
  <2>3. CASE at' = [at EXCEPT ![a] = "claimed"] /\ UNCHANGED told
    BY <2>1, <2>2, <2>3, MovesOn
  <2>4. CASE \E what \in {"denied", "replayed", "unknown"} : Tell(a, what)
    BY <2>1, <2>2, <2>4, EndsUnsent
  <2> QED  BY <1>3, <2>3, <2>4 DEF BeginMerge
<1>4. ASSUME NEW a \in Attempt, DenyObserved(a) \/ ObserveLost(a) \/ NoIntent(a) PROVE MergeInv'
  <2>1. /\ at[a] \in {"claimed", "cleared"} /\ UNCHANGED <<intent, put, reply, spent, head, merged>>
        /\ \E what \in {"denied", "unknown"} : Tell(a, what)
        /\ \E o \in {"FAILED_CLEAN", "AMBIGUOUS"} : Settle(Pin[a], o)
    BY <1>4 DEF DenyObserved, ObserveLost, NoIntent
  <2>2. CommitsOnly({})
    BY <1>1, <2>1, SettleCommits DEF Outcome
  <2> QED  BY <2>1, <2>2, EndsUnsent
<1>5. ASSUME NEW a \in Attempt, NEW o \in Observed, Clear(a, o) PROVE MergeInv'
  <2>1. Approved(a)' /\ CommitsOnly({})
    BY <1>1, <1>5 DEF Clear, AttemptInv, Approved, CommitsOnly
  <2> QED  BY <1>5, <2>1, MovesOn DEF Clear
<1>6. ASSUME NEW a \in Attempt, at[a] \in {"sent", "accepted"}, FinishAmbiguous(a),
             UNCHANGED <<put, reply, spent, head, merged>>
      PROVE  MergeInv'
  <2>1. CommitsOnly({})
    BY <1>1, <1>6, SettleCommits DEF FinishAmbiguous, Outcome
  <2>2. CommitsOnly({merged})
    BY <2>1 DEF CommitsOnly
  <2> QED  BY <1>6, <2>2, EndsSent DEF FinishAmbiguous
<1>7. ASSUME NEW a \in Attempt, PutAnswered(a) PROVE MergeInv'
  <2>1. at[a] = "sent" /\ UNCHANGED <<put, reply, spent, head, merged>>
    BY <1>7 DEF PutAnswered
  <2>2. Classify(reply[a]) \in {"ok", "clean", "unknown"}
    BY DEF Classify
  <2>3. CASE Classify(reply[a]) = "ok"
    <3>1. at' = [at EXCEPT ![a] = "accepted"] /\ UNCHANGED <<storeVars, told, intent>>
      BY <1>7, <2>3 DEF PutAnswered
    <3>2. Approved(a)' /\ CommitsOnly({})
      BY <1>1, <2>1, <3>1 DEF AttemptInv, Approved, CommitsOnly, storeVars
    <3> QED  BY <2>1, <3>1, <3>2, MovesOn
  <2>4. CASE Classify(reply[a]) = "clean"
    <3>1. /\ intent' = [intent EXCEPT ![a] = "FAILED_CLEAN"]
          /\ Settle(Pin[a], "FAILED_CLEAN") /\ Tell(a, "refused")
      BY <1>7, <2>4 DEF PutAnswered
    <3>2. CommitsOnly({})
      BY <1>1, <3>1, SettleCommits DEF Outcome
    <3>3. CommitsOnly({merged}) /\ put[a] = "refused"
      BY <1>1, <2>4, <3>2 DEF CommitsOnly, AttemptInv
    <3> QED  BY <2>1, <3>1, <3>3, EndsSent
  <2>5. CASE Classify(reply[a]) = "unknown"
    <3>1. FinishAmbiguous(a)
      BY <1>7, <2>5 DEF PutAnswered
    <3> QED  BY <1>6, <2>1, <3>1
  <2> QED  BY <2>2, <2>3, <2>4, <2>5
<1>8. ASSUME NEW a \in Attempt, ReadBack(a) PROVE MergeInv'
  <2>1. /\ at[a] = "accepted" /\ merged = Pin[a] /\ intent' = [intent EXCEPT ![a] = "COMMITTED"]
        /\ UNCHANGED <<put, reply, spent, head, merged>> /\ Settle(Pin[a], "COMMITTED")
        /\ \E what \in {"merged", "unknown"} : Tell(a, what)
    BY <1>8 DEF ReadBack, MergeInv, PullInv
  <2>2. CommitsOnly({merged})
    BY <1>1, <2>1, SettleCommits DEF Outcome
  <2> QED  BY <2>1, <2>2, EndsSent
<1>9. ASSUME NEW sha \in Key, Push(sha) PROVE MergeInv'
  <2>1. merged = NoSha /\ head' \in Key /\ UNCHANGED <<records, at, told, intent, put, reply, spent, merged>>
    BY <1>9 DEF Push, callVars
  <2>2. MergeTypeOK' /\ PullInv' /\ DOMAIN reply' = Attempt
    BY <2>1 DEF MergeInv, MergeTypeOK, PullInv
  <2>3. ASSUME NEW a \in Attempt PROVE AttemptInv(a)'
    BY <1>1, <2>1 DEF AttemptInv, Approved, Classify
  <2> QED  BY <2>2, <2>3 DEF MergeInv
<1>10. CASE MergeTick
  <2>1. UNCHANGED <<records, at, told, intent, put, reply, spent, head, merged>>
    BY <1>10 DEF MergeTick, Tick, storeVars, mergeVars, callVars
  <2>2. MergeTypeOK' /\ PullInv' /\ DOMAIN reply' = Attempt
    BY <2>1 DEF MergeInv, MergeTypeOK, PullInv
  <2>3. ASSUME NEW a \in Attempt PROVE AttemptInv(a)'
    BY <1>1, <2>1 DEF AttemptInv, Approved, Classify
  <2> QED  BY <2>2, <2>3 DEF MergeInv
<1>11. ASSUME NEW a \in Attempt, PutTimesOut(a) \/ ReadBackFails(a) PROVE MergeInv'
  BY <1>6, <1>11 DEF PutTimesOut, ReadBackFails
<1> QED  BY <1>2, <1>3, <1>4, <1>5, <1>7, <1>8, <1>9, <1>10, <1>11, PutLeaves, PutArrives DEF MergeNext

\* GovernedMergeExecutor.execute: however attempts interleave with one another, with
\* pushes, lost responses and expired leases, the head that is merged is one whose
\* approval was consumed and whose intent is in the ledger, and what the ledger, the
\* store and the callers are told of a merge is true.
THEOREM Merges == V2Spec => []MergesHold
<1> DEFINE Inv == StoreInv /\ MergeTypeOK /\ (lane = "merge" => MergeInv)
<1>1. V2Init => Inv
  <2>1. MergeInit => MergeInv \/ records # [k \in Key |-> AbsentRecord]
    <3> SUFFICES ASSUME MergeInit, records = [k \in Key |-> AbsentRecord] PROVE MergeInv
      OBVIOUS
    <3>1. MergeTypeOK /\ DOMAIN reply = Attempt
      BY DEF MergeInit, MergeTypeOK, Outcome
    <3>2. PullInv
      BY DEF MergeInit, PullInv, AbsentRecord
    <3>3. \A a \in Attempt : AttemptInv(a)
      BY DEF MergeInit, AttemptInv, Classify
    <3> QED  BY <3>1, <3>2, <3>3 DEF MergeInv
  <2>2. V2Init => MergeInv /\ StoreInv
    BY <2>1, InitInv DEF V2Init, Init
  <2> QED  BY <2>2 DEF MergeInv
<1>2. Inv /\ [V2Next]_v2Vars => Inv'
  <2> SUFFICES ASSUME Inv, [V2Next]_v2Vars PROVE Inv'
    OBVIOUS
  <2>1. lane' = lane /\ [Next]_vars
    <3>1. V2Next => Next \/ MergeNext \/ UNCHANGED vars
      BY DEF V2Next, StoreLane, MergeLane, MintLane, WriteLane, ReadLane, BatchLane, PlanLane,
         RunbookLane, HybridLane, CallLane, DomainsLane, ActivationLane, DirectNext, readVars
    <3>2. UNCHANGED v2Vars => UNCHANGED <<lane, vars>>
      BY DEF v2Vars
    <3> QED  BY <3>1, <3>2, MergeUsesStore DEF V2Next
  <2>2. StoreInv'
    BY <2>1, NextKeepsInv
  <2>3. CASE lane = "merge" /\ V2Next
    BY <2>1, <2>2, <2>3, MergeKept DEF V2Next, MergeLane, MergeInv
  <2>4. CASE lane # "merge" /\ V2Next
    <3>1. UNCHANGED mergeVars
      BY <2>4 DEF V2Next, StoreLane, MintLane, WriteLane, ReadLane, BatchLane, PlanLane,
         RunbookLane, HybridLane, CallLane, DomainsLane, ActivationLane
    <3> QED  BY <2>1, <2>2, <2>4, <3>1 DEF mergeVars, callVars, MergeTypeOK
  <2>5. CASE UNCHANGED v2Vars
    <3>1. UNCHANGED <<records, at, told, intent, put, reply, spent, head, merged>>
      BY <2>5 DEF v2Vars, vars, mergeVars, callVars
    <3>2. MergeTypeOK'
      BY <3>1 DEF MergeTypeOK
    <3>3. MergeInv => MergeInv'
      BY <3>1, <3>2 DEF MergeInv, PullInv, AttemptInv, Approved, Classify
    <3> QED  BY <2>1, <2>2, <3>2, <3>3
  <2> QED  BY <2>3, <2>4, <2>5
<1>3. Inv => MergesHold
  <2>1. MergeInv => MergedIsApproved
    BY DEF MergeInv, PullInv, AttemptInv, Approved, MergedIsApproved
  <2>2. MergeInv => MergeReportIsTrue
    BY DEF MergeInv, PullInv, AttemptInv, MergeReportIsTrue
  <2> QED  BY <2>1, <2>2 DEF MergesHold
<1> QED  BY <1>1, <1>2, <1>3, PTL DEF V2Spec

-----------------------------------------------------------------------------
(* Calls of the mutation executor                                          *)

\* What a call keeps of itself.
CallFields == {"at", "op", "write", "status", "number", "evidence", "seen", "seenAt"}

\* With takes the new fields, and the old ones where there is no new one.
LEMMA WithFields ==
    ASSUME NEW e, NEW changes
    PROVE  /\ DOMAIN With(e, changes) = DOMAIN e \cup DOMAIN changes
           /\ \A f \in DOMAIN changes : With(e, changes)[f] = changes[f]
           /\ \A f \in DOMAIN e \ DOMAIN changes : With(e, changes)[f] = e[f]
  BY DEF With

\* A step of one call changes the fields it names and no other call.
LEMMA CallChanges ==
    ASSUME DOMAIN execution = Caller, NEW c \in Caller, DOMAIN execution[c] = CallFields,
           NEW changes, DOMAIN changes \subseteq CallFields, CallGoes(c, changes)
    PROVE  /\ DOMAIN execution' = Caller /\ DOMAIN execution'[c] = CallFields
           /\ \A f \in DOMAIN changes : execution'[c][f] = changes[f]
           /\ \A f \in CallFields \ DOMAIN changes : execution'[c][f] = execution[c][f]
           /\ \A d \in Caller : d # c => execution'[d] = execution[d]
<1>1. PICK e, new : e = execution[c] /\ new = With(e, changes)
  OBVIOUS
<1>2. execution' = [execution EXCEPT ![c] = new]
  BY <1>1 DEF CallGoes
<1>3. /\ DOMAIN With(e, changes) = DOMAIN e \cup DOMAIN changes
      /\ \A f \in DOMAIN changes : With(e, changes)[f] = changes[f]
      /\ \A f \in DOMAIN e \ DOMAIN changes : With(e, changes)[f] = e[f]
  BY WithFields, Zenon
<1>4. DOMAIN new = CallFields
  BY <1>1, <1>3
<1>5. /\ \A f \in DOMAIN changes : new[f] = changes[f]
      /\ \A f \in CallFields \ DOMAIN changes : new[f] = execution[c][f]
  BY <1>1, <1>3
<1> QED  BY <1>2, <1>4, <1>5

\* An operation that was asked for and normalised.
OperationFits(op) ==
    /\ op # NoOperation /\ op.repo \in InScope
    /\ op.tool \in {"create_branch", "create_pr"} /\ op.target \in RefName /\ op.sha \in CommitId
    /\ op.tool = "create_pr" => op.base \in RefName /\ op.draft \in {"yes", "no"}

\* An operation that was normalized without a complaint has the fields of its tool.
LEMMA AskedFits ==
    ASSUME NEW c \in Caller, NEW op, op = OperationAsked(c), op.ok PROVE OperationFits(op)
<1>1. op # NoOperation
  BY DEF NoOperation
<1>2. PICK tool \in {"create_branch", "create_pr"} :
        op = Normalize(tool, Asked[c].args) /\ op.repo \in InScope
  BY <1>1 DEF OperationAsked
<1>3. CASE op = NormalizeCreatePr(Asked[c].args)
  <2>1. PICK args, draft, body : /\ args = Asked[c].args
                                 /\ draft = Given(args, "draft", "yes")
                                 /\ body = Given(args, "body", "blank")
    OBVIOUS
  <2>2. /\ op = [ok |-> TRUE, tool |-> "create_pr", repo |-> <<args["owner"], args["repo"]>>,
                 target |-> args["head"], sha |-> args["expected_head_sha"], base |-> args["base"],
                 draft |-> draft, body |-> body]
        /\ args["head"] \in RefName /\ args["base"] \in RefName /\ draft \in {"yes", "no"}
        /\ args["expected_head_sha"] \in CommitId
    BY <1>1, <1>3, <2>1 DEF NormalizeCreatePr
  <2> QED  BY <1>1, <1>2, <2>2 DEF OperationFits
<1>4. CASE op = NormalizeCreateBranch(Asked[c].args)
  BY <1>1, <1>2, <1>4 DEF NormalizeCreateBranch, OperationFits
<1> QED  BY <1>2, <1>3, <1>4 DEF Normalize

\* A call that is under way, one whose write may be at GitHub, and one that was
\* admitted.
Going(c) == execution[c].at \in {"revalidating", "awaiting", "reading_back", "read"}
Out(c) == execution[c].write \in {"sent", "applied"}
Claimed(c) == execution[c].op # NoOperation
HasKept(c, outcomes) == CallKey(c) \in DOMAIN kept /\ kept[CallKey(c)] \in outcomes

\* One call: it carries the approved operation, holds its key while it is under way,
\* and what became of its write agrees with its key and with the pull request it made.
CallRowInv(c) ==
    /\ DOMAIN execution[c] = CallFields
    /\ execution[c].at \in {"new", "revalidating", "awaiting", "reading_back", "read"} \cup CallEnded
    /\ execution[c].write \in {"none", "sent", "applied", "refused"}
    /\ Claimed(c) => /\ OperationFits(execution[c].op) /\ Asked[c].grant \in consumed
                     /\ execution[c].op = Grants[Asked[c].grant].op
    /\ execution[c].at = "new" => ~Claimed(c)
    /\ Going(c) \/ execution[c].write # "none" => Claimed(c)
    /\ execution[c].at = "revalidating" => execution[c].write = "none"
    /\ execution[c].at \in {"reading_back", "read", "committed"} => execution[c].write = "applied"
    /\ execution[c].evidence = "FAILED" => execution[c].write = "refused"
    /\ Going(c) => HasKept(c, {"PENDING"})
    /\ execution[c].at = "committed" => HasKept(c, {"COMMITTED"})
    /\ Out(c) => HasKept(c, {"PENDING", "COMMITTED", "AMBIGUOUS"})
    /\ execution[c].write = "applied" /\ execution[c].op.tool = "create_pr" =>
        LET i == execution[c].number IN
        /\ i \in DOMAIN pulls /\ pulls[i].head = execution[c].op.target
        /\ pulls[i].base = execution[c].op.base /\ pulls[i].draft = execution[c].op.draft

\* Two calls: an approval is used by one, and a key that one is using belongs to no
\* other call that is under way or has a write out.
CallPairInv(c, d) ==
    /\ Claimed(c) /\ Claimed(d) => Asked[c].grant # Asked[d].grant
    /\ Going(c) /\ (Going(d) \/ Out(d)) => CallKey(d) # CallKey(c)

\* A pull request at GitHub.
PullRow == [head : RefName, base : RefName, draft : {"yes", "no"}, open : BOOLEAN]

WorldInv ==
    /\ DOMAIN execution = Caller /\ consumed \subseteq DOMAIN Grants
    /\ \A k \in DOMAIN kept : kept[k] \in {"PENDING", "COMMITTED", "FAILED_CLEAN", "AMBIGUOUS"}
    /\ refs \in [RefName -> CommitId \cup {NoCommit}]
    /\ pulls \in Seq(PullRow) /\ moves \in 0 .. MaxMoves

CallInv ==
    /\ WorldInv
    /\ \A c \in Caller : CallRowInv(c)
    /\ \A c, d \in Caller : c # d => CallPairInv(c, d)

\* Pull requests stay what they were opened as.
PullsStay ==
    \A i \in DOMAIN pulls :
        /\ i \in DOMAIN pulls' /\ pulls'[i].head = pulls[i].head
        /\ pulls'[i].base = pulls[i].base /\ pulls'[i].draft = pulls[i].draft

\* A call that nothing happened to, with its key as it was.
LEMMA CallRowStays ==
    ASSUME CallInv, NEW d \in Caller, execution'[d] = execution[d], consumed \subseteq consumed', PullsStay,
           Going(d) \/ Out(d) \/ execution[d].at = "committed" =>
                CallKey(d) \in DOMAIN kept' /\ kept'[CallKey(d)] = kept[CallKey(d)]
    PROVE  CallRowInv(d)'
<1>1. CallRowInv(d)
  BY DEF CallInv
<1>2. /\ Going(d)' = Going(d) /\ Out(d)' = Out(d) /\ Claimed(d)' = Claimed(d)
      /\ CallKey(d)' = CallKey(d)
  BY DEF Going, Out, Claimed, CallKey
<1>3. OperationFits(execution[d].op)' = OperationFits(execution[d].op)
  BY DEF OperationFits
<1>4. /\ Going(d) => HasKept(d, {"PENDING"})'
      /\ execution[d].at = "committed" => HasKept(d, {"COMMITTED"})'
      /\ Out(d) => HasKept(d, {"PENDING", "COMMITTED", "AMBIGUOUS"})'
  BY <1>1, <1>2 DEF CallRowInv, HasKept
<1>5. execution[d].write = "applied" /\ execution[d].op.tool = "create_pr" =>
        LET i == execution[d].number IN
        /\ i \in DOMAIN pulls' /\ pulls'[i].head = execution[d].op.target
        /\ pulls'[i].base = execution[d].op.base /\ pulls'[i].draft = execution[d].op.draft
  BY <1>1 DEF CallRowInv, PullsStay
<1> QED  BY <1>1, <1>2, <1>3, <1>4, <1>5 DEF CallRowInv

\* A step of call c leaves the invariant of the others, if it leaves their keys alone.
LEMMA CallStep ==
    ASSUME CallInv, NEW c \in Caller, \A d \in Caller : d # c => execution'[d] = execution[d],
           consumed \subseteq consumed', PullsStay, WorldInv', CallRowInv(c)',
           \A d \in Caller : d # c /\ (Going(d) \/ Out(d) \/ execution[d].at = "committed") =>
                CallKey(d) \in DOMAIN kept' /\ kept'[CallKey(d)] = kept[CallKey(d)],
           \A d \in Caller : d # c =>
                /\ Claimed(c)' /\ Claimed(d) => Asked[d].grant # Asked[c].grant
                /\ CallKey(d) = CallKey(c)' => /\ Going(c)' => ~Going(d) /\ ~Out(d)
                                               /\ Out(c)' => ~Going(d)
    PROVE  CallInv'
<1>1. ASSUME NEW d \in Caller PROVE CallRowInv(d)'
  <2>1. CASE d # c
    BY <2>1, CallRowStays
  <2> QED  BY <2>1
<1>2. ASSUME NEW d \in Caller, d # c
      PROVE  /\ Going(d)' = Going(d) /\ Out(d)' = Out(d) /\ Claimed(d)' = Claimed(d)
             /\ CallKey(d)' = CallKey(d)
  BY <1>2 DEF Going, Out, Claimed, CallKey
<1>3. ASSUME NEW d \in Caller, NEW e \in Caller, d # e PROVE CallPairInv(d, e)'
  <2>1. CASE d # c /\ e # c
    BY <1>2, <1>3, <2>1 DEF CallInv, CallPairInv
  <2>2. CASE d = c
    BY <1>2, <1>3, <2>2 DEF CallPairInv
  <2>3. CASE e = c
    BY <1>2, <1>3, <2>3 DEF CallPairInv
  <2> QED  BY <2>1, <2>2, <2>3
<1> QED  BY <1>1, <1>3 DEF CallInv

\* What the store gains when a call's key is set.
LEMMA KeyIsSet ==
    ASSUME NEW k, NEW o, SetKept(k, o)
    PROVE  /\ k \in DOMAIN kept' /\ kept'[k] = o
           /\ \A j \in DOMAIN kept : j \in DOMAIN kept' /\ (j # k => kept'[j] = kept[j])
           /\ \A j \in DOMAIN kept' : j # k => j \in DOMAIN kept
  BY DEF SetKept

\* A step of a call that was admitted before: it keeps its operation, and sets the
\* outcome of its key while it is under way, or of none.
LEMMA GoingStep ==
    ASSUME CallInv, NEW c \in Caller, \A d \in Caller : d # c => execution'[d] = execution[d],
           DOMAIN execution' = Caller, execution'[c].op = execution[c].op,
           Going(c)' => Going(c), Out(c)' => Out(c) \/ Going(c), CallRowInv(c)',
           UNCHANGED <<consumed, moves>>, PullsStay,
           refs' \in [RefName -> CommitId \cup {NoCommit}], pulls' \in Seq(PullRow),
           \/ UNCHANGED kept
           \/ Going(c) /\ \E o \in {"COMMITTED", "FAILED_CLEAN", "AMBIGUOUS"} : SetKept(CallKey(c), o)
    PROVE  CallInv'
<1>1. CallRowInv(c) /\ WorldInv
  BY DEF CallInv
<1>2. CallKey(c)' = CallKey(c) /\ Claimed(c)' = Claimed(c)
  BY DEF CallKey, Claimed
<1>3. \A d \in Caller : d # c => /\ CallRowInv(d) /\ CallPairInv(c, d) /\ CallPairInv(d, c)
  BY DEF CallInv
<1>4. ASSUME NEW d \in Caller, d # c, Going(d) \/ Out(d) \/ execution[d].at = "committed"
      PROVE  CallKey(d) \in DOMAIN kept' /\ kept'[CallKey(d)] = kept[CallKey(d)]
  <2>1. CallKey(d) \in DOMAIN kept
    BY <1>3, <1>4 DEF CallRowInv, HasKept
  <2>2. CASE UNCHANGED kept
    BY <2>1, <2>2
  <2>3. CASE Going(c) /\ \E o \in {"COMMITTED", "FAILED_CLEAN", "AMBIGUOUS"} : SetKept(CallKey(c), o)
    <3>1. CallKey(d) # CallKey(c)
      <4>1. CASE Going(d) \/ Out(d)
        BY <1>3, <1>4, <2>3, <4>1 DEF CallPairInv
      <4>2. CASE execution[d].at = "committed"
        <5>1. kept[CallKey(d)] = "COMMITTED" /\ kept[CallKey(c)] = "PENDING"
          BY <1>1, <1>3, <1>4, <2>3, <4>2 DEF CallRowInv, HasKept
        <5> QED  BY <5>1
      <4> QED  BY <1>4, <4>1, <4>2
    <3> QED  BY <2>1, <2>3, <3>1, KeyIsSet
  <2> QED  BY <2>2, <2>3
<1>5. \A k \in DOMAIN kept' : kept'[k] \in {"PENDING", "COMMITTED", "FAILED_CLEAN", "AMBIGUOUS"}
  <2>1. CASE UNCHANGED kept
    BY <1>1, <2>1 DEF WorldInv
  <2>2. ASSUME NEW o \in {"COMMITTED", "FAILED_CLEAN", "AMBIGUOUS"}, SetKept(CallKey(c), o)
        PROVE \A k \in DOMAIN kept' : kept'[k] \in {"PENDING", "COMMITTED", "FAILED_CLEAN", "AMBIGUOUS"}
    BY <1>1, <2>2, KeyIsSet DEF WorldInv
  <2> QED  BY <2>1, <2>2
<1>6. WorldInv'
  BY <1>1, <1>5 DEF WorldInv
<1>7. \A d \in Caller : d # c =>
        /\ Claimed(c)' /\ Claimed(d) => Asked[d].grant # Asked[c].grant
        /\ CallKey(d) = CallKey(c)' => /\ Going(c)' => ~Going(d) /\ ~Out(d)
                                       /\ Out(c)' => ~Going(d)
  BY <1>2, <1>3 DEF CallPairInv
<1> QED  BY <1>4, <1>6, <1>7, CallStep

\* A call stops at an await or before its record, with its key as it is.
LEMMA CallStops ==
    ASSUME CallInv, NEW c \in Caller, Going(c), NEW place \in {"denied", "cancelled"},
           CallGoes(c, [at |-> place]), UNCHANGED <<consumed, kept, refs, pulls, moves>>
    PROVE  CallInv'
<1>1. WorldInv /\ CallRowInv(c)
  BY DEF CallInv
<1>2. PICK changes : changes = [at |-> place]
  OBVIOUS
<1>3. DOMAIN changes = {"at"} /\ changes["at"] = place
  BY <1>2
<1>4. /\ DOMAIN execution' = Caller /\ DOMAIN execution'[c] = CallFields
      /\ \A f \in DOMAIN changes : execution'[c][f] = changes[f]
      /\ \A f \in CallFields \ DOMAIN changes : execution'[c][f] = execution[c][f]
      /\ \A d \in Caller : d # c => execution'[d] = execution[d]
  BY <1>1, <1>2, <1>3, CallChanges DEF WorldInv, CallRowInv, CallFields
<1>5. /\ execution'[c].at = place /\ execution'[c].op = execution[c].op
      /\ execution'[c].write = execution[c].write /\ execution'[c].number = execution[c].number
      /\ execution'[c].evidence = execution[c].evidence
  BY <1>3, <1>4 DEF CallFields
<1>6. /\ ~Going(c)' /\ Out(c)' = Out(c) /\ Claimed(c)' = Claimed(c) /\ CallKey(c)' = CallKey(c)
      /\ \A S : HasKept(c, S)' = HasKept(c, S)
      /\ OperationFits(execution[c].op)' = OperationFits(execution[c].op)
  BY <1>5 DEF Going, Out, Claimed, CallKey, HasKept, OperationFits
<1>7. CallRowInv(c)'
  BY <1>1, <1>4, <1>5, <1>6 DEF CallRowInv, CallEnded
<1>8. PullsStay
  BY DEF PullsStay
<1> QED  BY <1>1, <1>4, <1>5, <1>6, <1>7, <1>8, GoingStep DEF WorldInv

\* A call ends, and the store and the ledger keep what became of it.
LEMMA CallConcludes ==
    ASSUME CallInv, NEW c \in Caller, Going(c), NEW place \in {"denied", "indeterminate", "committed"},
           NEW o \in {"COMMITTED", "FAILED_CLEAN", "AMBIGUOUS"}, NEW evidence,
           CallEnds(c, place, o, evidence), UNCHANGED <<consumed, refs, pulls, moves>>,
           evidence = "FAILED" => execution[c].write = "refused",
           o = "FAILED_CLEAN" => ~Out(c),
           place = "committed" => execution[c].write = "applied" /\ o = "COMMITTED"
    PROVE  CallInv'
<1>1. WorldInv /\ CallRowInv(c)
  BY DEF CallInv
<1>2. PICK changes : changes = [at |-> place, evidence |-> evidence]
  OBVIOUS
<1>3. /\ DOMAIN changes = {"at", "evidence"} /\ changes["at"] = place
      /\ changes["evidence"] = evidence
  BY <1>2
<1>4. /\ DOMAIN execution' = Caller /\ DOMAIN execution'[c] = CallFields
      /\ \A f \in DOMAIN changes : execution'[c][f] = changes[f]
      /\ \A f \in CallFields \ DOMAIN changes : execution'[c][f] = execution[c][f]
      /\ \A d \in Caller : d # c => execution'[d] = execution[d]
  BY <1>1, <1>2, <1>3, CallChanges DEF WorldInv, CallRowInv, CallFields, CallEnds
<1>5. /\ execution'[c].at = place /\ execution'[c].op = execution[c].op
      /\ execution'[c].write = execution[c].write /\ execution'[c].number = execution[c].number
      /\ execution'[c].evidence = evidence
  BY <1>3, <1>4 DEF CallFields
<1>6. /\ ~Going(c)' /\ Out(c)' = Out(c) /\ Claimed(c)' = Claimed(c) /\ CallKey(c)' = CallKey(c)
      /\ OperationFits(execution[c].op)' = OperationFits(execution[c].op)
  BY <1>5 DEF Going, Out, Claimed, CallKey, OperationFits
<1>7. SetKept(CallKey(c), o) /\ HasKept(c, {o})'
  <2>1. SetKept(CallKey(c), o)
    BY DEF CallEnds
  <2>2. CallKey(c) \in DOMAIN kept' /\ kept'[CallKey(c)] = o
    BY <2>1, KeyIsSet
  <2> QED  BY <1>6, <2>1, <2>2 DEF HasKept
<1>8. Out(c) => HasKept(c, {"PENDING", "COMMITTED", "AMBIGUOUS"})'
  BY <1>7 DEF HasKept
<1>9. CallRowInv(c)'
  BY <1>1, <1>4, <1>5, <1>6, <1>7, <1>8 DEF CallRowInv, CallEnded
<1>10. PullsStay
  BY DEF PullsStay
<1> QED  BY <1>1, <1>4, <1>5, <1>6, <1>7, <1>9, <1>10, GoingStep DEF WorldInv

\* The ledger's verdict, or a denial when the observation is refused.
LEMMA CallIsJudged ==
    ASSUME CallInv, NEW c \in Caller, Going(c), NEW place \in {"denied", "indeterminate", "committed"},
           NEW o \in {"COMMITTED", "FAILED_CLEAN", "AMBIGUOUS"}, NEW verification,
           ConcludeCall(c, o, verification, place), UNCHANGED <<consumed, refs, pulls, moves>>,
           o = "FAILED_CLEAN" => execution[c].write = "refused",
           place = "committed" => execution[c].write = "applied" /\ o = "COMMITTED"
    PROVE  CallInv'
<1>1. EvidenceClass[o] = "FAILED" => o = "FAILED_CLEAN"
  BY DEF EvidenceClass
<1>2. \/ CallEnds(c, place, o, EvidenceClass[o])
      \/ CallGoes(c, [at |-> "denied"]) /\ UNCHANGED kept
  BY DEF ConcludeCall
<1>3. PICK evidence : evidence = EvidenceClass[o]
  OBVIOUS
<1>4. CASE CallEnds(c, place, o, evidence)
  BY <1>1, <1>3, <1>4, CallConcludes DEF Out
<1>5. CASE CallGoes(c, [at |-> "denied"]) /\ UNCHANGED kept
  BY <1>5, CallStops
<1> QED  BY <1>2, <1>3, <1>4, <1>5

\* What both contracts share of the statuses, and what each verifies.
LEMMA ContractFields ==
    ASSUME NEW tool
    PROVE  /\ MutationContractOf(tool).success = {201}
           /\ MutationContractOf(tool).clean = {401, 403, 404, 422}
           /\ MutationContractOf(tool).verified = IF tool = "create_branch" THEN {"ref", "sha"}
                                                  ELSE {"number", "head_sha", "state"}
<1>1. PICK shared : shared = Shared
  OBVIOUS
<1>2. /\ shared.success = {201} /\ shared.clean = {401, 403, 404, 422}
      /\ {"success", "clean"} \subseteq DOMAIN shared
  BY <1>1 DEF Shared
<1>3. ASSUME NEW t, NEW a, NEW cap, NEW p, NEW v
      PROVE  LET own == [tool |-> t, action |-> a, capability |-> cap, preconditions |-> p, verified |-> v]
             IN  /\ With(shared, own).success = {201}
                 /\ With(shared, own).clean = {401, 403, 404, 422}
                 /\ With(shared, own).verified = v
  <2>1. PICK own : own = [tool |-> t, action |-> a, capability |-> cap, preconditions |-> p, verified |-> v]
    OBVIOUS
  <2>2. /\ DOMAIN own = {"tool", "action", "capability", "preconditions", "verified"}
        /\ own["verified"] = v
    BY <2>1
  <2>3. /\ \A f \in DOMAIN own : With(shared, own)[f] = own[f]
        /\ \A f \in DOMAIN shared \ DOMAIN own : With(shared, own)[f] = shared[f]
    BY WithFields, Zenon
  <2>4. /\ With(shared, own).verified = v /\ With(shared, own).success = {201}
        /\ With(shared, own).clean = {401, 403, 404, 422}
    BY <1>2, <2>2, <2>3
  <2> QED  BY <2>1, <2>4
<1>4. CASE tool = "create_branch"
  BY <1>1, <1>3, <1>4 DEF MutationContractOf, CreateBranchContract
<1>5. CASE tool # "create_branch"
  BY <1>1, <1>3, <1>5 DEF MutationContractOf, CreatePrContract
<1> QED  BY <1>4, <1>5

\* The answer to the POST: a clean failure is a refusal, and a success was applied.
LEMMA AnsweredStep == ASSUME CallInv, NEW c \in Caller, Answered(c) PROVE CallInv'
<1>1. /\ execution[c].at = "awaiting" /\ Going(c) /\ UNCHANGED <<consumed, refs, pulls, moves>>
      /\ CallRowInv(c) /\ WorldInv
  BY DEF Answered, Going, CallInv
<1>2. PICK status \in Statuses(execution[c].write) :
        LET outcome == ClassifyStatus(MutationContractOf(execution[c].op.tool), status) IN
        CASE outcome = "COMMITTED" ->
                /\ CallGoes(c, [at |-> "reading_back", status |-> status]) /\ UNCHANGED kept
          [] outcome = "FAILED_CLEAN" -> ConcludeCall(c, outcome, "NOT_ATTEMPTED", "denied")
          [] OTHER -> ConcludeCall(c, outcome, "UNVERIFIABLE", "indeterminate")
  BY DEF Answered
<1>3. PICK outcome : outcome = ClassifyStatus(MutationContractOf(execution[c].op.tool), status)
  OBVIOUS
<1>4. /\ outcome \in {"COMMITTED", "FAILED_CLEAN", "AMBIGUOUS"}
      /\ outcome = "COMMITTED" => status = 201
      /\ outcome = "FAILED_CLEAN" => status \in {401, 403, 404, 422}
  BY <1>3, ContractFields DEF ClassifyStatus
<1>5. /\ status = 201 => execution[c].write = "applied"
      /\ status \in {401, 403, 404, 422} => execution[c].write = "refused"
  BY <1>2 DEF Statuses
<1>6. CASE outcome = "COMMITTED"
  <2>1. CallGoes(c, [at |-> "reading_back", status |-> status]) /\ UNCHANGED kept
    BY <1>2, <1>3, <1>6
  <2>2. PICK changes : changes = [at |-> "reading_back", status |-> status]
    OBVIOUS
  <2>3. DOMAIN changes = {"at", "status"} /\ changes["at"] = "reading_back"
    BY <2>2
  <2>4. /\ DOMAIN execution' = Caller /\ DOMAIN execution'[c] = CallFields
        /\ \A f \in DOMAIN changes : execution'[c][f] = changes[f]
        /\ \A f \in CallFields \ DOMAIN changes : execution'[c][f] = execution[c][f]
        /\ \A d \in Caller : d # c => execution'[d] = execution[d]
    BY <1>1, <2>1, <2>2, <2>3, CallChanges DEF WorldInv, CallRowInv, CallFields
  <2>5. /\ execution'[c].at = "reading_back" /\ execution'[c].op = execution[c].op
        /\ execution'[c].write = execution[c].write /\ execution'[c].number = execution[c].number
        /\ execution'[c].evidence = execution[c].evidence
    BY <2>3, <2>4 DEF CallFields
  <2>6. /\ Going(c)' /\ Out(c)' = Out(c) /\ Claimed(c)' = Claimed(c) /\ CallKey(c)' = CallKey(c)
        /\ \A S : HasKept(c, S)' = HasKept(c, S)
        /\ OperationFits(execution[c].op)' = OperationFits(execution[c].op)
    BY <1>1, <2>1, <2>5 DEF Going, Out, Claimed, CallKey, HasKept, OperationFits
  <2>7. CallRowInv(c)'
    BY <1>1, <1>4, <1>5, <1>6, <2>4, <2>5, <2>6 DEF CallRowInv
  <2>8. PullsStay
    BY <1>1 DEF PullsStay
  <2> QED  BY <1>1, <2>1, <2>4, <2>5, <2>6, <2>7, <2>8, GoingStep DEF WorldInv
<1>7. CASE outcome = "FAILED_CLEAN"
  <2>1. ConcludeCall(c, outcome, "NOT_ATTEMPTED", "denied")
    BY <1>2, <1>3, <1>7
  <2> QED  BY <1>1, <1>4, <1>5, <1>7, <2>1, CallIsJudged
<1>8. CASE outcome = "AMBIGUOUS"
  <2>1. ConcludeCall(c, outcome, "UNVERIFIABLE", "indeterminate")
    BY <1>2, <1>3, <1>8
  <2> QED  BY <1>1, <1>4, <1>8, <2>1, CallIsJudged
<1> QED  BY <1>4, <1>6, <1>7, <1>8

\* GitHub's answer to the read-back is kept until the executor has it.
LEMMA ReadBackStep == ASSUME CallInv, NEW c \in Caller, ReadBackCall(c) PROVE CallInv'
<1>1. /\ Going(c) /\ UNCHANGED <<consumed, kept, refs, pulls, moves>> /\ execution[c].write = "applied"
      /\ execution[c].at = "reading_back" /\ CallRowInv(c) /\ WorldInv
  BY DEF ReadBackCall, Going, CallInv, CallRowInv
<1>2. PICK v, changes : /\ changes = [at |-> "read", seen |-> v, seenAt |-> moves]
                        /\ CallGoes(c, changes)
  BY DEF ReadBackCall
<1>3. DOMAIN changes = {"at", "seen", "seenAt"} /\ changes["at"] = "read"
  BY <1>2
<1>4. /\ DOMAIN execution' = Caller /\ DOMAIN execution'[c] = CallFields
      /\ \A f \in DOMAIN changes : execution'[c][f] = changes[f]
      /\ \A f \in CallFields \ DOMAIN changes : execution'[c][f] = execution[c][f]
      /\ \A d \in Caller : d # c => execution'[d] = execution[d]
  BY <1>1, <1>2, <1>3, CallChanges DEF WorldInv, CallRowInv, CallFields
<1>5. /\ execution'[c].at = "read" /\ execution'[c].op = execution[c].op
      /\ execution'[c].write = execution[c].write /\ execution'[c].number = execution[c].number
      /\ execution'[c].evidence = execution[c].evidence
  BY <1>3, <1>4 DEF CallFields
<1>6. /\ Going(c)' /\ Out(c)' = Out(c) /\ Claimed(c)' = Claimed(c) /\ CallKey(c)' = CallKey(c)
      /\ \A S : HasKept(c, S)' = HasKept(c, S)
      /\ OperationFits(execution[c].op)' = OperationFits(execution[c].op)
  BY <1>1, <1>5 DEF Going, Out, Claimed, CallKey, HasKept, OperationFits
<1>7. CallRowInv(c)'
  BY <1>1, <1>4, <1>5, <1>6 DEF CallRowInv
<1>8. PullsStay
  BY <1>1 DEF PullsStay
<1> QED  BY <1>1, <1>4, <1>5, <1>6, <1>7, <1>8, GoingStep DEF WorldInv

\* The report ends a call that was applied.
LEMMA ReportStep == ASSUME CallInv, NEW c \in Caller, ReportCall(c) PROVE CallInv'
<1>1. /\ Going(c) /\ UNCHANGED <<consumed, refs, pulls, moves>> /\ execution[c].write = "applied"
  BY DEF ReportCall, Going, CallInv, CallRowInv
<1>2. \/ ConcludeCall(c, "COMMITTED", "VERIFIED", "committed")
      \/ ConcludeCall(c, "AMBIGUOUS", execution[c].seen, "indeterminate")
  BY DEF ReportCall
<1> QED  BY <1>1, <1>2, CallIsJudged

\* The precondition is read again, and the write goes out or the call ends unsent.
LEMMA PreparedStep ==
    ASSUME CallInv, NEW c \in Caller,
           RevalidateFails(c) \/ IntentRefused(c) \/ RecordAndSend(c) \/ CancelCall(c)
    PROVE  CallInv'
<1>1. /\ Going(c) /\ UNCHANGED <<consumed, refs, pulls, moves>> /\ CallRowInv(c) /\ WorldInv
  BY DEF RevalidateFails, IntentRefused, RecordAndSend, CancelCall, Going, CallInv
<1>2. execution[c].at = "revalidating" => execution[c].write = "none" /\ ~Out(c)
  BY <1>1 DEF CallRowInv, Out
<1>3. CASE RevalidateFails(c) \/ (RecordAndSend(c) /\ CallEnds(c, "denied", "FAILED_CLEAN", "none"))
  <2>1. ~Out(c)
    BY <1>2, <1>3 DEF RevalidateFails, RecordAndSend
  <2>2. \/ CallEnds(c, "indeterminate", "AMBIGUOUS", "none")
        \/ CallEnds(c, "denied", "FAILED_CLEAN", "none")
    BY <1>3 DEF RevalidateFails
  <2> QED  BY <1>1, <2>1, <2>2, CallConcludes
<1>4. CASE IntentRefused(c) \/ CancelCall(c)
  BY <1>1, <1>4, CallStops DEF IntentRefused, CancelCall
<1>5. CASE /\ RecordAndSend(c) /\ UNCHANGED kept
           /\ CallGoes(c, [at |-> "awaiting", write |-> "sent", evidence |-> "open"])
  <2>1. PICK changes : changes = [at |-> "awaiting", write |-> "sent", evidence |-> "open"]
    OBVIOUS
  <2>2. /\ DOMAIN changes = {"at", "write", "evidence"} /\ changes["at"] = "awaiting"
        /\ changes["write"] = "sent" /\ changes["evidence"] = "open"
    BY <2>1
  <2>3. /\ DOMAIN execution' = Caller /\ DOMAIN execution'[c] = CallFields
        /\ \A f \in DOMAIN changes : execution'[c][f] = changes[f]
        /\ \A f \in CallFields \ DOMAIN changes : execution'[c][f] = execution[c][f]
        /\ \A d \in Caller : d # c => execution'[d] = execution[d]
    BY <1>1, <1>5, <2>1, <2>2, CallChanges DEF WorldInv, CallRowInv, CallFields
  <2>4. /\ execution'[c].at = "awaiting" /\ execution'[c].op = execution[c].op
        /\ execution'[c].write = "sent" /\ execution'[c].evidence = "open"
    BY <2>2, <2>3 DEF CallFields
  <2>5. /\ Going(c)' /\ Claimed(c)' = Claimed(c) /\ CallKey(c)' = CallKey(c)
        /\ \A S : HasKept(c, S)' = HasKept(c, S)
        /\ OperationFits(execution[c].op)' = OperationFits(execution[c].op)
    BY <1>1, <1>5, <2>4 DEF Going, Claimed, CallKey, HasKept, OperationFits
  <2>6. HasKept(c, {"PENDING"}) => HasKept(c, {"PENDING", "COMMITTED", "AMBIGUOUS"})
    BY DEF HasKept
  <2>7. CallRowInv(c)'
    BY <1>1, <2>3, <2>4, <2>5, <2>6 DEF CallRowInv
  <2>8. PullsStay
    BY <1>1 DEF PullsStay
  <2> QED  BY <1>1, <1>5, <2>3, <2>4, <2>5, <2>7, <2>8, GoingStep DEF WorldInv
<1> QED  BY <1>3, <1>4, <1>5 DEF RecordAndSend

\* GitHub opens a pull request after the others.
LEMMA PullOpens ==
    ASSUME WorldInv, NEW row \in PullRow, pulls' = Append(pulls, row)
    PROVE  /\ pulls' \in Seq(PullRow) /\ PullsStay
           /\ Len(pulls) + 1 \in DOMAIN pulls' /\ pulls'[Len(pulls) + 1] = row
<1>1. pulls \in Seq(PullRow) /\ Len(pulls) \in Nat /\ DOMAIN pulls = 1 .. Len(pulls)
  BY DEF WorldInv
<1>2. /\ pulls' \in Seq(PullRow) /\ Len(pulls') = Len(pulls) + 1
      /\ \A i \in 1 .. Len(pulls) : pulls'[i] = pulls[i]
      /\ pulls'[Len(pulls) + 1] = row
  BY <1>1
<1>3. DOMAIN pulls' = 1 .. Len(pulls) + 1
  BY <1>1, <1>2
<1> QED  BY <1>1, <1>2, <1>3 DEF PullsStay

\* GitHub takes a write, or refuses it, whether or not anyone still waits for it.
LEMMA WriteStep ==
    ASSUME CallInv, NEW c \in Caller, ApplyWrite(c) \/ RefuseWrite(c) PROVE CallInv'
<1>1. /\ execution[c].write = "sent" /\ CallRowInv(c) /\ WorldInv /\ UNCHANGED <<consumed, kept, moves>>
  BY DEF ApplyWrite, RefuseWrite, CallInv
<1>2. /\ Out(c) /\ Claimed(c) /\ OperationFits(execution[c].op)
      /\ execution[c].at \notin {"new", "revalidating", "reading_back", "read", "committed"}
      /\ execution[c].evidence # "FAILED" /\ DOMAIN execution[c] = CallFields
  BY <1>1 DEF CallRowInv, Out
<1>3. ASSUME NEW w \in {"applied", "refused"}, DOMAIN execution' = Caller, DOMAIN execution'[c] = CallFields,
             execution'[c].write = w, execution'[c].at = execution[c].at,
             execution'[c].op = execution[c].op, execution'[c].evidence = execution[c].evidence,
             \A d \in Caller : d # c => execution'[d] = execution[d],
             PullsStay, refs' \in [RefName -> CommitId \cup {NoCommit}], pulls' \in Seq(PullRow),
             w = "applied" /\ execution[c].op.tool = "create_pr" =>
                LET i == execution'[c].number IN
                /\ i \in DOMAIN pulls' /\ pulls'[i].head = execution[c].op.target
                /\ pulls'[i].base = execution[c].op.base /\ pulls'[i].draft = execution[c].op.draft
      PROVE  CallInv'
  <2>1. /\ Going(c)' = Going(c) /\ Claimed(c)' = Claimed(c) /\ CallKey(c)' = CallKey(c)
        /\ \A S : HasKept(c, S)' = HasKept(c, S)
        /\ OperationFits(execution[c].op)' = OperationFits(execution[c].op)
    BY <1>1, <1>3 DEF Going, Claimed, CallKey, HasKept, OperationFits
  <2>2. Out(c)' => Out(c)
    BY <1>2
  <2>3. CallRowInv(c)'
    BY <1>1, <1>2, <1>3, <2>1 DEF CallRowInv
  <2> QED  BY <1>1, <1>3, <2>1, <2>2, <2>3, GoingStep
<1>4. CASE RefuseWrite(c) \/ (ApplyWrite(c) /\ execution[c].op.tool = "create_branch")
  <2>1. PICK w \in {"applied", "refused"} : CallGoes(c, [write |-> w])
    BY <1>4 DEF RefuseWrite, ApplyWrite
  <2>2. PICK changes : changes = [write |-> w]
    OBVIOUS
  <2>3. DOMAIN changes = {"write"} /\ changes["write"] = w
    BY <2>2
  <2>4. /\ DOMAIN execution' = Caller /\ DOMAIN execution'[c] = CallFields
        /\ \A f \in DOMAIN changes : execution'[c][f] = changes[f]
        /\ \A f \in CallFields \ DOMAIN changes : execution'[c][f] = execution[c][f]
        /\ \A d \in Caller : d # c => execution'[d] = execution[d]
    BY <1>1, <1>2, <2>1, <2>2, <2>3, CallChanges DEF WorldInv, CallFields
  <2>5. /\ execution'[c].at = execution[c].at /\ execution'[c].op = execution[c].op
        /\ execution'[c].write = w /\ execution'[c].evidence = execution[c].evidence
    BY <2>3, <2>4 DEF CallFields
  <2>6. UNCHANGED pulls /\ refs' \in [RefName -> CommitId \cup {NoCommit}]
    BY <1>1, <1>2, <1>4 DEF RefuseWrite, ApplyWrite, WorldInv, OperationFits
  <2>7. w = "applied" => execution[c].op.tool # "create_pr"
    <3>1. CASE RefuseWrite(c)
      <4>1. PICK other : other = [write |-> "refused"] /\ CallGoes(c, other)
        BY <3>1 DEF RefuseWrite
      <4>2. DOMAIN other = {"write"} /\ other["write"] = "refused"
        BY <4>1
      <4>3. execution'[c]["write"] = "refused"
        BY <1>1, <1>2, <4>1, <4>2, CallChanges DEF WorldInv, CallFields
      <4> QED  BY <2>5, <4>3
    <3> QED  BY <1>4, <3>1
  <2>8. PullsStay /\ pulls' \in Seq(PullRow)
    BY <1>1, <2>6 DEF PullsStay, WorldInv
  <2> QED  BY <1>3, <2>4, <2>5, <2>6, <2>7, <2>8
<1>5. CASE ApplyWrite(c) /\ execution[c].op.tool # "create_branch"
  <2>1. PICK row, i : row = WriteBody(execution[c].op) /\ i = Len(pulls) + 1
    OBVIOUS
  <2>2. /\ pulls' = Append(pulls, row) /\ UNCHANGED refs
        /\ CallGoes(c, [write |-> "applied", number |-> i])
    BY <1>5, <2>1 DEF ApplyWrite
  <2>3. /\ row \in PullRow /\ row.head = execution[c].op.target
        /\ row.base = execution[c].op.base /\ row.draft = execution[c].op.draft
    BY <1>2, <1>5, <2>1 DEF WriteBody, PullRow, OperationFits
  <2>4. PICK changes : changes = [write |-> "applied", number |-> i]
    OBVIOUS
  <2>5. DOMAIN changes = {"write", "number"} /\ changes["write"] = "applied" /\ changes["number"] = i
    BY <2>4
  <2>6. /\ DOMAIN execution' = Caller /\ DOMAIN execution'[c] = CallFields
        /\ \A f \in DOMAIN changes : execution'[c][f] = changes[f]
        /\ \A f \in CallFields \ DOMAIN changes : execution'[c][f] = execution[c][f]
        /\ \A d \in Caller : d # c => execution'[d] = execution[d]
    BY <1>1, <1>2, <2>2, <2>4, <2>5, CallChanges DEF WorldInv, CallFields
  <2>7. /\ execution'[c].at = execution[c].at /\ execution'[c].op = execution[c].op
        /\ execution'[c].write = "applied" /\ execution'[c].evidence = execution[c].evidence
        /\ execution'[c].number = i
    BY <2>5, <2>6 DEF CallFields
  <2>8. pulls' \in Seq(PullRow) /\ PullsStay /\ i \in DOMAIN pulls' /\ pulls'[i] = row
    BY <1>1, <2>1, <2>2, <2>3, PullOpens
  <2>9. refs' \in [RefName -> CommitId \cup {NoCommit}]
    BY <1>1, <2>2 DEF WorldInv
  <2> QED  BY <1>3, <2>3, <2>6, <2>7, <2>8, <2>9
<1> QED  BY <1>4, <1>5

\* Other people move branches and close pull requests.
LEMMA ElsewhereStep == ASSUME CallInv, Elsewhere PROVE CallInv'
<1>1. WorldInv /\ UNCHANGED <<execution, consumed, kept>>
  BY DEF Elsewhere, CallInv
<1>2. moves' \in 0 .. MaxMoves /\ refs' \in [RefName -> CommitId \cup {NoCommit}]
  <2>1. moves' \in 0 .. MaxMoves
    BY <1>1, MovesAssumption DEF Elsewhere, WorldInv
  <2>2. refs' = refs \/ \E b \in RefName, s \in CommitId \cup {NoCommit} : refs' = [refs EXCEPT ![b] = s]
    BY DEF Elsewhere
  <2> QED  BY <1>1, <2>1, <2>2 DEF WorldInv
<1>3. pulls' \in Seq(PullRow) /\ PullsStay
  <2>1. CASE UNCHANGED pulls
    BY <1>1, <2>1 DEF WorldInv, PullsStay
  <2>2. ASSUME NEW i \in DOMAIN pulls, pulls' = [pulls EXCEPT ![i].open = FALSE]
        PROVE  pulls' \in Seq(PullRow) /\ PullsStay
    <3>1. PICK row \in PullRow : row = pulls[i]
      BY <1>1 DEF WorldInv
    <3>2. PICK no \in BOOLEAN : no = FALSE
      BY Zenon
    <3>3. PICK new : new = [row EXCEPT !.open = no]
      OBVIOUS
    <3>4. /\ new \in PullRow /\ new.head = row.head /\ new.base = row.base /\ new.draft = row.draft
      BY <3>3 DEF PullRow
    <3>5. pulls' = [pulls EXCEPT ![i] = new]
      BY <2>2, <3>1, <3>2, <3>3
    <3>6. pulls' \in Seq(PullRow) /\ DOMAIN pulls' = DOMAIN pulls
      BY <1>1, <3>4, <3>5 DEF WorldInv
    <3>7. pulls'[i] = new /\ \A j \in DOMAIN pulls : j # i => pulls'[j] = pulls[j]
      BY <1>1, <3>5 DEF WorldInv
    <3> QED  BY <3>1, <3>4, <3>6, <3>7 DEF PullsStay
  <2> QED  BY <2>1, <2>2 DEF Elsewhere
<1>4. WorldInv'
  BY <1>1, <1>2, <1>3 DEF WorldInv
<1>5. ASSUME NEW d \in Caller PROVE CallRowInv(d)'
  <2>1. CallRowInv(d)
    BY DEF CallInv
  <2>2. Going(d) \/ Out(d) \/ execution[d].at = "committed" => CallKey(d) \in DOMAIN kept
    BY <2>1 DEF CallRowInv, HasKept
  <2> QED  BY <1>1, <1>3, <2>2, CallRowStays
<1>6. \A c, d \in Caller : CallPairInv(c, d)' = CallPairInv(c, d)
  BY <1>1 DEF CallPairInv, Going, Out, Claimed, CallKey
<1> QED  BY <1>4, <1>5, <1>6 DEF CallInv

\* Stages 1 to 6: a call is denied, answered from the store, or claims its key.
LEMMA ClaimStep == ASSUME CallInv, NEW c \in Caller, Claim(c) PROVE CallInv'
<1>1. /\ execution[c].at = "new" /\ CallRowInv(c) /\ WorldInv /\ UNCHANGED <<refs, pulls, moves>>
      /\ DOMAIN execution[c] = CallFields
  BY DEF Claim, CallInv, CallRowInv
<1>2. /\ ~Claimed(c) /\ execution[c].write = "none" /\ ~Going(c) /\ ~Out(c)
      /\ execution[c].evidence # "FAILED"
  BY <1>1 DEF CallRowInv, Going, Out
<1>3. PullsStay
  BY <1>1 DEF PullsStay
<1>4. PICK op, k : op = OperationAsked(c) /\ k = IdempotencyKey(Asked[c].principal, op, Asked[c].token)
  OBVIOUS
<1>5. PICK said : said = BeginAnswer(k, LockName(op))
  OBVIOUS
<1>6. said \in {"replayed", "in_progress", "denied", "revalidating"}
  BY <1>5 DEF BeginAnswer
<1>7. \/ CallGoes(c, [at |-> "denied"]) /\ UNCHANGED <<consumed, kept>>
      \/ /\ op.ok /\ GrantFits(c, op) /\ consumed' = consumed \cup {Asked[c].grant}
         /\ CallGoes(c, [at |-> said, op |-> op])
         /\ IF said = "revalidating" THEN SetKept(k, "PENDING") ELSE UNCHANGED kept
  BY <1>4, <1>5 DEF Claim, Admitted
<1>8. CASE CallGoes(c, [at |-> "denied"]) /\ UNCHANGED <<consumed, kept>>
  <2>1. PICK changes : changes = [at |-> "denied"]
    OBVIOUS
  <2>2. DOMAIN changes = {"at"} /\ changes["at"] = "denied"
    BY <2>1
  <2>3. /\ DOMAIN execution' = Caller /\ DOMAIN execution'[c] = CallFields
        /\ \A f \in DOMAIN changes : execution'[c][f] = changes[f]
        /\ \A f \in CallFields \ DOMAIN changes : execution'[c][f] = execution[c][f]
        /\ \A d \in Caller : d # c => execution'[d] = execution[d]
    BY <1>1, <1>8, <2>1, <2>2, CallChanges DEF WorldInv, CallFields
  <2>4. /\ execution'[c].at = "denied" /\ execution'[c].op = execution[c].op
        /\ execution'[c].write = "none" /\ execution'[c].evidence = execution[c].evidence
    BY <1>2, <2>2, <2>3 DEF CallFields
  <2>5. ~Going(c)' /\ ~Out(c)' /\ ~Claimed(c)'
    BY <1>2, <2>4 DEF Going, Out, Claimed
  <2>6. CallRowInv(c)'
    BY <1>2, <2>3, <2>4, <2>5 DEF CallRowInv, CallEnded
  <2> QED  BY <1>1, <1>3, <1>8, <2>3, <2>4, <2>5, <2>6, GoingStep DEF WorldInv
<1>9. CASE /\ op.ok /\ GrantFits(c, op) /\ consumed' = consumed \cup {Asked[c].grant}
           /\ CallGoes(c, [at |-> said, op |-> op])
           /\ IF said = "revalidating" THEN SetKept(k, "PENDING") ELSE UNCHANGED kept
  <2>1. OperationFits(op)
    BY <1>4, <1>9, AskedFits
  <2>2. Asked[c].grant \in DOMAIN Grants \ consumed /\ Grants[Asked[c].grant].op = op
    <3>1. /\ Asked[c].grant \in DOMAIN Grants \ consumed
          /\ OperationDigest(Grants[Asked[c].grant].op) = OperationDigest(op)
      BY <1>9 DEF GrantFits
    <3>2. PICK a, b, x, y : /\ a = Grants[Asked[c].grant].op /\ b = MutationContractOf(a.tool).capability
                            /\ x = CapabilityStates /\ y = MutationContractOf(op.tool).capability
      OBVIOUS
    <3>3. [operation |-> a, capability |-> b, snapshot |-> x] = [operation |-> op, capability |-> y, snapshot |-> x]
      BY <3>1, <3>2 DEF OperationDigest
    <3>4. a = op
      BY <3>3
    <3> QED  BY <3>1, <3>2, <3>4
  <2>3. PICK changes : changes = [at |-> said, op |-> op]
    OBVIOUS
  <2>4. DOMAIN changes = {"at", "op"} /\ changes["at"] = said /\ changes["op"] = op
    BY <2>3
  <2>5. /\ DOMAIN execution' = Caller /\ DOMAIN execution'[c] = CallFields
        /\ \A f \in DOMAIN changes : execution'[c][f] = changes[f]
        /\ \A f \in CallFields \ DOMAIN changes : execution'[c][f] = execution[c][f]
        /\ \A d \in Caller : d # c => execution'[d] = execution[d]
    BY <1>1, <1>9, <2>3, <2>4, CallChanges DEF WorldInv, CallFields
  <2>6. /\ execution'[c].at = said /\ execution'[c].op = op
        /\ execution'[c].write = "none" /\ execution'[c].evidence = execution[c].evidence
    BY <1>2, <2>4, <2>5 DEF CallFields
  <2>7. ~Out(c)' /\ Claimed(c)' /\ CallKey(c)' = k /\ (Going(c)' <=> said = "revalidating")
    BY <1>4, <1>6, <2>1, <2>6 DEF Going, Out, Claimed, CallKey, OperationFits
  <2>8. said = "revalidating" =>
            \A d \in Caller : d # c /\ CallKey(d) = k =>
                ~Going(d) /\ ~Out(d) /\ execution[d].at # "committed"
    <3> SUFFICES ASSUME said = "revalidating", NEW d \in Caller, d # c, CallKey(d) = k
                 PROVE  ~Going(d) /\ ~Out(d) /\ execution[d].at # "committed"
      OBVIOUS
    <3>1. k \in DOMAIN kept => kept[k] \notin {"COMMITTED", "PENDING", "AMBIGUOUS"}
      BY <1>5 DEF BeginAnswer
    <3>2. CallRowInv(d)
      BY DEF CallInv
    <3> QED  BY <3>1, <3>2 DEF CallRowInv, HasKept
  <2>9. ASSUME NEW d \in Caller, d # c, Going(d) \/ Out(d) \/ execution[d].at = "committed"
        PROVE  CallKey(d) \in DOMAIN kept' /\ kept'[CallKey(d)] = kept[CallKey(d)]
    <3>1. CallKey(d) \in DOMAIN kept
      BY <2>9 DEF CallInv, CallRowInv, HasKept
    <3>2. CASE said = "revalidating"
      BY <1>9, <2>8, <2>9, <3>1, <3>2, KeyIsSet
    <3>3. CASE said # "revalidating"
      BY <1>9, <3>1, <3>3
    <3> QED  BY <3>2, <3>3
  <2>10. /\ said = "revalidating" => HasKept(c, {"PENDING"})'
         /\ \A j \in DOMAIN kept' : kept'[j] \in {"PENDING", "COMMITTED", "FAILED_CLEAN", "AMBIGUOUS"}
    <3>1. CASE said = "revalidating"
      BY <1>1, <1>9, <2>7, <3>1, KeyIsSet DEF HasKept, WorldInv
    <3>2. CASE said # "revalidating"
      BY <1>1, <1>9, <3>2 DEF WorldInv
    <3> QED  BY <3>1, <3>2
  <2>11. consumed \subseteq consumed' /\ consumed' \subseteq DOMAIN Grants /\ Asked[c].grant \in consumed'
    BY <1>1, <1>9, <2>2 DEF WorldInv
  <2>12. WorldInv'
    BY <1>1, <2>5, <2>10, <2>11 DEF WorldInv
  <2>13. OperationFits(execution[c].op)'
    BY <2>1, <2>6 DEF OperationFits
  <2>14. CallRowInv(c)'
    BY <1>2, <1>6, <2>2, <2>5, <2>6, <2>7, <2>10, <2>11, <2>13 DEF CallRowInv, CallEnded
  <2>15. \A d \in Caller : d # c =>
            /\ Claimed(c)' /\ Claimed(d) => Asked[d].grant # Asked[c].grant
            /\ CallKey(d) = CallKey(c)' => /\ Going(c)' => ~Going(d) /\ ~Out(d)
                                           /\ Out(c)' => ~Going(d)
    BY <2>2, <2>7, <2>8 DEF CallInv, CallRowInv
  <2> QED  BY <1>3, <2>5, <2>9, <2>11, <2>12, <2>14, <2>15, CallStep
<1> QED  BY <1>7, <1>8, <1>9

\* Every step of the calls, whoever makes it, keeps their invariant.
LEMMA CallKept ==
    ASSUME CallInv, NEW callers, callers \subseteq Caller, CallNext(callers) PROVE CallInv'
<1>1. \/ Elsewhere
      \/ \E c \in Caller :
            \/ Claim(c) \/ RevalidateFails(c) \/ IntentRefused(c) \/ RecordAndSend(c)
            \/ ApplyWrite(c) \/ RefuseWrite(c) \/ Answered(c) \/ ReadBackCall(c)
            \/ ReportCall(c) \/ CancelCall(c)
  BY DEF CallNext
<1> QED
  BY <1>1, ElsewhereStep, ClaimStep, PreparedStep, WriteStep, AnsweredStep, ReadBackStep,
     ReportStep

\* At the start no call has done anything.
LEMMA CallStart == CallInit => CallInv
<1> SUFFICES ASSUME CallInit PROVE CallInv
  OBVIOUS
<1>1. WorldInv
  BY MovesAssumption, InitialAssumption DEF CallInit, WorldInv
<1>2. PICK new : new = NewCall
  OBVIOUS
<1>3. /\ new.at = "new" /\ new.op = NoOperation /\ new.write = "none" /\ new.evidence = "none"
      /\ DOMAIN new = CallFields
  BY <1>2 DEF NewCall, CallFields
<1>4. ASSUME NEW c \in Caller PROVE execution[c] = new
  BY <1>2 DEF CallInit
<1>5. ASSUME NEW c \in Caller PROVE ~Going(c) /\ ~Out(c) /\ ~Claimed(c)
  BY <1>3, <1>4 DEF Going, Out, Claimed
<1>6. ASSUME NEW c \in Caller PROVE CallRowInv(c)
  BY <1>3, <1>4, <1>5 DEF CallRowInv
<1> QED  BY <1>1, <1>5, <1>6 DEF CallInv, CallPairInv

\* The invariant of the calls gives what is said of them.
LEMMA CallFollows == CallInv => CallsHold
<1> SUFFICES ASSUME CallInv PROVE CallsHold
  OBVIOUS
<1>1. WorldInv /\ \A c \in Caller : CallRowInv(c)
  BY DEF CallInv
<1>2. CallTypeOK
  BY <1>1 DEF CallTypeOK, WorldInv, CallRowInv
<1>3. SentAsApproved
  <2> SUFFICES ASSUME NEW c \in Caller, execution[c].write # "none"
               PROVE  /\ execution[c].op = Grants[Asked[c].grant].op /\ execution[c].op.repo \in InScope
                      /\ \A d \in Caller \ {c} : execution[d].write # "none" => Asked[d].grant # Asked[c].grant
    BY DEF SentAsApproved
  <2>1. Claimed(c) /\ execution[c].op = Grants[Asked[c].grant].op /\ execution[c].op.repo \in InScope
    BY <1>1 DEF CallRowInv, OperationFits
  <2>2. ASSUME NEW d \in Caller \ {c}, execution[d].write # "none" PROVE Asked[d].grant # Asked[c].grant
    <3>1. Claimed(d)
      BY <1>1, <2>2 DEF CallRowInv
    <3> QED  BY <2>1, <3>1 DEF CallInv, CallPairInv
  <2> QED  BY <2>1, <2>2
<1>4. CallsAccounted
  <2> SUFFICES ASSUME NEW c \in Caller
               PROVE  /\ execution[c].evidence = "FAILED" => execution[c].write = "refused"
                      /\ execution[c].at = "committed" => /\ execution[c].write = "applied"
                                                          /\ kept[CallKey(c)] = "COMMITTED"
                      /\ execution[c].write = "applied" => kept[CallKey(c)] # "FAILED_CLEAN"
    BY DEF CallsAccounted
  <2> QED  BY <1>1 DEF CallRowInv, HasKept, Out
<1> QED  BY <1>2, <1>3, <1>4 DEF CallsHold

\* A read-back that verifies saw the approved object.
LEMMA VerifiedIsApproved ==
    ASSUME CallInv, NEW c \in Caller, Claimed(c), execution[c].write = "applied",
           Verification(execution[c].op, execution[c].number) = "VERIFIED"
    PROVE  LET op == Grants[Asked[c].grant].op IN
           /\ refs[op.target] = op.sha
           /\ op.tool = "create_pr" =>
                LET pull == pulls[execution[c].number] IN
                pull.open /\ pull.head = op.target /\ pull.base = op.base /\ pull.draft = op.draft
<1>1. PICK op, n : /\ op = execution[c].op /\ op = Grants[Asked[c].grant].op /\ n = execution[c].number
                   /\ op.tool \in {"create_branch", "create_pr"}
  BY DEF CallInv, CallRowInv, OperationFits
<1>2. PICK seen, due, fields : /\ seen = Observation(op, n) /\ due = Expected(op, n)
                               /\ fields = MutationContractOf(op.tool).verified
  OBVIOUS
<1>3. fields \subseteq DOMAIN seen /\ \A f \in fields : seen[f] = due[f]
  BY <1>1, <1>2 DEF Verification
<1>4. CASE op.tool = "create_branch"
  <2>1. fields = {"ref", "sha"} /\ due["sha"] = op.sha
    BY <1>2, <1>4, ContractFields DEF Expected
  <2>2. refs[op.target] # NoCommit
    <3> SUFFICES ASSUME refs[op.target] = NoCommit PROVE FALSE
      OBVIOUS
    <3>1. seen = << >>
      BY <1>2, <1>4 DEF Observation
    <3> QED  BY <1>3, <2>1, <3>1
  <2>3. seen["sha"] = refs[op.target]
    BY <1>2, <1>4, <2>2 DEF Observation
  <2> QED  BY <1>1, <1>3, <1>4, <2>1, <2>3
<1>5. CASE op.tool = "create_pr"
  <2>1. fields = {"number", "head_sha", "state"}
    BY <1>2, <1>5, ContractFields
  <2>2. due["head_sha"] = op.sha /\ due["state"] = "open"
    BY <1>2, <1>5 DEF Expected
  <2>3. PICK state : state = IF pulls[n].open THEN "open" ELSE "closed"
    OBVIOUS
  <2>4. seen["head_sha"] = refs[pulls[n].head] /\ seen["state"] = state
    BY <1>2, <1>5, <2>3 DEF Observation
  <2>5. pulls[n].head = op.target /\ pulls[n].base = op.base /\ pulls[n].draft = op.draft
    BY <1>1, <1>5 DEF CallInv, CallRowInv
  <2>6. refs[op.target] = op.sha /\ state = "open"
    BY <1>3, <2>1, <2>2, <2>4, <2>5
  <2>7. pulls[n].open
    BY <2>3, <2>6
  <2> QED  BY <1>1, <2>5, <2>6, <2>7
<1> QED  BY <1>1, <1>4, <1>5

\* A step of V2 is a step of the calls of one lane, or leaves the calls alone.
LEMMA CallOfV2 ==
    [V2Next]_v2Vars => (\E callers \in SUBSET Caller : CallNext(callers)) \/ UNCHANGED executionVars
<1>1. ASSUME CallLane PROVE \E callers \in SUBSET Caller : CallNext(callers)
  <2>1. PICK callers : /\ callers = IF lane = "calls" THEN {"branch", "pr", "again"}
                                    ELSE {"mail", "pr", "ready", "merge", "labels"}
                       /\ CallNext(callers)
    BY <1>1 DEF CallLane
  <2>2. callers \in SUBSET Caller
    BY <2>1, LaneCallers
  <2> QED  BY <2>1, <2>2
<1>2. V2Next => CallLane \/ UNCHANGED executionVars
  BY DEF V2Next, StoreLane, MergeLane, MintLane, WriteLane, ReadLane, BatchLane, PlanLane,
     RunbookLane, HybridLane, DomainsLane, ActivationLane
<1>3. UNCHANGED v2Vars => UNCHANGED executionVars
  BY DEF v2Vars
<1> QED  BY <1>1, <1>2, <1>3

\* Where no call moves their invariant stays.
LEMMA CallRest == ASSUME CallInv, UNCHANGED executionVars PROVE CallInv'
<1>1. UNCHANGED <<execution, consumed, kept, refs, pulls, moves>>
  BY DEF executionVars
<1>2. WorldInv'
  BY <1>1 DEF CallInv, WorldInv
<1>3. ASSUME NEW c \in Caller PROVE CallRowInv(c)'
  <2>1. CallRowInv(c)
    BY DEF CallInv
  <2>2. Going(c) \/ Out(c) \/ execution[c].at = "committed" => CallKey(c) \in DOMAIN kept
    BY <2>1 DEF CallRowInv, HasKept
  <2> QED  BY <1>1, <2>2, CallRowStays DEF PullsStay
<1>4. \A c, d \in Caller : CallPairInv(c, d)' = CallPairInv(c, d)
  BY <1>1 DEF CallPairInv, Going, Out, Claimed, CallKey
<1> QED  BY <1>2, <1>3, <1>4 DEF CallInv

\* GitHub holds the object of an operation.
Held(op, n) ==
    /\ refs[op.target] = op.sha
    /\ op.tool = "create_pr" => /\ pulls[n].open /\ pulls[n].head = op.target
                                /\ pulls[n].base = op.base /\ pulls[n].draft = op.draft

\* What a call saw is no later than now; and what it saw as approved is there until
\* others move.
SeenRow(c) ==
    /\ execution[c].seenAt \in Nat /\ execution[c].seenAt <= moves
    /\ (execution[c].at \in {"read", "committed"} /\ execution[c].seen = "VERIFIED"
            /\ execution[c].seenAt = moves) => Held(Grants[Asked[c].grant].op, execution[c].number)

SeenInv == \A c \in Caller : SeenRow(c)

\* A write of the executor makes what was not there, and changes nothing that was.
OnlyAdds ==
    /\ moves' = moves
    /\ \A b \in RefName : refs[b] # NoCommit => refs'[b] = refs[b]
    /\ \A i \in DOMAIN pulls : pulls'[i] = pulls[i]

\* What a step makes of what a call has seen.
LEMMA SeenChanges ==
    ASSUME CallInv, NEW d \in Caller, NEW changes, DOMAIN changes \subseteq CallFields,
           CallGoes(d, changes)
    PROVE  /\ \A f \in {"at", "seen", "seenAt", "number"} :
                execution'[d][f] = IF f \in DOMAIN changes THEN changes[f] ELSE execution[d][f]
           /\ \A c \in Caller : c # d => execution'[c] = execution[c]
  BY CallChanges DEF CallInv, WorldInv, CallRowInv, CallFields

\* A step of one call leaves what the others saw.
LEMMA SeenStep ==
    ASSUME CallInv, SeenInv, NEW d \in Caller, \A c \in Caller : c # d => execution'[c] = execution[c],
           OnlyAdds, SeenRow(d)'
    PROVE  SeenInv'
<1> SUFFICES ASSUME NEW c \in Caller, c # d PROVE SeenRow(c)'
  BY DEF SeenInv
<1>1. SeenRow(c) /\ CallRowInv(c) /\ execution'[c] = execution[c] /\ moves' = moves
  BY DEF SeenInv, CallInv, OnlyAdds
<1>2. ASSUME execution[c].at \in {"read", "committed"}, Held(Grants[Asked[c].grant].op, execution[c].number)
      PROVE  Held(Grants[Asked[c].grant].op, execution[c].number)'
  <2>1. PICK op, n : /\ op = execution[c].op /\ op = Grants[Asked[c].grant].op /\ n = execution[c].number
                     /\ op.target \in RefName /\ op.sha \in CommitId
                     /\ op.tool = "create_pr" => n \in DOMAIN pulls
    BY <1>1, <1>2 DEF CallRowInv, Claimed, OperationFits
  <2>2. Held(op, n)
    BY <1>2, <2>1
  <2>3. refs'[op.target] = refs[op.target]
    BY <2>1, <2>2, NoCommitAssumption DEF Held, OnlyAdds
  <2>4. op.tool = "create_pr" => pulls'[n] = pulls[n]
    BY <2>1 DEF OnlyAdds
  <2>5. Held(op, n)'
    BY <2>2, <2>3, <2>4 DEF Held
  <2>6. op = Grants[Asked[c].grant].op /\ n = execution'[c].number
    BY <1>1, <2>1
  <2> QED  BY <2>5, <2>6 DEF Held
<1> QED  BY <1>1, <1>2 DEF SeenRow

\* A step that takes a call to a place where it has seen nothing leaves nothing to show.
LEMMA SeenNothing ==
    ASSUME CallInv, SeenInv, NEW d \in Caller, NEW changes, DOMAIN changes \subseteq CallFields,
           CallGoes(d, changes), OnlyAdds, "seenAt" \notin DOMAIN changes,
           IF "at" \in DOMAIN changes THEN changes["at"] \notin {"read", "committed"}
           ELSE execution[d].at \notin {"read", "committed"}
    PROVE  SeenInv'
<1>1. /\ execution'[d].at \notin {"read", "committed"} /\ execution'[d].seenAt = execution[d].seenAt
      /\ \A c \in Caller : c # d => execution'[c] = execution[c]
  BY SeenChanges
<1>2. SeenRow(d)'
  BY <1>1 DEF SeenRow, SeenInv, OnlyAdds
<1> QED  BY <1>1, <1>2, SeenStep

\* A call ends elsewhere than in a success.
LEMMA SeenEnds ==
    ASSUME CallInv, SeenInv, NEW d \in Caller, NEW place, place \notin {"read", "committed"}, OnlyAdds,
           \/ CallGoes(d, [at |-> place])
           \/ \E o, evidence : CallEnds(d, place, o, evidence)
           \/ \E o, v : ConcludeCall(d, o, v, place)
    PROVE  SeenInv'
<1>1. ASSUME NEW p, p \notin {"read", "committed"}, CallGoes(d, [at |-> p]) PROVE SeenInv'
  <2>1. PICK changes : changes = [at |-> p]
    OBVIOUS
  <2>2. DOMAIN changes = {"at"} /\ changes["at"] = p
    BY <2>1
  <2> QED  BY <1>1, <2>1, <2>2, SeenNothing DEF CallFields
<1>2. ASSUME NEW o, NEW evidence, CallEnds(d, place, o, evidence) PROVE SeenInv'
  <2>1. PICK changes : changes = [at |-> place, evidence |-> evidence]
    OBVIOUS
  <2>2. DOMAIN changes = {"at", "evidence"} /\ changes["at"] = place
    BY <2>1
  <2>3. CallGoes(d, changes)
    BY <1>2, <2>1 DEF CallEnds
  <2> QED  BY <2>2, <2>3, SeenNothing DEF CallFields
<1>3. ASSUME NEW o, NEW v, ConcludeCall(d, o, v, place) PROVE SeenInv'
  <2>1. (\E evidence : CallEnds(d, place, o, evidence)) \/ CallGoes(d, [at |-> "denied"])
    BY <1>3 DEF ConcludeCall
  <2> QED  BY <1>1, <1>2, <2>1
<1> QED  BY <1>1, <1>2, <1>3

\* The steps up to the answer to the POST.
LEMMA SeenBefore ==
    ASSUME CallInv, SeenInv, NEW d \in Caller,
           \/ Claim(d) \/ RevalidateFails(d) \/ IntentRefused(d) \/ RecordAndSend(d)
           \/ Answered(d) \/ CancelCall(d)
    PROVE  SeenInv'
<1>1. OnlyAdds
  BY DEF OnlyAdds, Claim, RevalidateFails, IntentRefused, RecordAndSend, Answered, CancelCall
<1>2. CASE Claim(d)
  <2>1. PICK op, k : op = OperationAsked(d) /\ k = IdempotencyKey(Asked[d].principal, op, Asked[d].token)
    OBVIOUS
  <2>2. PICK said : said = BeginAnswer(k, LockName(op))
    OBVIOUS
  <2>3. said \notin {"read", "committed"}
    BY <2>2 DEF BeginAnswer
  <2>4. CallGoes(d, [at |-> "denied"]) \/ CallGoes(d, [at |-> said, op |-> op])
    BY <1>2, <2>1, <2>2 DEF Claim
  <2>5. PICK changes : changes = [at |-> said, op |-> op]
    OBVIOUS
  <2>6. DOMAIN changes = {"at", "op"} /\ changes["at"] = said
    BY <2>5
  <2>7. CallGoes(d, changes) => SeenInv'
    BY <1>1, <2>3, <2>6, SeenNothing DEF CallFields
  <2>8. CallGoes(d, [at |-> "denied"]) => SeenInv'
    BY <1>1, SeenEnds
  <2> QED  BY <2>4, <2>5, <2>7, <2>8
<1>3. CASE RevalidateFails(d) \/ IntentRefused(d) \/ RecordAndSend(d) \/ CancelCall(d)
  <2>1. PICK changes : changes = [at |-> "awaiting", write |-> "sent", evidence |-> "open"]
    OBVIOUS
  <2>2. DOMAIN changes = {"at", "write", "evidence"} /\ changes["at"] = "awaiting"
    BY <2>1
  <2>3. \/ CallEnds(d, "indeterminate", "AMBIGUOUS", "none") \/ CallEnds(d, "denied", "FAILED_CLEAN", "none")
        \/ CallGoes(d, [at |-> "denied"]) \/ CallGoes(d, [at |-> "cancelled"]) \/ CallGoes(d, changes)
    BY <1>3, <2>1 DEF RevalidateFails, IntentRefused, RecordAndSend, CancelCall
  <2>4. CallGoes(d, changes) => SeenInv'
    BY <1>1, <2>2, SeenNothing DEF CallFields
  <2>5. ASSUME NEW place \in {"indeterminate", "denied", "cancelled"},
               CallGoes(d, [at |-> place]) \/ \E o, evidence : CallEnds(d, place, o, evidence)
        PROVE  SeenInv'
    BY <1>1, <2>5, SeenEnds
  <2> QED  BY <2>3, <2>4, <2>5
<1>4. CASE Answered(d)
  <2>1. PICK s \in Statuses(execution[d].write) :
            LET outcome == ClassifyStatus(MutationContractOf(execution[d].op.tool), s) IN
            CASE outcome = "COMMITTED" ->
                    /\ CallGoes(d, [at |-> "reading_back", status |-> s]) /\ UNCHANGED kept
              [] outcome = "FAILED_CLEAN" -> ConcludeCall(d, outcome, "NOT_ATTEMPTED", "denied")
              [] OTHER -> ConcludeCall(d, outcome, "UNVERIFIABLE", "indeterminate")
    BY <1>4 DEF Answered
  <2>2. PICK outcome : outcome = ClassifyStatus(MutationContractOf(execution[d].op.tool), s)
    OBVIOUS
  <2>3. PICK changes : changes = [at |-> "reading_back", status |-> s]
    OBVIOUS
  <2>4. DOMAIN changes = {"at", "status"} /\ changes["at"] = "reading_back"
    BY <2>3
  <2>5. \/ CallGoes(d, changes)
        \/ ConcludeCall(d, outcome, "NOT_ATTEMPTED", "denied")
        \/ ConcludeCall(d, outcome, "UNVERIFIABLE", "indeterminate")
    BY <2>1, <2>2, <2>3
  <2>6. CallGoes(d, changes) => SeenInv'
    BY <1>1, <2>4, SeenNothing DEF CallFields
  <2>7. ASSUME NEW v, NEW place \in {"denied", "indeterminate"}, ConcludeCall(d, outcome, v, place)
        PROVE  SeenInv'
    BY <1>1, <2>7, SeenEnds
  <2> QED  BY <2>5, <2>6, <2>7
<1> QED  BY <1>2, <1>3, <1>4

\* GitHub's own steps: a write makes a branch that was not there, or one more pull request.
LEMMA SeenWrite ==
    ASSUME CallInv, SeenInv, NEW d \in Caller, ApplyWrite(d) \/ RefuseWrite(d) PROVE SeenInv'
<1>1. /\ execution[d].at \notin {"read", "committed"} /\ WorldInv
  BY DEF ApplyWrite, RefuseWrite, CallInv, CallRowInv
<1>2. OnlyAdds
  <2>1. moves' = moves
    BY DEF ApplyWrite, RefuseWrite
  <2>2. \A b \in RefName : refs[b] # NoCommit => refs'[b] = refs[b]
    BY <1>1 DEF ApplyWrite, RefuseWrite, WorldInv
  <2>3. \A i \in DOMAIN pulls : pulls'[i] = pulls[i]
    <3>1. PICK row : pulls' = pulls \/ pulls' = Append(pulls, row)
      BY DEF ApplyWrite, RefuseWrite
    <3>2. pulls \in Seq(PullRow) /\ Len(pulls) \in Nat /\ DOMAIN pulls = 1 .. Len(pulls)
      BY <1>1 DEF WorldInv
    <3> QED  BY <3>1, <3>2
  <2> QED  BY <2>1, <2>2, <2>3 DEF OnlyAdds
<1>3. ASSUME NEW w, CallGoes(d, [write |-> w]) PROVE SeenInv'
  <2>1. PICK changes : changes = [write |-> w]
    OBVIOUS
  <2>2. DOMAIN changes = {"write"}
    BY <2>1
  <2> QED  BY <1>1, <1>2, <1>3, <2>1, <2>2, SeenNothing DEF CallFields
<1>4. ASSUME NEW w, NEW n, CallGoes(d, [write |-> w, number |-> n]) PROVE SeenInv'
  <2>1. PICK changes : changes = [write |-> w, number |-> n]
    OBVIOUS
  <2>2. DOMAIN changes = {"write", "number"}
    BY <2>1
  <2> QED  BY <1>1, <1>2, <1>4, <2>1, <2>2, SeenNothing DEF CallFields
<1>5. \/ \E w : CallGoes(d, [write |-> w])
      \/ \E w, n : CallGoes(d, [write |-> w, number |-> n])
  BY DEF ApplyWrite, RefuseWrite
<1> QED  BY <1>3, <1>4, <1>5

\* The read-back: what GitHub answers is what it holds.
LEMMA SeenReadBack ==
    ASSUME CallInv, SeenInv, NEW d \in Caller, ReadBackCall(d) PROVE SeenInv'
<1>1. /\ Claimed(d) /\ execution[d].write = "applied" /\ WorldInv /\ UNCHANGED <<refs, pulls, moves>>
  BY DEF ReadBackCall, CallInv, CallRowInv, Going
<1>2. PICK v, changes : /\ v \in {Verification(execution[d].op, execution[d].number), "UNVERIFIABLE"}
                        /\ changes = [at |-> "read", seen |-> v, seenAt |-> moves]
                        /\ CallGoes(d, changes)
  BY DEF ReadBackCall
<1>3. /\ DOMAIN changes = {"at", "seen", "seenAt"} /\ changes["seen"] = v /\ changes["seenAt"] = moves
  BY <1>2
<1>4. /\ execution'[d].seen = v /\ execution'[d].seenAt = moves /\ execution'[d].number = execution[d].number
      /\ \A c \in Caller : c # d => execution'[c] = execution[c]
  BY <1>2, <1>3, SeenChanges DEF CallFields
<1>5. v = "VERIFIED" => Held(Grants[Asked[d].grant].op, execution[d].number)
  <2> SUFFICES ASSUME v = "VERIFIED" PROVE Held(Grants[Asked[d].grant].op, execution[d].number)
    OBVIOUS
  <2>1. Verification(execution[d].op, execution[d].number) = "VERIFIED"
    BY <1>2
  <2> QED  BY <1>1, <2>1, VerifiedIsApproved DEF Held
<1>6. Held(Grants[Asked[d].grant].op, execution[d].number)' = Held(Grants[Asked[d].grant].op, execution[d].number)
  BY <1>1, <1>4 DEF Held
<1>7. SeenRow(d)'
  BY <1>1, <1>4, <1>5, <1>6 DEF SeenRow, WorldInv
<1>8. OnlyAdds
  BY <1>1 DEF OnlyAdds
<1> QED  BY <1>4, <1>7, <1>8, SeenStep

\* The report says what the read-back saw.
LEMMA SeenReport ==
    ASSUME CallInv, SeenInv, NEW d \in Caller, ReportCall(d) PROVE SeenInv'
<1>1. execution[d].at = "read" /\ UNCHANGED <<refs, pulls, moves>> /\ OnlyAdds
  BY DEF ReportCall, OnlyAdds
<1>2. CASE ConcludeCall(d, "COMMITTED", "VERIFIED", "committed")
  <2>1. CASE CallGoes(d, [at |-> "denied"])
    BY <1>1, <2>1, SeenEnds
  <2>2. ASSUME NEW evidence, CallEnds(d, "committed", "COMMITTED", evidence) PROVE SeenInv'
    <3>1. PICK changes : changes = [at |-> "committed", evidence |-> evidence]
      OBVIOUS
    <3>2. DOMAIN changes = {"at", "evidence"} /\ CallGoes(d, changes)
      BY <2>2, <3>1 DEF CallEnds
    <3>3. /\ execution'[d].seen = execution[d].seen /\ execution'[d].seenAt = execution[d].seenAt
          /\ execution'[d].number = execution[d].number
          /\ \A c \in Caller : c # d => execution'[c] = execution[c]
      BY <3>2, SeenChanges DEF CallFields
    <3>4. Held(Grants[Asked[d].grant].op, execution[d].number)'
            = Held(Grants[Asked[d].grant].op, execution[d].number)
      BY <1>1, <3>3 DEF Held
    <3>5. SeenRow(d)'
      BY <1>1, <3>3, <3>4 DEF SeenRow, SeenInv
    <3> QED  BY <1>1, <3>3, <3>5, SeenStep
  <2> QED  BY <1>2, <2>1, <2>2 DEF ConcludeCall
<1>3. CASE ConcludeCall(d, "AMBIGUOUS", execution[d].seen, "indeterminate")
  <2>1. PICK place : place = "indeterminate" /\ place \notin {"read", "committed"}
    OBVIOUS
  <2>2. \E o, v : ConcludeCall(d, o, v, place)
    BY <1>3, <2>1
  <2> QED  BY <1>1, <2>1, <2>2, SeenEnds
<1> QED  BY <1>2, <1>3 DEF ReportCall

\* Other people: nothing a call saw is from after they moved.
LEMMA SeenElsewhere == ASSUME CallInv, SeenInv, Elsewhere PROVE SeenInv'
<1>1. execution' = execution /\ moves' = moves + 1 /\ moves \in Nat
  BY DEF Elsewhere, CallInv, WorldInv
<1> SUFFICES ASSUME NEW c \in Caller PROVE SeenRow(c)'
  BY DEF SeenInv
<1>2. execution[c].seenAt \in Nat /\ execution[c].seenAt <= moves
  BY DEF SeenInv, SeenRow
<1> QED  BY <1>1, <1>2 DEF SeenRow

\* Every step keeps true what was seen, or moves past it.
LEMMA SeenKept ==
    ASSUME CallInv, SeenInv, NEW callers, callers \subseteq Caller, CallNext(callers) PROVE SeenInv'
<1>1. \/ Elsewhere
      \/ \E d \in Caller :
            \/ Claim(d) \/ RevalidateFails(d) \/ IntentRefused(d) \/ RecordAndSend(d)
            \/ ApplyWrite(d) \/ RefuseWrite(d) \/ Answered(d) \/ ReadBackCall(d)
            \/ ReportCall(d) \/ CancelCall(d)
  BY DEF CallNext
<1> QED  BY <1>1, SeenElsewhere, SeenBefore, SeenWrite, SeenReadBack, SeenReport

\* GitHubMutationExecutor.execute over any constants: what is sent is what was approved,
\* once for each approval; a failure that is called clean was refused by GitHub, a success
\* was applied, and the key of an applied write is never free to be tried again.
THEOREM Calls == V2Spec => []CallsHold
<1>1. V2Init => CallInv
  BY CallStart DEF V2Init
<1>2. CallInv /\ [V2Next]_v2Vars => CallInv'
  BY CallOfV2, CallKept, CallRest
<1> QED  BY <1>1, <1>2, CallFollows, PTL DEF V2Spec

\* GitHubMutationExecutor._read_back over any constants: what the executor reports as a
\* success was at GitHub, in every approved field, when GitHub answered the read-back, and
\* is there as long as nobody else moves; no other call of the executor can undo it.
THEOREM Successes == V2Spec => []CommittedAsApproved
<1>1. V2Init => CallInv /\ SeenInv
  <2>1. CallInit => SeenInv
    <3> SUFFICES ASSUME CallInit, NEW c \in Caller PROVE SeenRow(c)
      BY DEF SeenInv
    <3>1. execution[c].at = "new" /\ execution[c].seenAt = 0 /\ moves = 0
      BY DEF CallInit, NewCall
    <3> QED  BY <3>1 DEF SeenRow
  <2> QED  BY <2>1, CallStart DEF V2Init
<1>2. CallInv /\ SeenInv /\ [V2Next]_v2Vars => (CallInv /\ SeenInv)'
  <2> SUFFICES ASSUME CallInv, SeenInv, [V2Next]_v2Vars PROVE CallInv' /\ SeenInv'
    OBVIOUS
  <2>1. CASE UNCHANGED executionVars
    <3>1. UNCHANGED <<execution, refs, pulls, moves>>
      BY <2>1 DEF executionVars
    <3>2. SeenInv'
      BY <3>1 DEF SeenInv, SeenRow, Held
    <3> QED  BY <2>1, <3>2, CallRest
  <2> QED  BY <2>1, CallOfV2, CallKept, SeenKept
<1>3. SeenInv => CommittedAsApproved
  BY DEF SeenInv, SeenRow, Held, CommittedAsApproved
<1> QED  BY <1>1, <1>2, <1>3, PTL DEF V2Spec

-----------------------------------------------------------------------------
(* Hybrid requests                                                         *)

\* What the tree decides: only a request that policy, allowance, shaping and the count
\* leave room for is agentic, and what runs by itself has usable operations.
LEMMA AgenticIsAllowed ==
    ASSUME NEW i, ResolveMode(i) = "AGENTIC"
    PROVE  /\ asked.policy # "DENY" /\ asked.agenticPolicy /\ asked.shapeable
           /\ i.allowance /\ ~(i.count >= MaxEscalations)
<1>1. AgenticGate(i) = "AGENTIC" /\ asked.policy # "DENY"
  BY DEF ResolveMode
<1> QED  BY <1>1 DEF AgenticGate, AllowsAgentic

\* A mode that runs by itself is not one of a denied request, and its operations are usable.
LEMMA DirectIsUsable ==
    ASSUME NEW i, ResolveMode(i) \in {"DIRECT", "BATCH", "DAG", "RUNBOOK"}
    PROVE  asked.policy # "DENY" /\ (ResolveMode(i) # "RUNBOOK" => AllUsable(i))
<1>1. AgenticGate(i) \notin {"DIRECT", "BATCH", "DAG", "RUNBOOK"}
  BY DEF AgenticGate
<1>2. ASSUME asked.policy = "DENY" PROVE ResolveMode(i) \in {"E-REQ-INVALID", "E-POLICY-DENY"}
  <2>1. CASE i.ops = {} /\ ~(i.residual \/ i.uncovered)
    BY <2>1 DEF ResolveMode
  <2>2. CASE ~(i.ops = {} /\ ~(i.residual \/ i.uncovered))
    BY <1>2, <2>2 DEF ResolveMode
  <2> QED  BY <2>1, <2>2
<1>3. ResolveMode(i) = "DIRECT" => AllUsable(i)
  BY <1>1 DEF ResolveMode
<1>4. ResolveMode(i) = "BATCH" => AllUsable(i)
  BY <1>1 DEF ResolveMode
<1>5. ResolveMode(i) = "DAG" => AllUsable(i)
  BY <1>1 DEF ResolveMode
<1> QED  BY <1>2, <1>3, <1>4, <1>5

\* An intent with all its fields.
Intact(i) ==
    i = [ops |-> i.ops, residual |-> i.residual, uncovered |-> i.uncovered, runbook |-> i.runbook,
         approved |-> i.approved, allowance |-> i.allowance, count |-> i.count]

\* The count the tree compares is the count of the reasoning steps, on top of what the
\* caller's intent brought along, and a request that waits for a step has one left.
HybridInv ==
    /\ EscalationContained
    /\ escalations \in Nat /\ tokens \in Nat
    /\ walk = "idle" => escalations = 0 /\ performed = {}
    /\ walk # "idle" =>
        /\ asked.intent \in Intent /\ Intact(current)
        /\ current.allowance = asked.intent.allowance
    /\ walk \in {"resolve", "reason"} => current.count = asked.intent.count + escalations
    /\ walk = "reason" =>
        /\ escalations < MaxEscalations /\ asked.policy # "DENY"
        /\ asked.intent.allowance /\ asked.agenticPolicy /\ asked.shapeable

\* Nothing is asked at first.
LEMMA HybridStart == HybridInit => HybridInv
  BY ResolverAssumption DEF HybridInit, HybridInv, EscalationContained

\* Every step of a request keeps the count and its bounds.
LEMMA HybridKept == ASSUME HybridInv, HybridNext PROVE HybridInv'
<1>1. ASSUME NEW i \in Intent, NEW policy, NEW a, NEW s, Request(i, policy, a, s) PROVE HybridInv'
  BY <1>1, ResolverAssumption DEF Request, HybridInv, EscalationContained, Intact
<1>2. CASE RunMode
  <2>1. walk = "resolve" /\ walk' = ResolveMode(current) /\ walk' # "AGENTIC"
        /\ UNCHANGED <<asked, current, tokens, escalations>>
        /\ \/ /\ walk' \in {"DIRECT", "BATCH", "DAG", "RUNBOOK"}
              /\ performed' = performed \cup
                    {[mode |-> walk', ops |-> current.ops, approved |-> current.approved]}
           \/ UNCHANGED performed
    BY <1>2 DEF RunMode, Executed
  <2>2. walk' \notin {"idle", "resolve", "reason"}
    BY <2>1 DEF ResolveMode, AgenticGate
  <2>3. EscalationContained'
    <3>1. \A r \in performed' : r.mode \in {"DIRECT", "BATCH", "DAG"} => \A o \in r.ops : Usable(o)
      BY <2>1, DirectIsUsable DEF HybridInv, EscalationContained, AllUsable
    <3>2. asked.policy = "DENY" => performed' = performed
      BY <2>1, DirectIsUsable
    <3> QED  BY <2>1, <2>2, <3>1, <3>2 DEF HybridInv, EscalationContained
  <2> QED  BY <2>1, <2>2, <2>3 DEF HybridInv, Intact
<1>3. ASSUME NEW stepless, RunBoundPart(stepless) PROVE HybridInv'
  <2>1. walk = "resolve" /\ ResolveMode(current) = "AGENTIC" /\ walk' \in {"AGENTIC", "reason"}
        /\ UNCHANGED <<asked, current, tokens, escalations>>
    BY <1>3 DEF RunBoundPart
  <2>2. \A r \in performed' : r \in performed \/ r.mode = "AGENTIC"
    BY <1>3 DEF RunBoundPart, Executed
  <2>3. asked.policy # "DENY" /\ asked.agenticPolicy /\ asked.shapeable
        /\ current.allowance /\ ~(current.count >= MaxEscalations)
    BY <2>1, AgenticIsAllowed
  <2>4. EscalationContained'
    BY <2>1, <2>2, <2>3 DEF HybridInv, EscalationContained
  <2>5. escalations < MaxEscalations
    BY <2>1, <2>3, ResolverAssumption DEF HybridInv
  <2>6. asked.intent.allowance
    BY <2>1, <2>3 DEF HybridInv
  <2> QED  BY <2>1, <2>3, <2>4, <2>5, <2>6 DEF HybridInv, Intact
<1>4. ASSUME NEW p \in Proposal, Reason(p) PROVE HybridInv'
  <2>1. /\ walk = "reason" /\ UNCHANGED <<asked, performed>>
        /\ tokens' = tokens + p.tokens /\ escalations' = escalations + 1
        /\ \/ walk' \in {"E-AGENTIC-BUDGET-EXHAUSTED", "AGENTIC", "raised"} /\ UNCHANGED current
           \/ walk' = "resolve" /\ current' = Escalated(current, p.ops)
    BY <1>4 DEF Reason
  <2>2. tokens' \in Nat /\ escalations' \in Nat /\ escalations' <= MaxEscalations
    BY <2>1, ResolverAssumption DEF HybridInv
  <2>3. EscalationContained'
    BY <2>1, <2>2 DEF HybridInv, EscalationContained
  <2>4. asked.intent \in Intent /\ Intact(current) /\ asked.intent.count \in Nat
        /\ current.count = asked.intent.count + escalations
    BY <2>1, ResolverAssumption DEF HybridInv
  <2>5. CASE UNCHANGED current /\ walk' \in {"E-AGENTIC-BUDGET-EXHAUSTED", "AGENTIC", "raised"}
    BY <2>1, <2>2, <2>3, <2>5 DEF HybridInv, Intact
  <2>6. CASE walk' = "resolve" /\ current' = Escalated(current, p.ops)
    <3>1. current' = [ops |-> p.ops, residual |-> FALSE, uncovered |-> FALSE,
                      runbook |-> current.runbook, approved |-> current.approved,
                      allowance |-> current.allowance, count |-> current.count + 1]
      BY <2>4, <2>6 DEF Escalated, Intact
    <3>2. Intact(current') /\ current'.allowance = current.allowance /\ current'.count = current.count + 1
      BY <3>1 DEF Intact
    <3>3. current'.count = asked'.intent.count + escalations'
      BY <2>1, <2>4, <3>2 DEF HybridInv
    <3> QED  BY <2>1, <2>2, <2>3, <2>4, <2>6, <3>2, <3>3 DEF HybridInv
  <2> QED  BY <2>1, <2>5, <2>6
<1>5. CASE Raises
  <2>1. walk # "idle" /\ walk' = "raised" /\ UNCHANGED <<asked, current, tokens, escalations, performed>>
    BY <1>5 DEF Raises
  <2> QED  BY <2>1 DEF HybridInv, EscalationContained, Intact
<1> QED  BY <1>1, <1>2, <1>3, <1>4, <1>5 DEF HybridNext

-----------------------------------------------------------------------------
(* Profiles                                                                *)

\* A profile that was accepted holds, and so do the ones that engines were built for.
ActivationInv ==
    /\ profile # NoProfile => ~refused /\ ProfileHolds(profile)
        /\ profile = [flags |-> profile.flags, budget |-> profile.budget]
        /\ profile.budget \in Nat
    /\ RollbackAlwaysWorks

\* A lane that goes takes HYBRID with it, so what is left holds.
LEMMA SwitchHolds ==
    ASSUME ActivationInv, profile # NoProfile, NEW q,
           q = Disabled \/ \E c \in Lane : q = Without(profile, c)
    PROVE  ProfileHolds(q) /\ q = [flags |-> q.flags, budget |-> q.budget] /\ q.budget \in Nat
<1>1. CASE q = Disabled
  BY <1>1, BudgetAssumption DEF Disabled, ProfileHolds, IsEnabled
<1>2. ASSUME NEW c \in Lane, q = Without(profile, c)
      PROVE  ProfileHolds(q) /\ q = [flags |-> q.flags, budget |-> q.budget] /\ q.budget \in Nat
  <2>1. q = [flags |-> profile.flags \ {c, "HYBRID"}, budget |-> profile.budget]
    BY <1>2 DEF ActivationInv, Without
  <2> QED  BY <2>1 DEF ActivationInv, ProfileHolds, IsEnabled
<1> QED  BY <1>1, <1>2

\* There is no profile at first.
LEMMA ActivationStart == ActivationInit => ActivationInv
  BY DEF ActivationInit, ActivationInv, RollbackAlwaysWorks

\* Reading the environment, switching off and building keep profiles that hold.
LEMMA ActivationKept == ASSUME ActivationInv, ActivationNext PROVE ActivationInv'
<1>1. CASE FromEnv
  <2>1. PICK on \in SUBSET Flag, budget \in Budgets :
          LET p == [flags |-> on, budget |-> budget] IN
          \/ UNCHANGED profile
          \/ ProfileHolds(p) /\ profile' = p /\ UNCHANGED refused
    BY <1>1 DEF FromEnv
  <2>2. profile = NoProfile /\ ~refused /\ UNCHANGED built
    BY <1>1 DEF FromEnv
  <2> QED  BY <2>1, <2>2, BudgetAssumption DEF ActivationInv, RollbackAlwaysWorks
<1>2. ASSUME NEW q, Switch(q), q = Disabled \/ \E c \in Lane : q = Without(profile, c)
      PROVE  ActivationInv'
  <2>1. profile # NoProfile
    BY <1>2 DEF Switch
  <2>2. ProfileHolds(q) /\ q = [flags |-> q.flags, budget |-> q.budget] /\ q.budget \in Nat
    BY <1>2, <2>1, SwitchHolds
  <2> QED  BY <1>2, <2>1, <2>2 DEF Switch, ActivationInv, RollbackAlwaysWorks
<1>3. ASSUME UNCHANGED <<profile, refused>>, profile # NoProfile, NEW c,
             built' = [engine |-> c, profile |-> profile],
             c \in {"HYBRID", "agentic"} => IsEnabled(profile, "HYBRID")
      PROVE  ActivationInv'
  BY <1>3 DEF ActivationInv, RollbackAlwaysWorks, ProfileHolds
<1>4. ASSUME NEW c \in Lane, BuildEngine(c) PROVE ActivationInv'
  BY <1>3, <1>4 DEF BuildEngine, Lane
<1>5. CASE BuildAgentic
  BY <1>3, <1>5 DEF BuildAgentic, AllowsAgenticStep
<1> QED  BY <1>1, <1>2, <1>4, <1>5 DEF ActivationNext

\* What a step of all lanes is for these two.
LEMMA HybridOfV2 == [V2Next]_v2Vars => [HybridNext]_hybridVars /\ [ActivationNext]_activationVars
  BY DEF V2Next, v2Vars, StoreLane, MergeLane, MintLane, WriteLane, ReadLane, BatchLane, PlanLane,
         RunbookLane, HybridLane, CallLane, DomainsLane, ActivationLane

\* Neither changes while the other lanes move.
LEMMA HybridRest ==
    /\ HybridInv /\ UNCHANGED hybridVars => HybridInv'
    /\ ActivationInv /\ UNCHANGED activationVars => ActivationInv'
<1>1. ASSUME HybridInv, UNCHANGED hybridVars PROVE HybridInv'
  BY <1>1 DEF HybridInv, EscalationContained, Intact, hybridVars
<1>2. ASSUME ActivationInv, UNCHANGED activationVars PROVE ActivationInv'
  BY <1>2 DEF ActivationInv, RollbackAlwaysWorks, activationVars
<1> QED  BY <1>1, <1>2

\* HybridCoordinator.run and V2ProductionProfile: whatever the reasoning step proposes, a
\* request escalates within its budget, and only if policy and shaping let it; a profile
\* can be rolled back in any order, and a hybrid coordinator finds its lanes.
THEOREM Hybrids == V2Spec => []HybridHolds
<1>1. V2Init => HybridInv /\ ActivationInv
  BY HybridStart, ActivationStart DEF V2Init
<1>2. HybridInv /\ ActivationInv /\ [V2Next]_v2Vars => (HybridInv /\ ActivationInv)'
  BY HybridOfV2, HybridKept, ActivationKept, HybridRest
<1>3. HybridInv /\ ActivationInv => HybridHolds
  BY DEF HybridInv, ActivationInv, HybridHolds
<1> QED  BY <1>1, <1>2, <1>3, PTL DEF V2Spec

-----------------------------------------------------------------------------
(* Credentials                                                             *)

\* The records of the mint, of the attester and of the caller have all their fields; a
\* token that is being probed came from a file that was fit, under a declaration that
\* names the configured repositories.
Attester(place, token) ==
    [at |-> place, type |-> attester.type, doc |-> attester.doc, token |-> token,
     repos |-> attester.repos]

\* Material is empty, minted, or put there by an operator.
Origin(t) == t.class = "none" \/ t.perms = "exact" \/ t \in {f.body : f \in HandMade}

CredentialInv ==
    /\ CredentialTypeOK /\ AttestedScopeIsTrue /\ HandedIsFit
    /\ \A s \in {"read", "write"} : secret[s].kind \in {"regular", "symlink", "gone"}
    /\ Origin(secret["read"].body)
    /\ mint = [at |-> mint.at, repo |-> mint.repo, token |-> mint.token]
    /\ mint.at = "minted" => mint.token.perms = "exact"
    /\ attester = Attester(attester.at, attester.token)
    /\ caller = [at |-> caller.at, repo |-> caller.repo]
    /\ attester.at = "resolved" =>
        /\ attester.token.class = attester.type /\ Origin(attester.token)
        /\ CrossCheck(attester.doc, attester.repos, attester.type)

\* A file that is read without a complaint is fit.
LEMMA ReadyIsFit ==
    ASSUME NEW f, f.kind \in {"regular", "symlink", "gone"}, NEW type, ReadStatus(f, type) = "READY"
    PROVE  /\ f.kind = "regular" /\ ~f.open /\ f.body.class = type
           /\ f.body.class # "none"
  BY DEF ReadStatus

\* No material, no declaration of an operator, nothing handed out at first.
LEMMA CredentialStart == CredentialInit => CredentialInv
  BY DEF CredentialInit, CredentialInv, CredentialTypeOK, AttestedScopeIsTrue, HandedIsFit,
         Idle, NotAttesting, Unset, NoToken, Attester, Origin

\* An operator replaces a file, at any moment.
LEMMA OperatorStep ==
    ASSUME CredentialInv, NEW s \in {"read", "write"}, OperatorPuts(s) PROVE CredentialInv'
<1>1. PICK f \in HandMade : secret' = [secret EXCEPT ![s] = f]
  BY DEF OperatorPuts
<1>2. DOMAIN secret' = {"read", "write"}
      /\ \A r \in {"read", "write"} : secret'[r].kind \in {"regular", "symlink", "gone"}
  <2>1. f.kind \in {"regular", "symlink", "gone"}
    BY FilesAssumption
  <2> QED  BY <1>1, <2>1 DEF CredentialInv, CredentialTypeOK
<1>3. UNCHANGED <<document, mint, attester, caller, handed>>
  BY DEF OperatorPuts
<1>4. Origin(secret["read"].body)'
  <2>1. Origin(f.body)
    BY DEF Origin
  <2> QED  BY <1>1, <2>1 DEF CredentialInv, CredentialTypeOK, Origin
<1> QED  BY <1>2, <1>3, <1>4 DEF CredentialInv, CredentialTypeOK, AttestedScopeIsTrue, HandedIsFit,
            Attester, Origin

\* The broker reads the file again before it hands the material out.
LEMMA WriteSideStep == ASSUME CredentialInv, WriteSideNext PROVE CredentialInv'
<1>1. ASSUME NEW r, AuthorizeWrite(r) PROVE CredentialInv'
  BY <1>1 DEF AuthorizeWrite, CredentialInv, CredentialTypeOK, AttestedScopeIsTrue, HandedIsFit,
         Attester, Origin
<1>2. CASE HandOut
  <2>1. caller' = [at |-> "none", repo |-> caller.repo] /\ UNCHANGED <<secret, document, mint, attester>>
    BY <1>2 DEF HandOut, CredentialInv
  <2>2. \/ UNCHANGED handed
        \/ /\ Resolves(secret["write"], ProviderType, caller.repo)
           /\ handed' = {[file |-> secret["write"], repo |-> caller.repo]}
    BY <1>2 DEF HandOut
  <2>3. HandedIsFit'
    BY <2>2, ReadyIsFit DEF HandedIsFit, CredentialInv, Resolves
  <2> QED  BY <2>1, <2>3 DEF CredentialInv, CredentialTypeOK, AttestedScopeIsTrue, Attester, Origin
<1> QED  BY <1>1, <1>2, OperatorStep DEF WriteSideNext

\* The mint: it ends, or it has what it needs for the next write.
LEMMA MintStep ==
    ASSUME CredentialInv,
           WriteToken \/ WriteAttestation \/ MintFails \/ \E r : Discover(r) \/ \E t : MintToken(t)
    PROVE  CredentialInv'
<1>1. UNCHANGED <<attester, caller, handed>>
  BY DEF WriteToken, WriteAttestation, MintFails, Discover, MintToken
<1>2. mint'.at \in {"none", "found", "minted", "half"} /\ (mint'.at = "minted" => mint'.token.perms = "exact")
      /\ mint' = [at |-> mint'.at, repo |-> mint'.repo, token |-> mint'.token]
  <2>1. \/ mint' = Idle \/ \E r : mint' = [at |-> "found", repo |-> r, token |-> NoToken]
        \/ mint' = [mint EXCEPT !.at = "half"]
        \/ \E t : mint' = [mint EXCEPT !.at = "minted", !.token = t] /\ t.perms = "exact"
    <3>1. ASSUME NEW t, MintToken(t), mint' # Idle
          PROVE  mint' = [mint EXCEPT !.at = "minted", !.token = t] /\ t.perms = "exact"
      <4>1. t = AppToken(mint.repo) /\ mint' = [mint EXCEPT !.at = "minted", !.token = t]
        BY <3>1 DEF MintToken
      <4>2. AppToken(mint.repo).perms = "exact"
        BY DEF AppToken
      <4> QED  BY <4>1, <4>2
    <3> QED  BY <3>1 DEF WriteToken, WriteAttestation, MintFails, Discover
  <2>2. mint = [at |-> mint.at, repo |-> mint.repo, token |-> mint.token]
    BY DEF CredentialInv
  <2>3. CASE mint' = [mint EXCEPT !.at = "half"]
    BY <2>2, <2>3
  <2>4. ASSUME NEW t, mint' = [mint EXCEPT !.at = "minted", !.token = t], t.perms = "exact"
        PROVE  mint'.at = "minted" /\ mint'.token.perms = "exact" /\ mint' = [at |-> mint'.at, repo |-> mint'.repo, token |-> mint'.token]
    BY <2>2, <2>4
  <2>5. ASSUME NEW r, mint' = [at |-> "found", repo |-> r, token |-> NoToken]
        PROVE  mint'.at = "found" /\ mint' = [at |-> mint'.at, repo |-> mint'.repo, token |-> mint'.token]
    BY <2>5
  <2>6. CASE mint' = Idle
    BY <2>6 DEF Idle
  <2> QED  BY <2>1, <2>3, <2>4, <2>5, <2>6
<1>3. DOMAIN secret' = {"read", "write"}
      /\ \A r \in {"read", "write"} : secret'[r].kind \in {"regular", "symlink", "gone"}
  <2>1. CASE UNCHANGED secret
    BY <2>1 DEF CredentialInv, CredentialTypeOK
  <2>2. CASE WriteToken
    <3>1. secret' = [secret EXCEPT !["read"] = Written(mint.token)]
          /\ Written(mint.token).kind = "regular"
      BY <2>2 DEF WriteToken, Written
    <3> QED  BY <3>1 DEF CredentialInv, CredentialTypeOK
  <2> QED  BY <2>1, <2>2 DEF WriteAttestation, MintFails, Discover, MintToken
<1>4. Origin(secret["read"].body)'
  <2>1. CASE UNCHANGED secret
    BY <2>1 DEF CredentialInv, Origin
  <2>2. CASE WriteToken
    <3>1. secret' = [secret EXCEPT !["read"] = Written(mint.token)]
          /\ Written(mint.token).body = mint.token /\ mint.token.perms = "exact"
      BY <2>2 DEF WriteToken, Written, CredentialInv
    <3> QED  BY <3>1 DEF CredentialInv, CredentialTypeOK, Origin
  <2> QED  BY <2>1, <2>2 DEF WriteAttestation, MintFails, Discover, MintToken
<1> QED  BY <1>1, <1>2, <1>3, <1>4 DEF CredentialInv, CredentialTypeOK, AttestedScopeIsTrue,
            HandedIsFit, Attester, Origin

\* The attester: what it probes with was fit when it was read.
LEMMA AttesterStep ==
    ASSUME CredentialInv,
           ResolveMaterial \/ Attest \/ ProbeFails \/ \E R, type : LoadAttestation(R, type)
    PROVE  CredentialInv'
<1>1. UNCHANGED <<secret, mint, caller, handed>>
  BY DEF ResolveMaterial, Attest, ProbeFails, LoadAttestation
<1>2. Origin(secret["read"].body)'
  BY <1>1 DEF CredentialInv, Origin
<1> SUFFICES /\ attester'.at \in {"none", "declared", "resolved", "passed", "failed"}
             /\ AttestedScopeIsTrue' /\ attester' = Attester(attester.at, attester.token)'
             /\ attester'.at = "resolved" =>
                  /\ attester'.token.class = attester'.type /\ Origin(attester.token)'
                  /\ CrossCheck(attester'.doc, attester'.repos, attester'.type)
  BY <1>1, <1>2 DEF CredentialInv, CredentialTypeOK, HandedIsFit
<1>3. ASSUME NEW R, NEW type, LoadAttestation(R, type)
      PROVE  attester'.at \in {"declared", "failed"} /\ attester' = Attester(attester.at, attester.token)'
  BY <1>3 DEF LoadAttestation, NotAttesting, Attester
<1>4. ASSUME NEW place, NEW token, attester' = [attester EXCEPT !.at = place, !.token = token]
      PROVE  /\ attester'.at = place /\ attester'.token = token /\ attester'.type = attester.type
             /\ attester'.doc = attester.doc /\ attester'.repos = attester.repos
             /\ attester' = Attester(attester.at, attester.token)'
  <2>1. attester' = Attester(place, token)
    BY <1>4 DEF CredentialInv, Attester
  <2> QED  BY <2>1 DEF Attester
<1>5. ASSUME NEW place, attester' = [attester EXCEPT !.at = place]
      PROVE  attester' = [attester EXCEPT !.at = place, !.token = attester.token]
  BY <1>5 DEF CredentialInv, Attester
<1>6. CASE ResolveMaterial
  <2>1. CASE attester' = [attester EXCEPT !.at = "failed"]
    <3>1. attester'.at = "failed" /\ attester' = Attester(attester.at, attester.token)'
      BY <1>4, <1>5, <2>1
    <3> QED  BY <3>1 DEF AttestedScopeIsTrue
  <2>2. CASE /\ attester' = [attester EXCEPT !.at = "resolved", !.token = secret["read"].body]
             /\ CrossCheck(attester.doc, attester.repos, attester.type)
             /\ ReadStatus(secret["read"], attester.type) = "READY"
    <3>1. secret["read"].body.class = attester.type /\ Origin(secret["read"].body)
      BY <2>2, ReadyIsFit DEF CredentialInv
    <3>2. /\ attester'.at = "resolved" /\ attester'.token = secret["read"].body
          /\ attester'.type = attester.type /\ attester'.doc = attester.doc
          /\ attester'.repos = attester.repos /\ attester' = Attester(attester.at, attester.token)'
      BY <1>4, <2>2
    <3>3. Origin(attester.token)'
      BY <3>1, <3>2 DEF Origin
    <3>4. AttestedScopeIsTrue'
      BY <3>2 DEF AttestedScopeIsTrue
    <3> QED  BY <2>2, <3>1, <3>2, <3>3, <3>4
  <2> QED  BY <1>6, <2>1, <2>2 DEF ResolveMaterial, Resolves
<1>7. CASE Attest \/ ProbeFails
  <2>1. PICK end \in {"passed", "failed"} :
          /\ attester' = [attester EXCEPT !.at = end] /\ attester.at = "resolved"
          /\ end = "passed" => ProbesAgree(attester.token, attester.repos, attester.type)
    BY <1>7 DEF Attest, ProbeFails
  <2>2. /\ attester'.at = end /\ attester'.token = attester.token /\ attester'.type = attester.type
        /\ attester'.doc = attester.doc /\ attester'.repos = attester.repos
        /\ attester' = Attester(attester.at, attester.token)'
    BY <1>4, <1>5, <2>1
  <2>3. /\ attester.token.class = attester.type /\ Origin(attester.token)
        /\ CrossCheck(attester.doc, attester.repos, attester.type)
    BY <2>1 DEF CredentialInv
  <2>4. CASE end = "failed"
    BY <2>2, <2>4 DEF AttestedScopeIsTrue
  <2>5. CASE end = "passed"
    <3>1. ProbesAgree(attester.token, attester.repos, attester.type)
      BY <2>1, <2>5
    <3>2. AttestedScopeIsTrue'
      BY <2>2, <2>3, <3>1 DEF ProbesAgree, CrossCheck, Origin, ReadableBy, AttestedScopeIsTrue
    <3> QED  BY <2>2, <2>5, <3>2
  <2> QED  BY <2>4, <2>5
<1> QED  BY <1>3, <1>6, <1>7 DEF AttestedScopeIsTrue

\* The mint, the attester and the operator together.
LEMMA ReadSideStep == ASSUME CredentialInv, ReadSideNext PROVE CredentialInv'
<1>1. CASE OperatorDeclares
  BY <1>1 DEF OperatorDeclares, CredentialInv, CredentialTypeOK, AttestedScopeIsTrue, HandedIsFit,
         Attester, Origin
<1> QED  BY <1>1, MintStep, AttesterStep, OperatorStep DEF ReadSideNext

\* Nothing else touches them.
LEMMA CredentialRest == ASSUME CredentialInv, UNCHANGED credentialVars PROVE CredentialInv'
  BY DEF credentialVars, CredentialInv, CredentialTypeOK, AttestedScopeIsTrue, HandedIsFit,
         Attester, Origin

-----------------------------------------------------------------------------
(* Direct reads                                                            *)

\* A read that passed the policy is one of an allowed tool within the scope.
ReadInv ==
    /\ ScopeHidesCredential
    /\ reader.at \in {"none", "asked", "allowed", "sent"}
    /\ reader.at # "none" =>
        /\ reader = [at |-> reader.at, tool |-> reader.tool, repo |-> reader.repo]
        /\ reader.tool \in ReadTool
    /\ reader.at \in {"allowed", "sent"} =>
        /\ reader.repo \in Repo
        /\ reader.tool.direct /\ reader.tool.readOnly /\ reader.tool.rule = "ALLOW"

\* No read is under way at first.
LEMMA ReadStart == DirectInit => ReadInv
  BY DEF DirectInit, ReadInv, ScopeHidesCredential, NoRead

\* Codes that say nothing of the credential.
Silent == {"FEATURE_DISABLED", "TOOL_NOT_CANARIED", "REPOSITORY_NOT_ALLOWED",
           "TOOL_NOT_DIRECT_READ", "INVALID_ARGUMENT"}

\* An answer that says nothing, or is about a repository in scope.
LEMMA ToldStep ==
    ASSUME ReadInv, NEW t, NEW r, NEW path, NEW code, Told(t, r, path, code), UNCHANGED gets,
           r \notin Repo => code \in Silent
    PROVE  ReadInv'
<1>1. answers' = {[tool |-> t, repo |-> r, path |-> path, code |-> code]}
      /\ reader' = NoRead
  BY DEF Told
<1>2. ScopeHidesCredential'
  BY <1>1 DEF ReadInv, ScopeHidesCredential, Silent
<1> QED  BY <1>1, <1>2 DEF ReadInv, NoRead

\* Every step of a read: scope before policy, policy before the material.
LEMMA ReadStep == ASSUME ReadInv, DirectNext PROVE ReadInv'
<1>1. ASSUME NEW t \in ReadTool, NEW r, reader' = [at |-> "asked", tool |-> t, repo |-> r],
             UNCHANGED <<answers, gets>>
      PROVE  ReadInv'
  BY <1>1 DEF ReadInv, ScopeHidesCredential
<1>2. ASSUME NEW t \in ReadTool, NEW r, Route(t, r) PROVE ReadInv'
  <2>1. r \notin Repo => Ineligible(t, r) \in Silent
    BY DEF Ineligible, Silent
  <2> QED  BY <1>1, <1>2, <2>1, ToldStep DEF Route
<1>3. ASSUME NEW t \in ReadTool, NEW r, AskDirect(t, r) PROVE ReadInv'
  BY <1>1, <1>3, ToldStep DEF AskDirect, Silent
<1>4. CASE Authorize
  <2>1. reader.at = "asked" /\ UNCHANGED gets
    BY <1>4 DEF Authorize
  <2>2. CASE Denial(reader.tool, reader.repo) # "none"
    <3>1. reader.repo \notin Repo => Denial(reader.tool, reader.repo) \in Silent
      BY DEF Denial, Silent
    <3> QED  BY <1>4, <2>1, <2>2, <3>1, ToldStep DEF Authorize
  <2>3. CASE Denial(reader.tool, reader.repo) = "none"
    <3>1. reader' = [reader EXCEPT !.at = "allowed"] /\ UNCHANGED <<answers, gets>>
      BY <1>4, <2>3 DEF Authorize
    <3>2. reader.repo \in Repo /\ reader.tool.direct /\ reader.tool.readOnly
          /\ EvaluateTool(reader.tool) \in {"ALLOW", "none"}
      BY <2>3 DEF Denial
    <3>3. EvaluateTool(reader.tool) # "none"
      BY DEF EvaluateTool
    <3>4. reader.tool.rule = "ALLOW"
      BY <2>1, <3>2, <3>3, RulesAssumption DEF EvaluateTool, ReadInv
    <3>5. reader' = [at |-> "allowed", tool |-> reader.tool, repo |-> reader.repo]
      BY <2>1, <3>1 DEF ReadInv
    <3> QED  BY <2>1, <3>1, <3>2, <3>4, <3>5 DEF ReadInv, ScopeHidesCredential
  <2> QED  BY <2>2, <2>3
<1>5. CASE SendGet
  <2>1. reader.at = "allowed"
    BY <1>5 DEF SendGet
  <2>2. CASE Resolves(secret["read"], ProviderType, reader.repo)
    <3>1. gets' = gets \cup {[tool |-> reader.tool, repo |-> reader.repo, file |-> secret["read"]]}
          /\ reader' = [reader EXCEPT !.at = "sent"] /\ UNCHANGED answers
      BY <1>5, <2>2 DEF SendGet
    <3>2. reader' = [at |-> "sent", tool |-> reader.tool, repo |-> reader.repo]
      BY <2>1, <3>1 DEF ReadInv
    <3>3. ScopeHidesCredential'
      BY <2>1, <2>2, <3>1 DEF ReadInv, ScopeHidesCredential, Resolves
    <3> QED  BY <2>1, <3>2, <3>3 DEF ReadInv
  <2>3. CASE ~Resolves(secret["read"], ProviderType, reader.repo)
    BY <1>5, <2>1, <2>3, ToldStep DEF SendGet, ReadInv
  <2> QED  BY <2>2, <2>3
<1>6. CASE GetAnswered
  BY <1>6, ToldStep DEF GetAnswered, ReadInv
<1>7. CASE UNCHANGED <<reader, gets, answers>>
  BY <1>7 DEF ReadInv, ScopeHidesCredential
<1> QED  BY <1>2, <1>3, <1>4, <1>5, <1>6, <1>7 DEF DirectNext, Project, readVars

\* A read changes no credential; only an operator does meanwhile.
LEMMA ReadLeaves == ASSUME CredentialInv, DirectNext PROVE CredentialInv'
<1>1. UNCHANGED credentialVars \/ OperatorPuts("read")
  BY DEF DirectNext, Route, AskDirect, Authorize, SendGet, GetAnswered, Project
<1> QED  BY <1>1, CredentialRest, OperatorStep

\* A read rests while the other lanes move.
LEMMA ReadRest == ASSUME ReadInv, UNCHANGED readVars PROVE ReadInv'
  BY DEF readVars, ReadInv, ScopeHidesCredential
-----------------------------------------------------------------------------
(* Provider domains                                                        *)

\* The declarations of all documents, and what a handle is.
Declarable == UNION {{m.capabilities[i] : i \in DOMAIN m.capabilities} : m \in Manifests}
HandleRow == [for : Declarable, record : CredentialRecords, late : BOOLEAN, spent : BOOLEAN, uses : Nat]

\* A handle carries material that was given for its provider and its credential, for a
\* capability of a registered manifest.
HandleFits(h) ==
    /\ h.uses <= 1 /\ ~h.record.broad /\ (~h.spent => h.uses = 0)
    /\ KeyOfRecord(h.record) = <<h.for.id[1], h.for.credential>>
    /\ \E m \in registered :
        /\ m.provider = h.for.id[1] /\ m.provider \in ProviderAllowList
        /\ h.for.scopes \subseteq m.domain.granted[h.record.credential]
        /\ h.for.write => h.record.credential # m.domain.read

\* What is registered holds, and what the broker keeps is kept under its own key.
DomainsInv ==
    /\ registered \subseteq Manifests
    /\ \A m \in registered : ManifestHolds(m) /\ m.provider \in ProviderAllowList
    /\ \A k \in DOMAIN material :
        /\ material[k] \in CredentialRecords
        /\ KeyOfRecord(material[k]) = k /\ ~material[k].broad
    /\ handles \in Seq(HandleRow)
    /\ \A i \in DOMAIN handles : HandleFits(handles[i])

\* Nothing is registered and nothing is kept at first.
LEMMA DomainsStart == DomainsInit => DomainsInv
  BY DEF DomainsInit, DomainsInv

\* A record is kept under the key it names.
LEMMA RecordKept ==
    ASSUME DomainsInv, NEW r \in CredentialRecords, RecordFits(r), material' = WithRecord(r)
    PROVE  \A k \in DOMAIN material' :
            /\ material'[k] \in CredentialRecords
            /\ KeyOfRecord(material'[k]) = k /\ ~material'[k].broad
<1>1. DOMAIN material' = DOMAIN material \cup {KeyOfRecord(r)}
  BY DEF WithRecord
<1>2. \A k \in DOMAIN material' : material'[k] = IF k = KeyOfRecord(r) THEN r ELSE material[k]
  BY DEF WithRecord
<1>3. ~r.broad
  BY DEF RecordFits
<1> QED  BY <1>1, <1>2, <1>3 DEF DomainsInv

\* What was minted for a registered manifest stays so: nothing is unregistered.
LEMMA HandlesStay ==
    ASSUME DomainsInv, UNCHANGED handles, registered \subseteq registered'
    PROVE  \A i \in DOMAIN handles' : HandleFits(handles[i])'
<1> SUFFICES ASSUME NEW i \in DOMAIN handles PROVE HandleFits(handles[i])'
  OBVIOUS
<1>1. HandleFits(handles[i])
  BY DEF DomainsInv
<1> QED  BY <1>1 DEF HandleFits

\* A handle for a declared capability.
LEMMA MintedFits == ASSUME DomainsInv, NEW d \in Declared, MintHandle(d) PROVE DomainsInv'
<1> DEFINE key == <<d.id[1], d.credential>>
           h == [for |-> d, record |-> material[key], late |-> FALSE, spent |-> FALSE, uses |-> 0]
<1>1. key \in DOMAIN material /\ handles' = Append(handles, h)
      /\ UNCHANGED <<registered, frozen, material, revoked>>
  BY DEF MintHandle, ReadyAt
<1>2. PICK m \in registered : \E i \in DOMAIN m.capabilities : d = m.capabilities[i]
  BY DEF Declared
<1>3. m \in Manifests /\ ManifestHolds(m) /\ m.provider \in ProviderAllowList
  BY DEF DomainsInv
<1>4. d.id[1] = m.provider /\ d.scopes \subseteq m.domain.granted[d.credential]
      /\ ~(d.write /\ d.credential = m.domain.read)
  BY <1>2, <1>3 DEF ManifestHolds
<1>5. material[key] \in CredentialRecords /\ KeyOfRecord(material[key]) = key /\ ~material[key].broad
  BY <1>1 DEF DomainsInv
<1>6. material[key].credential = d.credential
  BY <1>5 DEF KeyOfRecord
<1>7. HandleFits(h)
  <2>1. h.for = d /\ h.record = material[key] /\ h.uses = 0 /\ ~h.spent
    OBVIOUS
  <2> HIDE DEF h
  <2> QED  BY <2>1, <1>3, <1>4, <1>5, <1>6 DEF HandleFits
<1>8. h \in HandleRow
  <2>1. d \in Declarable
    BY <1>2, <1>3 DEF Declarable
  <2> QED  BY <2>1, <1>5 DEF HandleRow
<1> HIDE DEF h
<1>9. handles \in Seq(HandleRow)
  BY DEF DomainsInv
<1>10. handles' \in Seq(HandleRow) /\ DOMAIN handles' = 1 .. (Len(handles) + 1)
       /\ \A i \in DOMAIN handles' : handles'[i] = h \/ (i \in DOMAIN handles /\ handles'[i] = handles[i])
  BY <1>1, <1>8, <1>9
<1>11. ASSUME NEW i \in DOMAIN handles' PROVE HandleFits(handles[i])'
  <2>1. HandleFits(handles'[i])
    BY <1>7, <1>10 DEF DomainsInv
  <2> QED  BY <2>1, <1>1 DEF HandleFits
<1> QED  BY <1>1, <1>10, <1>11 DEF DomainsInv

\* A handle that is used, revoked or late: it is spent at its first use.
LEMMA HandleMoves ==
    ASSUME DomainsInv, NEW i \in DOMAIN handles, ApplyHandle(i) \/ RevokeHandle(i) \/ HandleExpires(i)
    PROVE  DomainsInv'
<1>1. handles \in Seq(HandleRow) /\ handles[i] \in HandleRow /\ HandleFits(handles[i])
  BY DEF DomainsInv
<1>2. ~handles[i].spent /\ UNCHANGED <<registered, frozen, material, revoked>>
  BY DEF ApplyHandle, RevokeHandle, HandleExpires
<1>3. PICK row :
        /\ handles' = [handles EXCEPT ![i] = row]
        /\ \/ row = [handles[i] EXCEPT !.spent = TRUE, !.uses = IF handles[i].late THEN @ ELSE @ + 1]
           \/ row = [handles[i] EXCEPT !.spent = TRUE]
           \/ row = [handles[i] EXCEPT !.late = TRUE]
  BY DEF ApplyHandle, RevokeHandle, HandleExpires
<1>4. row \in HandleRow /\ row.for = handles[i].for /\ row.record = handles[i].record
      /\ row.uses \in {0, 1} /\ (~row.spent => row.uses = 0)
  <2>1. handles[i].uses = 0
    BY <1>1, <1>2 DEF HandleFits
  <2>2. CASE row = [handles[i] EXCEPT !.spent = TRUE, !.uses = IF handles[i].late THEN @ ELSE @ + 1]
    <3> DEFINE n == IF handles[i].late THEN 0 ELSE 1
    <3>1. row = [handles[i] EXCEPT !.spent = TRUE, !.uses = n] /\ n \in {0, 1}
      BY <2>1, <2>2
    <3> HIDE DEF n
    <3>2. row = [for |-> handles[i].for, record |-> handles[i].record, late |-> handles[i].late,
                 spent |-> TRUE, uses |-> n]
      BY <1>1, <3>1 DEF HandleRow
    <3>3. row.for = handles[i].for /\ row.record = handles[i].record /\ row.uses = n /\ row.spent
      BY <3>2
    <3>4. row \in HandleRow
      <4>1. handles[i].for \in Declarable /\ handles[i].record \in CredentialRecords
            /\ handles[i].late \in BOOLEAN
        BY <1>1 DEF HandleRow
      <4>2. n \in Nat
        BY <3>1
      <4> QED  BY <3>2, <4>1, <4>2 DEF HandleRow
    <3> QED  BY <3>1, <3>3, <3>4
  <2>3. CASE row = [handles[i] EXCEPT !.spent = TRUE]
    BY <1>1, <2>1, <2>3 DEF HandleRow
  <2>4. CASE row = [handles[i] EXCEPT !.late = TRUE]
    BY <1>1, <2>1, <2>4 DEF HandleRow
  <2> QED  BY <1>3, <2>2, <2>3, <2>4
<1>5. HandleFits(row)
  BY <1>1, <1>4 DEF HandleFits
<1>6. handles' \in Seq(HandleRow) /\ DOMAIN handles' = DOMAIN handles
      /\ \A j \in DOMAIN handles : handles'[j] = IF j = i THEN row ELSE handles[j]
  BY <1>1, <1>3, <1>4
<1>7. ASSUME NEW j \in DOMAIN handles' PROVE HandleFits(handles[j])'
  <2>1. HandleFits(handles'[j])
    BY <1>5, <1>6 DEF DomainsInv
  <2> QED  BY <1>2, <2>1 DEF HandleFits
<1> QED  BY <1>2, <1>6, <1>7 DEF DomainsInv

\* Registration, rotation, revocation and handles keep the domains apart.
LEMMA DomainsKept == ASSUME DomainsInv, DomainsNext PROVE DomainsInv'
<1>1. ASSUME NEW m \in Manifests, RegisterManifest(m) PROVE DomainsInv'
  <2>1. registered' = registered \cup {m} /\ UNCHANGED <<material, handles>>
        /\ ManifestHolds(m) /\ m.provider \in ProviderAllowList
    BY <1>1 DEF RegisterManifest
  <2>2. \A i \in DOMAIN handles' : HandleFits(handles[i])'
    BY <2>1, HandlesStay
  <2> QED  BY <2>1, <2>2 DEF DomainsInv
<1>2. ASSUME NEW r \in CredentialRecords, RegisterRecord(r) \/ RotateRecord(r) PROVE DomainsInv'
  <2>1. UNCHANGED <<registered, handles>>
        /\ (UNCHANGED material \/ (RecordFits(r) /\ material' = WithRecord(r)))
    BY <1>2 DEF RegisterRecord, RotateRecord
  <2>2. \A k \in DOMAIN material' :
            /\ material'[k] \in CredentialRecords
            /\ KeyOfRecord(material'[k]) = k /\ ~material'[k].broad
    BY <2>1, RecordKept DEF DomainsInv
  <2>3. \A i \in DOMAIN handles' : HandleFits(handles[i])'
    BY <2>1, HandlesStay
  <2> QED  BY <2>1, <2>2, <2>3 DEF DomainsInv
<1>3. CASE UNCHANGED <<registered, material, handles>>
  <2>1. \A i \in DOMAIN handles' : HandleFits(handles[i])'
    BY <1>3, HandlesStay
  <2> QED  BY <1>3, <2>1 DEF DomainsInv
<1> QED  BY <1>1, <1>2, <1>3, MintedFits, HandleMoves DEF DomainsNext, FreezeRegistry, RevokeCredential

\* The broker rests while the other lanes move.
LEMMA DomainsRest == ASSUME DomainsInv, UNCHANGED domainVars PROVE DomainsInv'
<1>1. UNCHANGED <<registered, material, handles>>
  BY DEF domainVars
<1>2. \A i \in DOMAIN handles' : HandleFits(handles[i])'
  BY <1>1, HandlesStay
<1> QED  BY <1>1, <1>2 DEF DomainsInv

-----------------------------------------------------------------------------
\* The lanes that touch credentials.
LEMMA CredentialOfV2 ==
    ASSUME [V2Next]_v2Vars
    PROVE  /\ \/ ReadSideNext \/ WriteSideNext \/ DirectNext
              \/ UNCHANGED credentialVars
           /\ DirectNext \/ UNCHANGED readVars
           /\ DomainsNext \/ UNCHANGED domainVars
  BY DEF V2Next, v2Vars, StoreLane, MergeLane, MintLane, WriteLane, ReadLane, BatchLane, PlanLane,
         RunbookLane, HybridLane, CallLane, DomainsLane, ActivationLane

\* Whatever files, declarations, documents, records and rules there are, and whenever they
\* are replaced: an attestation that passes is of a token of the declared type, and an App
\* token reaches exactly the repositories it was attested for; write material comes from a
\* fit file of the configured type for an allowed repository; an answer out of scope tells
\* nothing of the credential, and a provider is called with its own credential, once per
\* handle. Permissions, and what a fine-grained token selects, are the declaration's word.
THEOREM Credentials == V2Spec => []CredentialsHold
<1> DEFINE Inv == CredentialInv /\ ReadInv /\ DomainsInv
<1>1. V2Init => Inv
  BY CredentialStart, ReadStart, DomainsStart DEF V2Init
<1>2. Inv /\ [V2Next]_v2Vars => Inv'
  <2> SUFFICES ASSUME Inv, [V2Next]_v2Vars PROVE Inv'
    OBVIOUS
  <2>1. CredentialInv'
    BY CredentialOfV2, ReadSideStep, WriteSideStep, ReadLeaves, CredentialRest
  <2>2. ReadInv'
    BY CredentialOfV2, ReadStep, ReadRest
  <2>3. DomainsInv'
    BY CredentialOfV2, DomainsKept, DomainsRest
  <2> QED  BY <2>1, <2>2, <2>3
<1>3. Inv => CredentialsHold
  BY DEF CredentialInv, ReadInv, DomainsInv, HandleFits, CredentialsHold, DomainsApart
<1> QED  BY <1>1, <1>2, <1>3, PTL DEF V2Spec

-----------------------------------------------------------------------------
(* Plans                                                                   *)

\* The least of some natural numbers, and the greatest of bounded ones, are among them.
LEMMA LeastIn == ASSUME NEW S \in SUBSET Nat, S # {} PROVE Min(S) \in S /\ \A y \in S : Min(S) <= y
<1> DEFINE R == OpToRel(<, Nat)
<1>1. IsWellFoundedOn(R, Nat)
  BY NatLessThanWellFounded
<1>2. \A x, y \in Nat : y < x => <<y, x>> \in R
  BY DEF OpToRel
<1> HIDE DEF R
<1>3. PICK x \in S : \A y \in S : ~(<<y, x>> \in R)
  BY <1>1, WFMin
<1>4. ASSUME NEW y \in S PROVE x <= y
  <2>1. x \in Nat /\ y \in Nat /\ ~(y < x)
    BY <1>2, <1>3
  <2> QED  BY <2>1
<1> QED  BY <1>4 DEF Min

\* The same for the greatest of bounded ones.
LEMMA GreatestIn ==
    ASSUME NEW S \in SUBSET Nat, S # {}, NEW b \in Nat, \A x \in S : x <= b
    PROVE  Max(S) \in S /\ \A y \in S : Max(S) >= y
<1> DEFINE T == {b - x : x \in S}
<1>1. T \in SUBSET Nat /\ T # {}
  <2>1. ASSUME NEW x \in S PROVE b - x \in Nat
    <3>1. x \in Nat /\ x <= b
      OBVIOUS
    <3> QED  BY <3>1
  <2> QED  BY <2>1
<1>2. Min(T) \in T /\ \A y \in T : Min(T) <= y
  BY <1>1, LeastIn
<1>3. PICK x \in S : Min(T) = b - x
  BY <1>2
<1>4. ASSUME NEW y \in S PROVE x >= y
  <2>1. x \in Nat /\ y \in Nat /\ b - x <= b - y
    BY <1>2, <1>3
  <2> QED  BY <2>1
<1> QED  BY <1>4 DEF Max
-----------------------------------------------------------------------------
(* The sort                                                                *)

\* What a node waits for.
Deps(n) == plan.nodes[n].deps

\* Nodes among which no cycle closes: of any of them, one waits for none of the others.
Acyclic(O) == \A S \in SUBSET O : S # {} => \E n \in S : Deps(n) \cap S = {}

\* The nodes that are ordered are closed under dependencies, each after its own, and rank
\* above them; an indegree counts the dependencies that are not ordered yet, and a node is
\* ready when there are none.
OrderInv ==
    /\ order \in Seq(Ids(plan)) /\ Cardinality(ToSet(order)) = Len(order)
    /\ \A i, j \in DOMAIN order : order[i] = order[j] => i = j
    /\ \A j \in DOMAIN order : \A q \in Deps(order[j]) : \E i \in DOMAIN order : i < j /\ order[i] = q
RankInv ==
    /\ DOMAIN ranks = ToSet(order)
    /\ \A n \in ToSet(order) : ranks[n] \in Nat /\ ranks[n] < Len(order)
    /\ \A n \in ToSet(order) : \A q \in Deps(n) : q \in ToSet(order) /\ ranks[q] < ranks[n]
DegreeInv ==
    /\ DOMAIN indegree = Ids(plan)
    /\ \A s \in Ids(plan) : indegree[s] = Cardinality(Deps(s) \ ToSet(order))
    /\ ready = {n \in Ids(plan) \ ToSet(order) : Deps(n) \subseteq ToSet(order)}
SortInv == OrderInv /\ RankInv /\ DegreeInv /\ Acyclic(ToSet(order))

\* The sort starts with nothing ordered.
LEMMA SortStart ==
    ASSUME plan \in PlanDocument, EdgesKnown(plan), order = << >>, ranks = << >>, StartSort
    PROVE  SortInv'
<1>1. ToSet(order) = {}
  BY DEF ToSet
<1>2. UNCHANGED <<plan, order, ranks>>
      /\ indegree' = [n \in Ids(plan) |-> Cardinality(Deps(n))]
      /\ ready' = {n \in Ids(plan) : Deps(n) = {}}
  BY DEF StartSort, Deps
<1>3. OrderInv'
  BY <1>1, <1>2, FS_EmptySet DEF OrderInv
<1>4. RankInv'
  BY <1>1, <1>2 DEF RankInv
<1>5. DegreeInv'
  <2>1. \A n : Deps(n)' = Deps(n)
    BY <1>2 DEF Deps
  <2>2. Ids(plan)' = Ids(plan) /\ ToSet(order)' = {}
    BY <1>1, <1>2 DEF Ids
  <2>3. \A n : Deps(n) \ {} = Deps(n)
    OBVIOUS
  <2> QED  BY <1>2, <2>1, <2>2, <2>3 DEF DegreeInv
<1>6. Acyclic(ToSet(order))'
  BY <1>1, <1>2 DEF Acyclic
<1> QED  BY <1>3, <1>4, <1>5, <1>6 DEF SortInv

\* One turn of the loop.
LEMMA SortStep ==
    ASSUME plan \in PlanDocument, EdgesKnown(plan), SortInv, PopReady PROVE SortInv'
<1> DEFINE n == Min(ready)
           O == ToSet(order)
<1>1. IsFiniteSet(Ids(plan)) /\ Ids(plan) \subseteq Nat
  BY PlanAssumption DEF Ids
<1>2. ready # {} /\ n \in ready
  <2>1. ready \in SUBSET Nat /\ ready # {}
    BY <1>1 DEF PopReady, SortInv, DegreeInv
  <2> QED  BY <2>1, LeastIn
<1>3. n \in Ids(plan) /\ n \notin O /\ Deps(n) \subseteq O
  BY <1>2 DEF SortInv, DegreeInv
<1>4. /\ UNCHANGED plan /\ order' = Append(order, n)
      /\ ranks' = [m \in DOMAIN ranks \cup {n} |->
                    IF m # n THEN ranks[m]
                    ELSE IF Deps(n) = {} THEN 0
                    ELSE Max({ranks[q] : q \in Deps(n) \cap DOMAIN ranks}) + 1]
      /\ indegree' = [s \in Ids(plan) |->
                    IF <<n, s>> \in Edges(plan) THEN indegree[s] - 1 ELSE indegree[s]]
      /\ ready' = (ready \ {n}) \cup Freed(n, indegree')
  BY DEF PopReady, Deps
<1>5. Ids(plan)' = Ids(plan) /\ \A m : Deps(m)' = Deps(m)
  BY <1>4 DEF Ids, Deps
<1>6. \A s \in Ids(plan) : Deps(s) \subseteq Ids(plan) /\ IsFiniteSet(Deps(s))
  <2>1. \A s \in Ids(plan) : Deps(s) \in SUBSET Ids(plan)
    BY DEF EdgesKnown, Deps
  <2> QED  BY <1>1, <2>1, FS_Subset
<1>7. \A s \in Ids(plan) : <<n, s>> \in Edges(plan) <=> n \in Deps(s)
  BY <1>3 DEF Edges, Deps
<1>8. order \in Seq(Ids(plan)) /\ Cardinality(O) = Len(order) /\ O \in SUBSET Ids(plan)
  BY DEF SortInv, OrderInv, ToSet
<1> HIDE DEF n
<1>9. /\ order' \in Seq(Ids(plan)) /\ Len(order') = Len(order) + 1
      /\ DOMAIN order' = DOMAIN order \cup {Len(order) + 1}
      /\ order'[Len(order) + 1] = n
      /\ \A i \in DOMAIN order : order'[i] = order[i] /\ i < Len(order) + 1
  BY <1>3, <1>4, <1>8
<1>10. ToSet(order)' = O \cup {n}
  BY <1>9 DEF ToSet
<1>11. \A i \in DOMAIN order : order[i] \in O
  BY DEF ToSet
<1>12. OrderInv'
  <2>1. Cardinality(O \cup {n}) = Len(order) + 1
    BY <1>1, <1>3, <1>8, FS_Subset, FS_AddElement
  <2>2. \A i, j \in DOMAIN order' : order'[i] = order'[j] => i = j
    BY <1>3, <1>9, <1>11 DEF SortInv, OrderInv
  <2>3. ASSUME NEW j \in DOMAIN order', NEW q \in Deps(order'[j])
        PROVE  \E i \in DOMAIN order' : i < j /\ order'[i] = q
    <3>1. CASE j \in DOMAIN order
      BY <1>9, <2>3, <3>1 DEF SortInv, OrderInv
    <3>2. CASE j = Len(order) + 1
      <4>1. q \in O
        BY <1>3, <1>9, <2>3, <3>2
      <4>2. PICK i \in DOMAIN order : order[i] = q
        BY <4>1 DEF ToSet
      <4> QED  BY <1>9, <3>2, <4>2
    <3> QED  BY <1>9, <3>1, <3>2
  <2> QED  BY <1>5, <1>9, <1>10, <2>1, <2>2, <2>3 DEF OrderInv
<1>13. RankInv'
  <2>1. DOMAIN ranks = O /\ \A m \in O : ranks[m] \in Nat /\ ranks[m] < Len(order)
    BY DEF SortInv, RankInv
  <2>2. DOMAIN ranks' = O \cup {n} /\ \A m \in O : ranks'[m] = ranks[m]
    BY <1>3, <1>4, <2>1
  <2>3. ranks'[n] \in Nat /\ ranks'[n] < Len(order) + 1 /\ \A q \in Deps(n) : ranks[q] < ranks'[n]
    <3>1. CASE Deps(n) = {}
      BY <1>4, <1>8, <2>1, <3>1
    <3>2. CASE Deps(n) # {}
      <4> DEFINE R == {ranks[q] : q \in Deps(n) \cap DOMAIN ranks}
      <4>1. ranks'[n] = Max(R) + 1
        BY <1>4, <2>1, <3>2
      <4>2. R \in SUBSET Nat /\ R # {} /\ Len(order) \in Nat
        BY <1>3, <1>8, <2>1, <3>2
      <4>3. \A x \in R : x < Len(order) /\ x <= Len(order)
        BY <1>8, <2>1
      <4>4. Max(R) \in R /\ \A y \in R : Max(R) >= y
        BY <4>2, <4>3, GreatestIn
      <4>5. \A q \in Deps(n) : ranks[q] \in R
        BY <1>3, <2>1
      <4> HIDE DEF R
      <4>6. Max(R) \in Nat /\ Max(R) < Len(order)
        BY <4>2, <4>3, <4>4
      <4>7. ASSUME NEW q \in Deps(n) PROVE ranks[q] < ranks'[n]
        <5>1. ranks[q] \in Nat /\ ranks[q] <= Max(R)
          BY <4>2, <4>4, <4>5
        <5> QED  BY <4>1, <4>6, <5>1
      <4> QED  BY <4>1, <4>2, <4>6, <4>7
    <3> QED  BY <3>1, <3>2
  <2>4. ASSUME NEW m \in O \cup {n}
        PROVE  /\ ranks'[m] \in Nat /\ ranks'[m] < Len(order) + 1
               /\ \A q \in Deps(m) : q \in O \cup {n} /\ ranks'[q] < ranks'[m]
    <3>1. CASE m = n
      BY <1>3, <2>2, <2>3, <3>1
    <3>2. CASE m \in O
      <4>1. \A q \in Deps(m) : q \in O /\ ranks[q] < ranks[m]
        BY <3>2 DEF SortInv, RankInv
      <4> QED  BY <1>8, <2>1, <2>2, <3>2, <4>1
    <3> QED  BY <3>1, <3>2
  <2> QED  BY <1>5, <1>9, <1>10, <2>2, <2>4 DEF RankInv
<1>14. DegreeInv'
  <2>1. ASSUME NEW s \in Ids(plan)
        PROVE  /\ indegree'[s] = Cardinality(Deps(s) \ (O \cup {n}))
               /\ indegree'[s] = 0 <=> Deps(s) \subseteq O \cup {n}
    <3>1. IsFiniteSet(Deps(s) \ O) /\ indegree[s] = Cardinality(Deps(s) \ O)
      BY <1>6, FS_Difference DEF SortInv, DegreeInv
    <3>2. (Deps(s) \ O) \ {n} = Deps(s) \ (O \cup {n})
      OBVIOUS
    <3>3. n \in Deps(s) \ O <=> n \in Deps(s)
      BY <1>3
    <3>4. indegree'[s] = IF n \in Deps(s) THEN indegree[s] - 1 ELSE indegree[s]
      BY <1>4, <1>7
    <3>5. /\ IsFiniteSet((Deps(s) \ O) \ {n})
          /\ Cardinality((Deps(s) \ O) \ {n}) =
                IF n \in Deps(s) \ O THEN Cardinality(Deps(s) \ O) - 1 ELSE Cardinality(Deps(s) \ O)
      BY <3>1, FS_RemoveElement
    <3>6. indegree'[s] = Cardinality(Deps(s) \ (O \cup {n})) /\ IsFiniteSet(Deps(s) \ (O \cup {n}))
      BY <3>1, <3>2, <3>3, <3>4, <3>5
    <3>7. indegree'[s] = 0 <=> Deps(s) \ (O \cup {n}) = {}
      BY <3>6, FS_EmptySet
    <3> QED  BY <3>6, <3>7
  <2>2. ready = {m \in Ids(plan) \ O : Deps(m) \subseteq O}
    BY DEF SortInv, DegreeInv
  <2>3. Freed(n, indegree') = {s \in Ids(plan) : n \in Deps(s) /\ Deps(s) \subseteq O \cup {n}}
    BY <1>7, <2>1 DEF Freed
  <2>4. \A m \in O : Deps(m) \subseteq O
    BY DEF SortInv, RankInv
  <2>5. ready' = {m \in Ids(plan) \ (O \cup {n}) : Deps(m) \subseteq O \cup {n}}
    BY <1>3, <1>4, <2>2, <2>3, <2>4
  <2> QED  BY <1>4, <1>5, <1>10, <2>1, <2>5 DEF DegreeInv
<1>15. Acyclic(ToSet(order))'
  <2>1. ASSUME NEW S \in SUBSET (O \cup {n}), S # {} PROVE \E m \in S : Deps(m) \cap S = {}
    <3>1. CASE S \subseteq {n}
      BY <1>3, <2>1, <3>1
    <3>2. CASE ~(S \subseteq {n})
      <4>1. S \ {n} \in SUBSET O /\ S \ {n} # {}
        BY <3>2
      <4>2. PICK m \in S \ {n} : Deps(m) \cap (S \ {n}) = {}
        BY <4>1 DEF SortInv, Acyclic
      <4>3. Deps(m) \subseteq O
        BY <4>1 DEF SortInv, RankInv
      <4> QED  BY <1>3, <4>2, <4>3
    <3> QED  BY <3>1, <3>2
  <2> QED  BY <1>5, <1>10, <2>1 DEF Acyclic
<1> QED  BY <1>12, <1>13, <1>14, <1>15 DEF SortInv
\* The end of the sort: what is not ordered then waits for itself.
LEMMA SortEnds ==
    ASSUME plan \in PlanDocument, EdgesKnown(plan), SortInv, ready = {}
    PROVE  IF Len(order) = Cardinality(Ids(plan)) THEN ToSet(order) = Ids(plan) ELSE Cyclic(plan)
<1>1. IsFiniteSet(Ids(plan))
  BY PlanAssumption DEF Ids
<1>2. ToSet(order) \in SUBSET Ids(plan) /\ Cardinality(ToSet(order)) = Len(order)
  BY DEF SortInv, OrderInv, ToSet
<1>3. CASE Len(order) = Cardinality(Ids(plan))
  BY <1>1, <1>2, <1>3, FS_Subset
<1>4. CASE Len(order) # Cardinality(Ids(plan))
  <2> DEFINE S == Ids(plan) \ ToSet(order)
  <2>1. S \in SUBSET Ids(plan) /\ S # {}
    <3>1. ToSet(order) # Ids(plan)
      BY <1>2, <1>4
    <3> QED  BY <1>2, <3>1
  <2>2. \A n \in S : Deps(n) \cap S # {}
    <3>1. \A n \in S : ~(Deps(n) \subseteq ToSet(order))
      BY DEF SortInv, DegreeInv
    <3>2. \A n \in S : Deps(n) \subseteq Ids(plan)
      BY DEF EdgesKnown, Deps
    <3> QED  BY <3>1, <3>2
  <2> QED  BY <1>4, <2>1, <2>2 DEF Cyclic, Deps
<1> QED  BY <1>3, <1>4

-----------------------------------------------------------------------------
(* The calls of a plan                                                     *)

\* What CheckPlan has found of every node.
NodesChecked ==
    \A n \in Ids(plan) :
        NodeOK(plan, n) /\ \A s \in DOMAIN plan.nodes[n].bindings : BindingOK(plan, n, s)

\* What each stage of validation has established, up to the calls that were made.
PlanInv ==
    /\ plan \in PlanDocument /\ ArgumentsFit
    /\ stage \in {"load", "edges"} => order = << >> /\ ranks = << >>
    /\ stage \in {"sort", "checks", "valid"} => EdgesKnown(plan) /\ SortInv
    /\ stage \in {"checks", "valid"} => ToSet(order) = Ids(plan)
    /\ stage = "valid" => NodesChecked
    /\ stage = "PLAN_CYCLE_DETECTED" => Cyclic(plan)

\* A type that fits what is declared fits where the declaration fits.
LEMMA FitsOn == ASSUME NEW t, NEW u, NEW e, Fits(t, u), Fits(u, e) PROVE Fits(t, e)
  BY DEF Fits

\* The arguments of a node that was checked and that resolve, in its contract.
LEMMA CallFits ==
    ASSUME NodesChecked, NEW n \in Ids(plan), IsTool(plan, n), Resolvable(n)
    PROVE  LET contract == ContractOf(plan, n)  args == ResolveArgs(n) IN
           /\ DOMAIN contract.args \subseteq DOMAIN args
           /\ \A s \in DOMAIN args : Fits(args[s].type, contract.args[s])
           /\ contract.resource \in DOMAIN args => args[contract.resource].v \in Scope
<1> DEFINE node == plan.nodes[n]
           contract == ContractOf(plan, n)
           args == ResolveArgs(n)
<1>1. NodeOK(plan, n) /\ \A s \in DOMAIN node.bindings : BindingOK(plan, n, s)
  BY DEF NodesChecked
<1>2. /\ node.tool \in DOMAIN Contract
      /\ \A s \in DOMAIN node.args : s \in DOMAIN contract.args /\ Fits(node.args[s].type, contract.args[s])
      /\ DOMAIN contract.args \subseteq DOMAIN node.args \cup DOMAIN node.bindings
      /\ contract.resource \in DOMAIN node.args /\ node.args[contract.resource].type = "string" =>
            node.args[contract.resource].v \in Scope
  BY <1>1 DEF NodeOK
<1>3. DOMAIN args = DOMAIN node.args \cup DOMAIN node.bindings
  BY DEF ResolveArgs
<1>4. ASSUME NEW s \in DOMAIN node.bindings
      PROVE  /\ args[s] = Read(node.bindings[s]) /\ Fits(args[s].type, contract.args[s])
             /\ s = contract.resource => args[s].v \in Scope
  <2>1. args[s] = Read(node.bindings[s])
    BY DEF ResolveArgs
  <2>2. Revalidated(Read(node.bindings[s]), node.bindings[s].type, IsTool(plan, n) /\ s = contract.resource)
    BY DEF Resolvable
  <2>3. Fits(Read(node.bindings[s]).type, node.bindings[s].type)
        /\ (s = contract.resource => Read(node.bindings[s]).v \in Scope)
    BY <2>2 DEF Revalidated
  <2>4. Fits(node.bindings[s].type, contract.args[s])
    BY <1>1 DEF BindingOK
  <2> QED  BY <2>1, <2>3, <2>4, FitsOn
<1>5. ASSUME NEW s \in DOMAIN node.args, s \notin DOMAIN node.bindings
      PROVE  /\ args[s] = node.args[s] /\ Fits(args[s].type, contract.args[s])
             /\ s = contract.resource => args[s].v \in Scope
  <2>1. args[s] = node.args[s]
    BY <1>5 DEF ResolveArgs
  <2>2. s = contract.resource => contract.args[s] = "string"
    BY <1>2, PlanAssumption DEF ContractOf
  <2>3. s = contract.resource => node.args[s].type = "string"
    BY <1>2, <2>2 DEF Fits
  <2> QED  BY <1>2, <2>1, <2>3
<1> HIDE DEF args, contract, node
<1>6. /\ DOMAIN contract.args \subseteq DOMAIN args
      /\ \A s \in DOMAIN args : Fits(args[s].type, contract.args[s])
      /\ contract.resource \in DOMAIN args => args[contract.resource].v \in Scope
  BY <1>2, <1>3, <1>4, <1>5
<1> QED  BY <1>6 DEF args, contract

\* Steps that leave the sort alone.
LEMMA SortRest ==
    ASSUME UNCHANGED <<plan, sortVars>> PROVE SortInv' = SortInv /\ Cyclic(plan)' = Cyclic(plan)
  BY DEF sortVars, SortInv, OrderInv, RankInv, DegreeInv, Acyclic, Deps, Cyclic

\* A document is loaded.
LEMMA PlanStart == PlanInit => PlanInv
  BY DEF PlanInit, PlanInv, ArgumentsFit
\* A stage is left for another one; the sort and the calls stay as they are.
LEMMA PlanLeaves ==
    ASSUME PlanInv, NEW how, Leave(how),
           how \in {"load", "edges"} => order = << >> /\ ranks = << >>,
           how \in {"sort", "checks", "valid"} => EdgesKnown(plan) /\ SortInv,
           how \in {"checks", "valid"} => ToSet(order) = Ids(plan),
           how = "valid" => NodesChecked,
           how = "PLAN_CYCLE_DETECTED" => Cyclic(plan)
    PROVE  PlanInv'
<1>1. stage' = how /\ UNCHANGED <<plan, sortVars, outbound>>
  BY DEF Leave
<1>2. SortInv' = SortInv /\ Cyclic(plan)' = Cyclic(plan)
  BY <1>1, SortRest
<1>3. UNCHANGED <<order, ranks>>
  BY <1>1 DEF sortVars
<1>4. NodesChecked' = NodesChecked /\ ArgumentsFit' = ArgumentsFit /\ EdgesKnown(plan)' = EdgesKnown(plan)
  BY <1>1 DEF NodesChecked, ArgumentsFit
<1> QED  BY <1>1, <1>2, <1>3, <1>4 DEF PlanInv, Ids

\* A node of a valid plan ends.
LEMMA NodeEnds ==
    ASSUME PlanInv, NEW n \in Ids(plan), RejectBound(n) \/ Transform(n) \/ CallTool(n)
    PROVE  PlanInv'
<1>1. stage = "valid" /\ UNCHANGED <<plan, stage, sortVars>>
  BY DEF RejectBound, Transform, CallTool, Fails, Due
<1>2. SortInv' /\ NodesChecked' /\ EdgesKnown(plan)'
  BY <1>1, SortRest DEF PlanInv, NodesChecked
<1>3. ArgumentsFit'
  <2>1. CASE UNCHANGED outbound
    BY <2>1 DEF PlanInv, ArgumentsFit
  <2>2. CASE CallTool(n)
    <3>1. outbound' = outbound \cup {<<plan.nodes[n].tool, ResolveArgs(n)>>}
          /\ IsTool(plan, n) /\ Resolvable(n)
      BY <2>2 DEF CallTool
    <3>2. LET contract == ContractOf(plan, n)  args == ResolveArgs(n) IN
          /\ DOMAIN contract.args \subseteq DOMAIN args
          /\ \A s \in DOMAIN args : Fits(args[s].type, contract.args[s])
          /\ contract.resource \in DOMAIN args => args[contract.resource].v \in Scope
      BY <1>1, <3>1, CallFits DEF PlanInv
    <3> QED  BY <3>1, <3>2 DEF PlanInv, ArgumentsFit, ContractOf
  <2> QED  BY <2>1, <2>2 DEF RejectBound, Transform, Fails
<1> QED  BY <1>1, <1>2, <1>3 DEF PlanInv, sortVars, Ids

\* Validation and execution, action by action.
LEMMA PlanKept == ASSUME PlanInv, PlanNext PROVE PlanInv'
<1>1. CASE Load
  BY <1>1, PlanLeaves DEF Load, PlanInv
<1>2. CASE RefuseEdges
  BY <1>2, PlanLeaves DEF RefuseEdges
<1>3. CASE StartSort
  <2>1. stage = "edges" /\ stage' = "sort" /\ EdgesKnown(plan) /\ UNCHANGED <<plan, outbound>>
    BY <1>3 DEF StartSort
  <2>2. SortInv'
    BY <1>3, <2>1, SortStart DEF PlanInv
  <2> QED  BY <2>1, <2>2 DEF PlanInv, ArgumentsFit
<1>4. CASE PopReady
  <2>1. stage = "sort" /\ UNCHANGED <<plan, stage, outbound>>
    BY <1>4 DEF PopReady
  <2>2. SortInv'
    BY <1>4, <2>1, SortStep DEF PlanInv
  <2> QED  BY <2>1, <2>2 DEF PlanInv, ArgumentsFit
<1>5. CASE EndSort
  <2>1. stage = "sort" /\ ready = {} /\ EdgesKnown(plan) /\ SortInv /\ plan \in PlanDocument
    BY <1>5 DEF EndSort, PlanInv
  <2>2. IF Len(order) = Cardinality(Ids(plan)) THEN ToSet(order) = Ids(plan) ELSE Cyclic(plan)
    BY <2>1, SortEnds
  <2> QED  BY <1>5, <2>1, <2>2, PlanLeaves DEF EndSort
<1>6. CASE CheckPlan
  <2>1. stage = "checks"
    BY <1>6 DEF CheckPlan
  <2>2. Leave("PLAN_REFUSED") \/ (NodesChecked /\ Leave("valid"))
    BY <1>6 DEF CheckPlan, NodesChecked
  <2> QED  BY <2>1, <2>2, PlanLeaves DEF PlanInv
<1> QED  BY <1>1, <1>2, <1>3, <1>4, <1>5, <1>6, NodeEnds DEF PlanNext

\* A plan rests while the other lanes move.
LEMMA PlanRest == ASSUME PlanInv, UNCHANGED planVars PROVE PlanInv'
<1>1. UNCHANGED <<plan, stage, sortVars, outbound>>
  BY DEF planVars
<1>2. SortInv' = SortInv /\ Cyclic(plan)' = Cyclic(plan)
  BY <1>1, SortRest
<1> QED  BY <1>1, <1>2 DEF PlanInv, NodesChecked, ArgumentsFit, sortVars

\* What the invariant says of the order and of the calls.
LEMMA PlanFollows == PlanInv => PlansHold
<1> SUFFICES ASSUME PlanInv, stage \in {"checks", "valid"}
             PROVE  /\ ~Cyclic(plan)
                    /\ \A i, j \in DOMAIN order : order[i] \in plan.nodes[order[j]].deps =>
                        i < j /\ ranks[order[i]] < ranks[order[j]]
  BY DEF PlanInv, PlansHold, OrderIsTopological
<1>1. SortInv /\ ToSet(order) = Ids(plan)
  BY DEF PlanInv
<1>2. ~Cyclic(plan)
  BY <1>1 DEF SortInv, Acyclic, Cyclic, Deps
<1>3. ASSUME NEW i \in DOMAIN order, NEW j \in DOMAIN order, order[i] \in Deps(order[j])
      PROVE  i < j /\ ranks[order[i]] < ranks[order[j]]
  <2>1. PICK k \in DOMAIN order : k < j /\ order[k] = order[i]
    BY <1>1, <1>3 DEF SortInv, OrderInv
  <2>2. k = i
    BY <1>1, <2>1 DEF SortInv, OrderInv
  <2>3. order[j] \in ToSet(order)
    BY DEF ToSet
  <2> QED  BY <1>1, <1>3, <2>1, <2>2, <2>3 DEF SortInv, RankInv
<1> QED  BY <1>2, <1>3 DEF Deps

\* validate_plan and _resolve_args, for any plans, contracts and answers: Kahn's loop ends
\* with all nodes exactly when no cycle closes, each after and ranked above what it depends
\* on, and a tool is called with arguments of its contract's types, on resources in scope.
THEOREM Plans == V2Spec => []PlansHold
<1>1. V2Init => PlanInv
  BY PlanStart DEF V2Init
<1>2. PlanInv /\ [V2Next]_v2Vars => PlanInv'
  <2>1. [V2Next]_v2Vars => PlanNext \/ UNCHANGED planVars
    BY DEF V2Next, v2Vars, StoreLane, MergeLane, MintLane, WriteLane, ReadLane, BatchLane, PlanLane,
           RunbookLane, HybridLane, CallLane, DomainsLane, ActivationLane
  <2> QED  BY <2>1, PlanKept, PlanRest
<1> QED  BY <1>1, <1>2, PlanFollows, PTL DEF V2Spec
=============================================================================
