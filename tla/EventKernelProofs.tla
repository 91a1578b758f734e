------------------------- MODULE EventKernelProofs -------------------------
(***************************************************************************)
(* The properties of EventKernel, for every plan: its invariants, that     *)
(* settled work stays settled, and that it implements StageBarrier.        *)
(***************************************************************************)
EXTENDS EventKernel, KernelEventsProofs

\* The inductive invariant.
IInv == KernelInv(machine)

(***************************************************************************)
(* The theorems.                                                           *)
(***************************************************************************)
LEMMA NextIsAccept ==
  ASSUME Next
  PROVE  \E e \in Events : ValidateEvent(machine, e) /\ machine' = ApplyEvent(machine, e)
BY DEF Next, Accept, ExecutionEvent, Seal, PlainUnit, Reasoned, Dispatch, Decide, Claim,
  Evidenced, Events, UnitEvents

\* Every state that any accepted event sequence reaches satisfies IInv.
THEOREM Inductive == Spec => []IInv
<1>1. Init => IInv
  BY KernelInvNew DEF Init, IInv
<1>2. IInv /\ [Next]_machine => IInv'
  <2> SUFFICES ASSUME IInv, [Next]_machine PROVE IInv'
    OBVIOUS
  <2>1. CASE Next
    BY <2>1, NextIsAccept, KernelInvStep DEF IInv
  <2>2. CASE UNCHANGED machine
    BY <2>2 DEF IInv
  <2> QED
    BY <2>1, <2>2
<1> QED
  BY <1>1, <1>2, PTL DEF Spec

\* Any ledger that replays leaves a machine of the right shape.
THEOREM TypeCorrect == Spec => []TypeOK
<1>1. IInv => TypeOK
  BY DEF IInv, KernelInv, TypeOK
<1> QED
  BY <1>1, Inductive, PTL

\* `needs` is a barrier, in every plan and for every event sequence.
THEOREM BarrierHolds == Spec => []Barrier
<1>1. IInv => Barrier
  BY DEF IInv, KernelInv, Barrier
<1> QED
  BY <1>1, Inductive, PTL

\* A sealed stage has its work.
THEOREM SealedHolds == Spec => []SealedHasWork
<1>1. IInv => SealedHasWork
  BY DEF IInv, KernelInv, SealedHasWork
<1> QED
  BY <1>1, Inductive, PTL

\* A unit is completed only with the proof its stage asks for.
THEOREM CompletionIsProven == Spec => []CompletedIsProven
<1>1. IInv => CompletedIsProven
  <2> SUFFICES ASSUME IInv, NEW r \in UnitRefs, machine.unit[r].status = "completed"
               PROVE  /\ machine.unit[r].attempts > 0
                      /\ machine.unit[r].outputs = "conforming"
                      /\ RequiresEvidence[StageOf(r)] \subseteq machine.unit[r].accepted
                      /\ RequiresEvidence[StageOf(r)] \cap Schematic
                           \subseteq machine.unit[r].matching
    BY DEF CompletedIsProven, CompletedIsProvenOf
  <2>1. UnitOK(r, machine.unit[r])
    BY DEF IInv, KernelInv, UnitsOK
  <2> QED
    BY <2>1 DEF UnitOK
<1> QED
  BY <1>1, Inductive, PTL

\* maxAttempts bounds the starts, and a unit made ready can always start.
THEOREM RetriesAreBounded == Spec => []RetryBudget
<1>1. IInv => RetryBudget
  BY DEF IInv, KernelInv, UnitsOK, UnitOK, AwaitsStart, RetryBudget, RetryBudgetOf
<1> QED
  BY <1>1, Inductive, PTL

\* No attempt inherits anything from the one before.
THEOREM AttemptsAreFresh == Spec => []FreshAttempt
<1>1. IInv => FreshAttempt
  BY DEF IInv, KernelInv, UnitsOK, UnitOK, AwaitsStart, FreshAttempt, FreshAttemptOf
<1> QED
  BY <1>1, Inductive, PTL

\* The status of the execution and those of its units agree on the outcome.
THEOREM OutcomeHolds == Spec => []OutcomeJustified
<1>1. IInv => OutcomeJustified
  BY DEF IInv, KernelInv, OutcomeJustified
<1> QED
  BY <1>1, Inductive, PTL

\* What a downstream stage builds on never changes, and nothing changes after
\* the end.
THEOREM SettledStaysSettled == Spec => SettledIsFinal
<1> DEFINE A == /\ \A r \in UnitRefs : machine.unit[r].status \in Satisfied
                      => machine'.unit[r] = machine.unit[r]
                /\ \A s \in machine.sealed :
                     GroupUnits(machine', s) = GroupUnits(machine, s)
                /\ machine.status \in Terminal => machine' = machine
<1>1. IInv /\ [Next]_machine => [A]_machine
  <2> SUFFICES ASSUME IInv, Next PROVE A
    OBVIOUS
  <2>1. PICK e \in Events : ValidateEvent(machine, e) /\ machine' = ApplyEvent(machine, e)
    BY NextIsAccept
  <2>2. machine \in Machine /\ OutcomeOf(machine) /\ Untouched(machine)
    BY DEF IInv, KernelInv
  <2>3. Step(machine, machine')
    BY <2>1, <2>2, StepCases
  <2>4. machine.status \notin Terminal
    BY <2>2, <2>3 DEF Step, UnitMoves, StageSeals, ExecutionMoves, ExecutionCancels,
      Untouched, Terminal
  <2> QED
    BY <2>2, <2>3, <2>4, SettledStays
<1> QED
  BY <1>1, Inductive, PTL DEF Spec, SettledIsFinal

(***************************************************************************)
(* Refinement: the kernel implements StageBarrier.                         *)
(***************************************************************************)
\* Each kind of step is a step of StageBarrier, or stutters.
LEMMA UnitMovesView ==
  ASSUME NEW r \in UnitRefs, machine \in Machine, UnitMoves(machine, machine', r)
  PROVE  [StageView!Next]_(StageView!barrierVars)
<1> DEFINE t == StageOf(r)
<1>1. /\ t \in Stages
      /\ r \in GroupUnits(machine', t)
      /\ \A s \in Stages : GroupUnits(machine, s) \subseteq GroupUnits(machine', s)
      /\ \A s \in Stages : s # t => GroupUnits(machine', s) = GroupUnits(machine, s)
      /\ \A q \in UnitRefs : q # r => machine'.unit[q] = machine.unit[q]
      /\ machine'.sealed = machine.sealed /\ machine'.status = machine.status
  BY GroupsGrow, RefsOfStage
<1>2. OutcomeView(machine) = "open" /\ OutcomeView(machine') = "open"
  BY <1>1 DEF OutcomeView, UnitMoves
<1>3. OpenedStages(machine') = OpenedStages(machine) \cup {t}
  BY <1>1 DEF OpenedStages
<1>4. \A s \in Stages : s # t => (GroupSatisfied(machine', s) <=> GroupSatisfied(machine, s))
  <2>1. \A s \in Stages : \A q \in GroupUnits(machine, s) : q \in UnitRefs /\ StageOf(q) = s
    BY RefsOfStage DEF GroupUnits
  <2> QED
    BY <1>1, <2>1 DEF GroupSatisfied
<1>5. ~GroupSatisfied(machine, t)
  BY RefsOfStage DEF GroupSatisfied, UnitMoves, MayRegister, GroupUnits
<1>6. CASE machine.unit[r].status = "absent"
  <2>1. t \notin machine.sealed /\ DependenciesSatisfied(machine, t)
    BY <1>6 DEF UnitMoves, MayRegister
  <2>2. FinishedStages(machine') = FinishedStages(machine)
    BY <1>1, <1>4, <1>5, <2>1 DEF FinishedStages, GroupSatisfied
  <2>3. Needs[t] \subseteq FinishedStages(machine)
    BY <1>1, <2>1, PlanAssumption DEF DependenciesSatisfied, FinishedStages
  <2>4. CASE t \in OpenedStages(machine)
    BY <1>2, <1>3, <2>2, <2>4 DEF StageView!barrierVars
  <2>5. CASE t \notin OpenedStages(machine)
    BY <1>1, <1>2, <1>3, <2>2, <2>3, <2>5 DEF StageView!Next, StageView!Open
  <2> QED
    BY <2>4, <2>5
<1>7. CASE machine.unit[r].status # "absent"
  <2>1. t \in OpenedStages(machine)
    BY <1>1, <1>7, RefsOfStage DEF OpenedStages, GroupUnits
  <2>2. t \notin FinishedStages(machine)
    BY <1>5 DEF FinishedStages
  <2>3. CASE GroupSatisfied(machine', t)
    <3>1. FinishedStages(machine') = FinishedStages(machine) \cup {t}
      BY <1>1, <1>4, <2>3 DEF FinishedStages
    <3> QED
      BY <1>1, <1>2, <1>3, <2>1, <2>2, <3>1 DEF StageView!Next, StageView!Finish
  <2>4. CASE ~GroupSatisfied(machine', t)
    <3>1. FinishedStages(machine') = FinishedStages(machine)
      BY <1>1, <1>4, <1>5, <2>4 DEF FinishedStages
    <3> QED
      BY <1>2, <1>3, <2>1, <3>1 DEF StageView!barrierVars
  <2> QED
    BY <2>3, <2>4
<1> QED
  BY <1>6, <1>7

LEMMA StageSealsView ==
  ASSUME NEW t \in Stages, machine \in Machine, StageSeals(machine, machine', t)
  PROVE  [StageView!Next]_(StageView!barrierVars)
<1>1. /\ machine'.unit = machine.unit /\ machine'.status = machine.status
      /\ machine'.sealed = machine.sealed \cup {t}
      /\ t \notin machine.sealed /\ GroupUnits(machine, t) # {}
  BY DEF StageSeals, MaySeal, Machine
<1>2. \A s \in Stages : GroupUnits(machine', s) = GroupUnits(machine, s)
  BY <1>1 DEF GroupUnits
<1>3. OutcomeView(machine) = "open" /\ OutcomeView(machine') = "open"
  BY <1>1 DEF OutcomeView, StageSeals
<1>4. OpenedStages(machine') = OpenedStages(machine) /\ t \in OpenedStages(machine)
  BY <1>1, <1>2 DEF OpenedStages
<1>5. \A s \in Stages : s # t => (GroupSatisfied(machine', s) <=> GroupSatisfied(machine, s))
  BY <1>1, <1>2 DEF GroupSatisfied
<1>6. t \notin FinishedStages(machine)
  BY <1>1 DEF FinishedStages, GroupSatisfied
<1>7. CASE GroupSatisfied(machine', t)
  <2>1. FinishedStages(machine') = FinishedStages(machine) \cup {t}
    BY <1>5, <1>7 DEF FinishedStages
  <2> QED
    BY <1>3, <1>4, <1>6, <2>1 DEF StageView!Next, StageView!Finish
<1>8. CASE ~GroupSatisfied(machine', t)
  <2>1. FinishedStages(machine') = FinishedStages(machine)
    BY <1>5, <1>6, <1>8 DEF FinishedStages
  <2> QED
    BY <1>3, <1>4, <2>1 DEF StageView!barrierVars
<1> QED
  BY <1>7, <1>8

LEMMA ExecutionMovesView ==
  ASSUME ExecutionMoves(machine, machine'), Untouched(machine)
  PROVE  [StageView!Next]_(StageView!barrierVars)
<1>1. machine'.unit = machine.unit /\ machine'.sealed = machine.sealed
  BY DEF ExecutionMoves
<1>2. \A s \in Stages : GroupUnits(machine', s) = GroupUnits(machine, s)
  BY <1>1 DEF GroupUnits
<1>3. OpenedStages(machine') = OpenedStages(machine)
  BY <1>2 DEF OpenedStages
<1>4. FinishedStages(machine') = FinishedStages(machine)
  BY <1>1, <1>2 DEF FinishedStages, GroupSatisfied
<1>5. AllWorkSatisfied(machine) => FinishedStages(machine) = Stages
  BY DEF AllWorkSatisfied, FinishedStages
<1>6. CASE machine.status = "created"
  BY <1>3, <1>4, <1>6 DEF ExecutionMoves, OutcomeView, StageView!barrierVars
<1>7. CASE machine.status = "running" /\ machine'.status = "succeeded" /\ AllWorkSatisfied(machine)
  BY <1>3, <1>4, <1>5, <1>7 DEF OutcomeView, StageView!Next, StageView!Succeed
<1>8. CASE machine.status = "running" /\ machine'.status = "failed"
  BY <1>3, <1>4, <1>8 DEF OutcomeView, StageView!Next, StageView!Stop
<1> QED
  BY <1>6, <1>7, <1>8 DEF ExecutionMoves, Untouched

LEMMA ExecutionCancelsView ==
  ASSUME machine \in Machine, ExecutionCancels(machine, machine')
  PROVE  [StageView!Next]_(StageView!barrierVars)
<1>1. /\ machine'.sealed = machine.sealed /\ machine'.status = "cancelled"
      /\ \A s \in Stages : GroupUnits(machine', s) = GroupUnits(machine, s)
  BY CancelKeeps DEF ExecutionCancels
<1>2. ASSUME NEW q \in UnitRefs
      PROVE  machine'.unit[q].status \in Satisfied <=> machine.unit[q].status \in Satisfied
  <2>1. IF machine.unit[q].status \in Finished \cup {"absent"}
        THEN machine'.unit[q] = machine.unit[q]
        ELSE machine'.unit[q] = [machine.unit[q] EXCEPT !.status = "cancelled"]
    BY CancelKeeps DEF ExecutionCancels
  <2>2. machine.unit[q] \in UnitState
    BY DEF Machine
  <2> QED
    BY <2>1, <2>2 DEF Satisfied, Finished, UnitState
<1>3. OpenedStages(machine') = OpenedStages(machine)
  BY <1>1 DEF OpenedStages
<1>4. \A s \in Stages : \A q \in GroupUnits(machine, s) : q \in UnitRefs
  BY RefsOfStage DEF GroupUnits
<1>5. FinishedStages(machine') = FinishedStages(machine)
  BY <1>1, <1>2, <1>4 DEF FinishedStages, GroupSatisfied
<1> QED
  BY <1>1, <1>3, <1>5 DEF ExecutionCancels, OutcomeView, StageView!Next, StageView!Stop

\* Every accepted event sequence is a run of the stage barrier.
THEOREM KernelImplementsBarrier == Spec => ImplementsBarrier
<1>1. Init => StageView!Init
  <2> SUFFICES ASSUME Init PROVE StageView!Init
    OBVIOUS
  <2>1. \A r \in UnitRefs : machine.unit[r].status = "absent"
    BY DEF Init, NewMachine, FreshUnit
  <2>2. machine.sealed = {} /\ machine.status = "created"
    BY DEF Init, NewMachine
  <2>3. OpenedStages(machine) = {}
    BY <2>1, RefsOfStage DEF OpenedStages, GroupUnits
  <2>4. FinishedStages(machine) = {}
    BY <2>2 DEF FinishedStages, GroupSatisfied
  <2> QED
    BY <2>2, <2>3, <2>4 DEF OutcomeView, StageView!Init
<1>2. IInv /\ [Next]_machine => [StageView!Next]_(StageView!barrierVars)
  <2> SUFFICES ASSUME IInv, [Next]_machine
               PROVE  [StageView!Next]_(StageView!barrierVars)
    OBVIOUS
  <2>1. CASE Next
    <3>1. PICK e \in Events : ValidateEvent(machine, e) /\ machine' = ApplyEvent(machine, e)
      BY <2>1, NextIsAccept
    <3>2. machine \in Machine /\ Untouched(machine)
      BY DEF IInv, KernelInv
    <3>3. Step(machine, machine')
      BY <3>1, <3>2, StepCases
    <3> QED
      BY <3>2, <3>3, UnitMovesView, StageSealsView, ExecutionMovesView, ExecutionCancelsView
        DEF Step
  <2>2. CASE UNCHANGED machine
    BY <2>2 DEF StageView!barrierVars, OpenedStages, FinishedStages, OutcomeView
  <2> QED
    BY <2>1, <2>2
<1> QED
  BY <1>1, <1>2, Inductive, PTL DEF Spec, ImplementsBarrier, StageView!Spec

=============================================================================
