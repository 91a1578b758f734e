------------------------ MODULE KernelEventsProofs ------------------------
(***************************************************************************)
(* What an event that _validate_event lets through does to a machine, for  *)
(* every plan.  The inductive invariant KernelInv has three parts: what    *)
(* each unit satisfies by itself, what relates the units of different      *)
(* stages, and what relates the units to the execution.  An event moves    *)
(* one unit, seals one stage, or moves or cancels the execution, so the    *)
(* proof first says what each of these four kinds may do (StepCases) and   *)
(* then preserves each part once per kind, not once per event.             *)
(***************************************************************************)
EXTENDS KernelInvariants, TLAPS

(***************************************************************************)
(* The inductive invariant.                                                *)
(***************************************************************************)
AwaitsStart == {"pending", "awaiting-authorization", "ready"}

\* A unit by itself: the parts of CompletedIsProven, RetryBudget and
\* FreshAttempt, and what makes them inductive: a unit that was dispatched
\* has an attempt, a claim conforms, an accepted receipt matches its schema.
\* One that is not there has not been started.
UnitOK(r, u) ==
  /\ u.status = "absent" => u.attempts = 0
  /\ u.status \in {"running", "claimed", "awaiting-evidence", "completed"} =>
       u.attempts > 0
  /\ u.status \in {"claimed", "awaiting-evidence", "completed"} =>
       u.outputs = "conforming"
  /\ u.status = "completed" => RequiresEvidence[StageOf(r)] \subseteq u.accepted
  /\ u.accepted \cap Schematic \subseteq u.matching
  /\ u.attempts <= MaxAttempts[StageOf(r)]
  /\ u.status \in AwaitsStart => u.attempts < MaxAttempts[StageOf(r)]
  /\ u.status \in AwaitsStart \cup {"running"} => u.outputs = "empty"
  /\ u.recorded # {} =>
       u.status \in {"awaiting-evidence", "completed", "failed", "cancelled"}
  /\ u.accepted \cup u.matching \subseteq u.recorded
  /\ u.recorded \subseteq RequiresEvidence[StageOf(r)]

UnitsOK(m) == \A r \in UnitRefs : UnitOK(r, m.unit[r])

\* Before execution.created nothing has happened.
Untouched(m) == ~m.created => m.status = "created"

KernelInv(m) ==
  /\ m \in Machine
  /\ UnitsOK(m)
  /\ BarrierOf(m)
  /\ SealedOf(m)
  /\ OutcomeOf(m)
  /\ Untouched(m)

(***************************************************************************)
(* What a step may do.                                                     *)
(***************************************************************************)
\* The record of unit r stays in order, and its attempts stay counted.
Onward(r, u, v) == UnitOK(r, u) => UnitOK(r, v) /\ u.attempts <= v.attempts

\* Unit r moves on; nothing else changes.
UnitMoves(m, n, r) ==
  /\ m.created /\ m.status = "running"
  /\ n = [m EXCEPT !.unit = [m.unit EXCEPT ![r] = n.unit[r]]]
  /\ n.unit[r] \in UnitState
  /\ m.unit[r].status \notin Satisfied \cup {"cancelled"}
  /\ n.unit[r].status \notin {"absent", "cancelled"}
  /\ m.unit[r].status = "absent" => MayRegister(m, r)
  /\ Onward(r, m.unit[r], n.unit[r])

StageSeals(m, n, s) ==
  /\ m.created /\ m.status = "running"
  /\ MaySeal(m, s)
  /\ n = [m EXCEPT !.sealed = m.sealed \cup {s}]

\* The execution itself moves on; the units do not.
ExecutionMoves(m, n) ==
  /\ n \in Machine
  /\ n.sealed = m.sealed /\ n.unit = m.unit /\ n.created
  /\ \/ ~m.created /\ n.status = "created"
     \/ m.created /\ m.status = "created" /\ n.status = "running"
     \/ m.created /\ m.status = "running" /\ n.status = "succeeded" /\ AllWorkSatisfied(m)
     \/ /\ m.created /\ m.status = "running" /\ n.status = "failed"
        /\ \E r \in UnitRefs : m.unit[r].status = "failed"

ExecutionCancels(m, n) ==
  /\ m.created
  /\ m.status \in {"created", "running"}
  /\ n = ApplyCancel(m)

(***************************************************************************)
(* References and events.                                                  *)
(***************************************************************************)
\* A unit reference belongs to the group of its stage and to no other.
LEMMA RefsOfStage ==
  /\ \A r \in UnitRefs : StageOf(r) \in Stages /\ r \in RefsOf(StageOf(r))
  /\ \A s \in Stages : \A r \in RefsOf(s) : r \in UnitRefs /\ StageOf(r) = s
  /\ \A s \in Stages : <<s, DefaultKey>> \in RefsOf(s)
BY PlanAssumption DEF UnitRefs, RefsOf, StageOf

\* A new machine is a machine: the base case of every proof.
LEMMA NewMachineTyped == NewMachine \in Machine
BY DEF NewMachine, Machine, FreshUnit, UnitState, UnitStatus, Outputs, ExecutionStatus

\* The state of a unit that an event leaves behind has its type.
LEMMA FreshTyped == \A status \in UnitStatus : FreshUnit(status) \in UnitState
BY DEF FreshUnit, UnitState, Outputs

\* SetUnit to a proper next state of the unit is a UnitMoves step.
LEMMA SetUnitMoves ==
  ASSUME NEW m \in Machine, NEW r \in UnitRefs, NEW u \in UnitState,
         m.created, m.status = "running",
         m.unit[r].status \notin Satisfied \cup {"cancelled"},
         u.status \notin {"absent", "cancelled"},
         m.unit[r].status = "absent" => MayRegister(m, r),
         Onward(r, m.unit[r], u)
  PROVE  UnitMoves(m, SetUnit(m, r, u), r)
<1>1. m.unit \in [UnitRefs -> UnitState]
  BY DEF Machine
<1>2. SetUnit(m, r, u).unit[r] = u
  BY <1>1 DEF SetUnit, Machine
<1>3. SetUnit(m, r, u) = [m EXCEPT !.unit = [m.unit EXCEPT ![r] = u]]
  BY DEF SetUnit, Machine
<1> QED
  BY <1>2, <1>3 DEF UnitMoves

\* Registration, start, the gate after a claim, and completion.
LEMMA PlainUnitMoves ==
  ASSUME NEW m \in Machine, NEW e \in PlainUnitEvents, ValidateEvent(m, e)
  PROVE  UnitMoves(m, ApplyEvent(m, e), e.unit)
<1> DEFINE r == e.unit
           u == m.unit[r]
<1>0. /\ r \in UnitRefs /\ u \in UnitState
      /\ e.type \in {"unit.registered", "unit.started", "unit.awaiting-evidence", "unit.completed"}
      /\ MaxAttempts[StageOf(r)] \in Nat \ {0}
  BY RefsOfStage, PlanAssumption DEF PlainUnitEvents, Machine
<1>1. CASE e.type = "unit.registered"
  <2>1. m.created /\ m.status = "running" /\ MayRegister(m, r)
    BY <1>0, <1>1 DEF ValidateEvent, ValidateExecutionEvent, ValidateStageEvent,
         ValidateDispatchEvent, ValidateResultEvent
  <2>2. ApplyEvent(m, e) = SetUnit(m, r, FreshUnit("pending"))
    BY <1>1 DEF ApplyEvent
  <2>3. FreshUnit("pending") \in UnitState
    BY FreshTyped DEF UnitStatus
  <2>4. u.status = "absent"
    BY <2>1 DEF MayRegister
  <2>5. Onward(r, u, FreshUnit("pending"))
    BY <1>0, <2>4 DEF Onward, UnitOK, FreshUnit, AwaitsStart
  <2> QED
    BY <1>0, <2>1, <2>2, <2>3, <2>4, <2>5, SetUnitMoves DEF FreshUnit, Satisfied
<1>2. CASE e.type = "unit.started"
  <2> DEFINE v == [u EXCEPT !.status = "running", !.attempts = u.attempts + 1]
  <2>1. /\ m.created /\ m.status = "running"
        /\ u.status = "ready" /\ u.attempts < MaxAttempts[StageOf(r)]
    BY <1>0, <1>2 DEF ValidateEvent, ValidateExecutionEvent, ValidateStageEvent,
         ValidateDispatchEvent, ValidateResultEvent, AttemptLeft
  <2>2. ApplyEvent(m, e) = SetUnit(m, r, v)
    BY <1>2 DEF ApplyEvent
  <2>3. v \in UnitState /\ v.status = "running"
    <3> DEFINE k == u.attempts + 1
    <3>1. k \in Nat
      BY <1>0 DEF UnitState
    <3>2. v = [u EXCEPT !.status = "running", !.attempts = k]
      OBVIOUS
    <3> HIDE DEF v, k
    <3> QED
      BY <1>0, <3>1, <3>2 DEF UnitState, UnitStatus
  <2>4. Onward(r, u, v)
    BY <1>0, <2>1 DEF Onward, UnitOK, UnitState, AwaitsStart
  <2> HIDE DEF v
  <2> QED
    BY <1>0, <2>1, <2>2, <2>3, <2>4, SetUnitMoves DEF Satisfied
<1>3. CASE e.type = "unit.awaiting-evidence"
  <2> DEFINE v == [u EXCEPT !.status = "awaiting-evidence"]
  <2>1. m.created /\ m.status = "running" /\ u.status = "claimed"
    BY <1>0, <1>3 DEF ValidateEvent, ValidateExecutionEvent, ValidateStageEvent,
         ValidateDispatchEvent, ValidateResultEvent
  <2>2. ApplyEvent(m, e) = SetUnit(m, r, v)
    BY <1>3 DEF ApplyEvent, SetUnitStatus
  <2>3. v \in UnitState /\ v.status = "awaiting-evidence"
    BY <1>0 DEF UnitState, UnitStatus
  <2>4. Onward(r, u, v)
    BY <1>0, <2>1 DEF Onward, UnitOK, UnitState, AwaitsStart
  <2> HIDE DEF v
  <2> QED
    BY <1>0, <2>1, <2>2, <2>3, <2>4, SetUnitMoves DEF Satisfied
<1>4. CASE e.type = "unit.completed"
  <2> DEFINE v == [u EXCEPT !.status = "completed"]
  <2>1. /\ m.created /\ m.status = "running"
        /\ u.status \in {"claimed", "awaiting-evidence"}
        /\ RequiresEvidence[StageOf(r)] = {} \/ GatesAccepted(m, r)
    BY <1>0, <1>4 DEF ValidateEvent, ValidateExecutionEvent, ValidateStageEvent,
         ValidateDispatchEvent, ValidateResultEvent
  <2>2. ApplyEvent(m, e) = SetUnit(m, r, v)
    BY <1>4 DEF ApplyEvent, SetUnitStatus
  <2>3. v \in UnitState /\ v.status = "completed"
    BY <1>0 DEF UnitState, UnitStatus
  <2>4. Onward(r, u, v)
    BY <1>0, <2>1 DEF Onward, UnitOK, UnitState, AwaitsStart, GatesAccepted
  <2> HIDE DEF v
  <2> QED
    BY <1>0, <2>1, <2>2, <2>3, <2>4, SetUnitMoves DEF Satisfied
<1> QED
  BY <1>0, <1>1, <1>2, <1>3, <1>4

\* Failure of a dispatched unit, and skipping of a ready one.
LEMMA ReasonedUnitMoves ==
  ASSUME NEW m \in Machine, NEW e \in ReasonEvents, e.type # "execution.failed",
         ValidateEvent(m, e)
  PROVE  UnitMoves(m, ApplyEvent(m, e), e.unit)
<1> DEFINE r == e.unit
           u == m.unit[r]
<1>0. r \in UnitRefs /\ u \in UnitState /\ e.type \in {"unit.failed", "unit.skipped"}
  BY DEF ReasonEvents, Machine
<1>1. CASE e.type = "unit.failed"
  <2> DEFINE v == [u EXCEPT !.status = "failed"]
  <2>1. /\ m.created /\ m.status = "running"
        /\ u.status \in {"running", "claimed", "awaiting-evidence"}
    BY <1>0, <1>1 DEF ValidateEvent, ValidateExecutionEvent, ValidateStageEvent,
         ValidateDispatchEvent, ValidateResultEvent
  <2>2. ApplyEvent(m, e) = SetUnit(m, r, v)
    BY <1>1 DEF ApplyEvent, SetUnitStatus
  <2>3. v \in UnitState /\ v.status = "failed"
    BY <1>0 DEF UnitState, UnitStatus
  <2>4. Onward(r, u, v)
    BY <1>0, <2>1 DEF Onward, UnitOK, UnitState, AwaitsStart
  <2> HIDE DEF v
  <2> QED
    BY <1>0, <2>1, <2>2, <2>3, <2>4, SetUnitMoves DEF Satisfied
<1>2. CASE e.type = "unit.skipped"
  <2> DEFINE v == [u EXCEPT !.status = "skipped"]
  <2>1. m.created /\ m.status = "running" /\ u.status = "ready"
    BY <1>0, <1>2 DEF ValidateEvent, ValidateExecutionEvent, ValidateStageEvent,
         ValidateDispatchEvent, ValidateResultEvent
  <2>2. ApplyEvent(m, e) = SetUnit(m, r, v)
    BY <1>2 DEF ApplyEvent, SetUnitStatus
  <2>3. v \in UnitState /\ v.status = "skipped"
    BY <1>0 DEF UnitState, UnitStatus
  <2>4. Onward(r, u, v)
    BY <1>0, <2>1 DEF Onward, UnitOK, UnitState, AwaitsStart
  <2> HIDE DEF v
  <2> QED
    BY <1>0, <2>1, <2>2, <2>3, <2>4, SetUnitMoves DEF Satisfied
<1> QED
  BY <1>0, <1>1, <1>2

\* A request for authorization and dispatch, first or at a retry.
LEMMA DispatchMoves ==
  ASSUME NEW m \in Machine, NEW e \in DispatchEvents, ValidateEvent(m, e)
  PROVE  UnitMoves(m, ApplyEvent(m, e), e.unit)
<1> DEFINE r == e.unit
           u == m.unit[r]
           next == IF e.type = "unit.ready" THEN "ready" ELSE "awaiting-authorization"
           v == ResetUnit(u, next)
           w == [u EXCEPT !.status = next]
<1>0. /\ r \in UnitRefs /\ u \in UnitState /\ e.retry \in BOOLEAN
      /\ e.type \in {"authorization.requested", "unit.ready"}
      /\ MaxAttempts[StageOf(r)] \in Nat
  BY RefsOfStage, PlanAssumption DEF DispatchEvents, Machine
<1>1. /\ m.created /\ m.status = "running"
      /\ \/ u.status = "pending"
         \/ u.status = "failed" /\ e.retry /\ u.attempts < MaxAttempts[StageOf(r)]
  BY <1>0 DEF ValidateEvent, ValidateExecutionEvent, ValidateStageEvent,
       ValidateDispatchEvent, ValidateResultEvent, AttemptLeft
<1>2. \/ ApplyEvent(m, e) = SetUnit(m, r, v)
      \/ ApplyEvent(m, e) = SetUnit(m, r, w) /\ u.status = "pending"
  BY <1>0, <1>1 DEF ApplyEvent, SetUnitStatus
<1>3. v = [status |-> next, attempts |-> u.attempts, outputs |-> "empty",
           recorded |-> {}, accepted |-> {}, matching |-> {}]
  BY DEF ResetUnit, FreshUnit
<1>4. v \in UnitState /\ v.status = next
  BY <1>0, <1>3 DEF UnitState, UnitStatus, Outputs
<1>5. w \in UnitState /\ w.status = next
  BY <1>0 DEF UnitState, UnitStatus
<1>6. Onward(r, u, v)
  <2> HIDE DEF v
  <2> QED
    BY <1>0, <1>1, <1>3 DEF Onward, UnitOK, UnitState, AwaitsStart
<1>7. u.status = "pending" => Onward(r, u, w)
  BY <1>0, <1>1 DEF Onward, UnitOK, UnitState, AwaitsStart
<1>8. next \notin {"absent", "cancelled"}
  OBVIOUS
<1> HIDE DEF v, w, next
<1> QED
  BY <1>0, <1>1, <1>2, <1>4, <1>5, <1>6, <1>7, <1>8, SetUnitMoves DEF Satisfied

\* A decision on an open authorization request.
LEMMA DecisionMoves ==
  ASSUME NEW m \in Machine, NEW e \in DecisionEvents, ValidateEvent(m, e)
  PROVE  UnitMoves(m, ApplyEvent(m, e), e.unit)
<1> DEFINE r == e.unit
           u == m.unit[r]
           next == IF e.approved THEN "ready" ELSE "failed"
           v == [u EXCEPT !.status = next]
<1>0. /\ r \in UnitRefs /\ u \in UnitState /\ e.approved \in BOOLEAN
      /\ e.type = "authorization.decided"
  BY DEF DecisionEvents, Machine
<1>1. m.created /\ m.status = "running" /\ u.status = "awaiting-authorization"
  BY <1>0 DEF ValidateEvent, ValidateExecutionEvent, ValidateStageEvent,
       ValidateDispatchEvent, ValidateResultEvent
<1>2. ApplyEvent(m, e) = SetUnit(m, r, v)
  BY <1>0 DEF ApplyEvent, SetUnitStatus
<1>3. v \in UnitState /\ v.status = next
  BY <1>0 DEF UnitState, UnitStatus
<1>4. Onward(r, u, v)
  BY <1>0, <1>1 DEF Onward, UnitOK, UnitState, AwaitsStart
<1>5. next \notin {"absent", "cancelled"}
  OBVIOUS
<1> HIDE DEF v, next
<1> QED
  BY <1>0, <1>1, <1>2, <1>3, <1>4, <1>5, SetUnitMoves DEF Satisfied

\* A claim whose outputs conform.
LEMMA ClaimMoves ==
  ASSUME NEW m \in Machine, NEW e \in ClaimEvents, ValidateEvent(m, e)
  PROVE  UnitMoves(m, ApplyEvent(m, e), e.unit)
<1> DEFINE r == e.unit
           u == m.unit[r]
           v == [u EXCEPT !.status = "claimed", !.outputs = "conforming"]
<1>0. r \in UnitRefs /\ u \in UnitState /\ e.type = "unit.claimed"
  BY DEF ClaimEvents, Machine
<1>1. /\ m.created /\ m.status = "running" /\ u.status = "running"
      /\ e.outputs = "conforming"
  BY <1>0 DEF ValidateEvent, ValidateExecutionEvent, ValidateStageEvent,
       ValidateDispatchEvent, ValidateResultEvent
<1>2. ApplyEvent(m, e) = SetUnit(m, r, v)
  BY <1>0, <1>1 DEF ApplyEvent
<1>3. v \in UnitState /\ v.status = "claimed"
  BY <1>0 DEF UnitState, UnitStatus, Outputs
<1>4. Onward(r, u, v)
  BY <1>0, <1>1 DEF Onward, UnitOK, UnitState, AwaitsStart
<1> HIDE DEF v
<1> QED
  BY <1>0, <1>1, <1>2, <1>3, <1>4, SetUnitMoves DEF Satisfied

\* A receipt for evidence that is required and not yet recorded.
LEMMA EvidenceMoves ==
  ASSUME NEW m \in Machine, NEW e \in EvidenceEvents, ValidateEvent(m, e)
  PROVE  UnitMoves(m, ApplyEvent(m, e), e.unit)
<1> DEFINE r == e.unit
           u == m.unit[r]
           v == ApplyEvidence(u, e)
<1>0. /\ r \in UnitRefs /\ u \in UnitState /\ e.type = "evidence.recorded"
      /\ e.evidence \in Evidence /\ e.accepted \in BOOLEAN /\ e.matches \in BOOLEAN
  BY DEF EvidenceEvents, Machine
<1>1. /\ m.created /\ m.status = "running" /\ u.status = "awaiting-evidence"
      /\ e.evidence \in RequiresEvidence[StageOf(r)]
      /\ e.accepted /\ e.evidence \in Schematic => e.matches
  BY <1>0 DEF ValidateEvent, ValidateExecutionEvent, ValidateStageEvent,
       ValidateDispatchEvent, ValidateResultEvent
<1>2. ApplyEvent(m, e) = SetUnit(m, r, v)
  BY <1>0 DEF ApplyEvent
<1>3. v \in UnitState /\ v.status = u.status
  BY <1>0 DEF ApplyEvidence, UnitState
<1>4. Onward(r, u, v)
  BY <1>0, <1>1 DEF Onward, UnitOK, UnitState, AwaitsStart, ApplyEvidence
<1> HIDE DEF v
<1> QED
  BY <1>0, <1>1, <1>2, <1>3, <1>4, SetUnitMoves DEF Satisfied

(***************************************************************************)
(* Every accepted event is a step of one of the four kinds.                *)
(***************************************************************************)
LEMMA ExecutionEventCases ==
  ASSUME NEW m \in Machine, NEW e \in Events, ValidateEvent(m, e),
         e.type \in {"execution.created", "execution.started", "execution.succeeded",
                     "execution.failed", "execution.cancelled"},
         Untouched(m)
  PROVE  \/ ExecutionMoves(m, ApplyEvent(m, e))
         \/ ExecutionCancels(m, ApplyEvent(m, e))
<1>0. /\ [m EXCEPT !.created = TRUE, !.status = "created"] \in Machine
      /\ [m EXCEPT !.status = "running"] \in Machine
      /\ [m EXCEPT !.status = "succeeded"] \in Machine
      /\ [m EXCEPT !.status = "failed"] \in Machine
  BY DEF Machine, ExecutionStatus
<1>1. CASE e.type = "execution.created"
  BY <1>0, <1>1 DEF ApplyEvent, ExecutionMoves, ValidateEvent, Machine, ValidateExecutionEvent,
    ValidateStageEvent, ValidateDispatchEvent, ValidateResultEvent
<1>2. CASE e.type = "execution.started"
  BY <1>0, <1>2 DEF ApplyEvent, ExecutionMoves, ValidateEvent, Machine, ValidateExecutionEvent,
    ValidateStageEvent, ValidateDispatchEvent, ValidateResultEvent
<1>3. CASE e.type = "execution.succeeded"
  BY <1>0, <1>3 DEF ApplyEvent, ExecutionMoves, ValidateEvent, Machine, ValidateExecutionEvent,
    ValidateStageEvent, ValidateDispatchEvent, ValidateResultEvent
<1>4. CASE e.type = "execution.failed"
  <2>1. e.unit \in UnitRefs
    BY <1>4 DEF Events, ExecutionEvents, SealEvents, UnitEvents, PlainUnitEvents, ReasonEvents,
      DispatchEvents, DecisionEvents, ClaimEvents, EvidenceEvents
  <2> QED
    BY <1>0, <1>4, <2>1 DEF ApplyEvent, ExecutionMoves, ValidateEvent, Machine, ValidateExecutionEvent,
      ValidateStageEvent, ValidateDispatchEvent, ValidateResultEvent
<1>5. CASE e.type = "execution.cancelled"
  BY <1>5 DEF ApplyEvent, ExecutionCancels, ValidateEvent, ValidateExecutionEvent,
    ValidateStageEvent, ValidateDispatchEvent, ValidateResultEvent
<1> QED
  BY <1>1, <1>2, <1>3, <1>4, <1>5

LEMMA SealEventCase ==
  ASSUME NEW m \in Machine, NEW e \in SealEvents, ValidateEvent(m, e)
  PROVE  e.stage \in Stages /\ StageSeals(m, ApplyEvent(m, e), e.stage)
<1>1. e.stage \in Stages /\ e.type = "stage.sealed"
  BY DEF SealEvents
<1>2. m.created /\ m.status = "running" /\ MaySeal(m, e.stage)
  BY <1>1 DEF ValidateEvent, ValidateExecutionEvent, ValidateStageEvent,
    ValidateDispatchEvent, ValidateResultEvent
<1>3. ApplyEvent(m, e) = [m EXCEPT !.sealed = m.sealed \cup {e.stage}]
  BY <1>1 DEF ApplyEvent
<1> QED
  BY <1>1, <1>2, <1>3 DEF StageSeals

\* The four kinds of step.
Step(m, n) ==
  \/ \E r \in UnitRefs : UnitMoves(m, n, r)
  \/ \E s \in Stages : StageSeals(m, n, s)
  \/ ExecutionMoves(m, n)
  \/ ExecutionCancels(m, n)

\* The cases of the kernel's next-state relation, for any machine.
LEMMA StepCases ==
  ASSUME NEW m \in Machine, NEW e \in Events, ValidateEvent(m, e), Untouched(m)
  PROVE  Step(m, ApplyEvent(m, e))
<1> DEFINE n == ApplyEvent(m, e)
<1>1. CASE e \in ExecutionEvents
  BY <1>1, ExecutionEventCases DEF ExecutionEvents, Step
<1>2. CASE e \in SealEvents
  BY <1>2, SealEventCase DEF Step
<1>3. CASE e \in PlainUnitEvents
  <2>1. e.unit \in UnitRefs
    BY <1>3 DEF PlainUnitEvents
  <2> QED
    BY <1>3, <2>1, PlainUnitMoves DEF Step
<1>4. CASE e \in ReasonEvents
  <2>1. e.unit \in UnitRefs
    BY <1>4 DEF ReasonEvents
  <2>2. CASE e.type = "execution.failed"
    BY <2>2, ExecutionEventCases DEF Step
  <2>3. CASE e.type # "execution.failed"
    BY <1>4, <2>1, <2>3, ReasonedUnitMoves DEF Step
  <2> QED
    BY <2>2, <2>3
<1>5. CASE e \in DispatchEvents
  <2>1. e.unit \in UnitRefs
    BY <1>5 DEF DispatchEvents
  <2> QED
    BY <1>5, <2>1, DispatchMoves DEF Step
<1>6. CASE e \in DecisionEvents
  <2>1. e.unit \in UnitRefs
    BY <1>6 DEF DecisionEvents
  <2> QED
    BY <1>6, <2>1, DecisionMoves DEF Step
<1>7. CASE e \in ClaimEvents
  <2>1. e.unit \in UnitRefs
    BY <1>7 DEF ClaimEvents
  <2> QED
    BY <1>7, <2>1, ClaimMoves DEF Step
<1>8. CASE e \in EvidenceEvents
  <2>1. e.unit \in UnitRefs
    BY <1>8 DEF EvidenceEvents
  <2> QED
    BY <1>8, <2>1, EvidenceMoves DEF Step
<1> QED
  BY <1>1, <1>2, <1>3, <1>4, <1>5, <1>6, <1>7, <1>8 DEF Events, UnitEvents

(***************************************************************************)
(* Groups under a step.                                                    *)
(***************************************************************************)
\* A unit that moves joins its group, or is in it already.
LEMMA GroupsGrow ==
  ASSUME NEW m \in Machine, NEW n, NEW r \in UnitRefs, UnitMoves(m, n, r)
  PROVE  /\ n \in Machine
         /\ r \in GroupUnits(n, StageOf(r))
         /\ \A s \in Stages : GroupUnits(m, s) \subseteq GroupUnits(n, s)
         /\ \A s \in Stages : s # StageOf(r) => GroupUnits(n, s) = GroupUnits(m, s)
         /\ GroupUnits(n, StageOf(r)) \subseteq GroupUnits(m, StageOf(r)) \cup {r}
         /\ \A q \in UnitRefs : q # r => n.unit[q] = m.unit[q]
         /\ n.sealed = m.sealed /\ n.created = m.created /\ n.status = m.status
<1>1. m.unit \in [UnitRefs -> UnitState]
  BY DEF Machine
<1>2. n.unit = [m.unit EXCEPT ![r] = n.unit[r]]
  BY DEF UnitMoves, Machine
<1>3. n.sealed = m.sealed /\ n.created = m.created /\ n.status = m.status
  BY DEF UnitMoves, Machine
<1>4. \A q \in UnitRefs : q # r => n.unit[q] = m.unit[q]
  BY <1>1, <1>2
<1>5. n \in Machine
  <2>1. n.unit[r] \in UnitState
    BY DEF UnitMoves
  <2>2. n.unit \in [UnitRefs -> UnitState]
    BY <1>1, <1>2, <2>1
  <2>3. n = [m EXCEPT !.unit = n.unit]
    BY <1>2 DEF UnitMoves
  <2> QED
    BY <2>2, <2>3 DEF Machine
<1>6. r \in RefsOf(StageOf(r)) /\ n.unit[r].status # "absent"
  BY RefsOfStage DEF UnitMoves
<1>7. \A s \in Stages : \A q \in RefsOf(s) : q \in UnitRefs /\ StageOf(q) = s
  BY RefsOfStage
<1>8. \A s \in Stages : GroupUnits(m, s) \subseteq GroupUnits(n, s)
  BY <1>4, <1>6, <1>7 DEF GroupUnits
<1>9. \A s \in Stages : s # StageOf(r) => GroupUnits(n, s) = GroupUnits(m, s)
  BY <1>4, <1>7 DEF GroupUnits
<1>10. GroupUnits(n, StageOf(r)) \subseteq GroupUnits(m, StageOf(r)) \cup {r}
  BY <1>4, <1>7, RefsOfStage DEF GroupUnits
<1>11. r \in GroupUnits(n, StageOf(r))
  BY <1>6 DEF GroupUnits
<1> QED
  BY <1>3, <1>4, <1>5, <1>8, <1>9, <1>10, <1>11

\* Cancellation keeps every unit that is settled, and every group.
LEMMA CancelKeeps ==
  ASSUME NEW m \in Machine
  PROVE  LET n == ApplyCancel(m) IN
         /\ n \in Machine
         /\ n.sealed = m.sealed /\ n.created = m.created /\ n.status = "cancelled"
         /\ \A s \in Stages : GroupUnits(n, s) = GroupUnits(m, s)
         /\ \A q \in UnitRefs :
              IF m.unit[q].status \in Finished \cup {"absent"}
              THEN n.unit[q] = m.unit[q]
              ELSE n.unit[q] = [m.unit[q] EXCEPT !.status = "cancelled"]
<1> DEFINE n == ApplyCancel(m)
<1>1. \A q \in UnitRefs : m.unit[q] \in UnitState
  BY DEF Machine
<1>2. \A q \in UnitRefs :
        IF m.unit[q].status \in Finished \cup {"absent"}
        THEN n.unit[q] = m.unit[q]
        ELSE n.unit[q] = [m.unit[q] EXCEPT !.status = "cancelled"]
  BY DEF ApplyCancel, Machine
<1>3. n.sealed = m.sealed /\ n.created = m.created /\ n.status = "cancelled"
  BY DEF ApplyCancel, Machine
<1>4. \A q \in UnitRefs : [m.unit[q] EXCEPT !.status = "cancelled"] \in UnitState
  BY <1>1 DEF UnitState, UnitStatus
<1>5. n \in Machine
  <2>1. DOMAIN n.unit = UnitRefs /\ n.unit = [q \in UnitRefs |-> n.unit[q]]
    BY DEF ApplyCancel, Machine
  <2>2. ASSUME NEW q \in UnitRefs PROVE n.unit[q] \in UnitState
    <3> HIDE DEF n
    <3>1. n.unit[q] = m.unit[q] \/ n.unit[q] = [m.unit[q] EXCEPT !.status = "cancelled"]
      BY <1>2
    <3> QED
      BY <1>1, <1>4, <3>1
  <2>3. n = [m EXCEPT !.status = "cancelled", !.unit = n.unit]
    BY DEF ApplyCancel, Machine
  <2> HIDE DEF n
  <2>4. n.unit \in [UnitRefs -> UnitState]
    BY <2>1, <2>2
  <2> QED
    BY <2>3, <2>4 DEF Machine, ExecutionStatus
<1>6. \A s \in Stages : \A q \in RefsOf(s) :
        n.unit[q].status = "absent" <=> m.unit[q].status = "absent"
  BY <1>1, <1>2, RefsOfStage DEF UnitState
<1>7. \A s \in Stages : GroupUnits(n, s) = GroupUnits(m, s)
  BY <1>6 DEF GroupUnits
<1> QED
  BY <1>2, <1>3, <1>5, <1>7

\* A satisfied stage stays satisfied (what makes `needs` a barrier), and a
\* settled unit stays as it is.
LEMMA SettledStays ==
  ASSUME NEW m \in Machine, NEW n, Step(m, n), OutcomeOf(m), Untouched(m)
  PROVE  /\ n \in Machine
         /\ m.sealed \subseteq n.sealed
         /\ \A s \in Stages : GroupUnits(m, s) \subseteq GroupUnits(n, s)
         /\ \A s \in m.sealed : GroupUnits(n, s) = GroupUnits(m, s)
         /\ \A r \in UnitRefs :
              m.unit[r].status \in Satisfied => n.unit[r] = m.unit[r]
         /\ \A s \in Stages : GroupSatisfied(m, s) => GroupSatisfied(n, s)
         /\ \A s \in Stages : DependenciesSatisfied(m, s) => DependenciesSatisfied(n, s)
<1>0. m.sealed \subseteq Stages /\ \A s \in Stages : Needs[s] \subseteq Stages
  BY PlanAssumption DEF Machine
<1>1. /\ n \in Machine
      /\ m.sealed \subseteq n.sealed
      /\ \A s \in Stages : GroupUnits(m, s) \subseteq GroupUnits(n, s)
      /\ \A s \in m.sealed : GroupUnits(n, s) = GroupUnits(m, s)
      /\ \A r \in UnitRefs : m.unit[r].status \in Satisfied => n.unit[r] = m.unit[r]
  <2>1. ASSUME NEW r \in UnitRefs, UnitMoves(m, n, r) PROVE <1>1!:
    <3>1. m.unit[r].status \notin Satisfied
      BY <2>1 DEF UnitMoves
    <3>2. StageOf(r) \in m.sealed => r \in GroupUnits(m, StageOf(r))
      BY <2>1, RefsOfStage DEF UnitMoves, MayRegister, GroupUnits
    <3>3. \A s \in m.sealed : GroupUnits(n, s) = GroupUnits(m, s)
      <4>1. /\ \A s \in Stages : GroupUnits(m, s) \subseteq GroupUnits(n, s)
            /\ \A s \in Stages : s # StageOf(r) => GroupUnits(n, s) = GroupUnits(m, s)
            /\ GroupUnits(n, StageOf(r)) \subseteq GroupUnits(m, StageOf(r)) \cup {r}
        BY <2>1, GroupsGrow
      <4>2. StageOf(r) \in m.sealed =>
              GroupUnits(n, StageOf(r)) = GroupUnits(m, StageOf(r))
        BY <1>0, <3>2, <4>1
      <4> QED
        BY <1>0, <4>1, <4>2
    <3> QED
      BY <2>1, <3>1, <3>3, GroupsGrow
  <2>2. ASSUME NEW s \in Stages, StageSeals(m, n, s) PROVE <1>1!:
    <3>1. n = [m EXCEPT !.sealed = m.sealed \cup {s}] /\ m.sealed \cup {s} \subseteq Stages
      BY <1>0, <2>2 DEF StageSeals
    <3>2. n \in Machine /\ n.unit = m.unit /\ m.sealed \subseteq n.sealed
      BY <3>1 DEF Machine
    <3> QED
      BY <3>2 DEF GroupUnits
  <2>3. CASE ExecutionMoves(m, n)
    <3>1. n \in Machine /\ n.unit = m.unit /\ n.sealed = m.sealed
      BY <2>3 DEF ExecutionMoves
    <3> QED
      BY <3>1 DEF GroupUnits
  <2>4. CASE ExecutionCancels(m, n)
    <3>1. n = ApplyCancel(m)
      BY <2>4 DEF ExecutionCancels
    <3>2. /\ n \in Machine
          /\ n.sealed = m.sealed
          /\ \A s \in Stages : GroupUnits(n, s) = GroupUnits(m, s)
      BY <3>1, CancelKeeps
    <3>3. \A q \in UnitRefs :
            m.unit[q].status \in Finished \cup {"absent"} => n.unit[q] = m.unit[q]
      BY <3>1, CancelKeeps
    <3> QED
      BY <1>0, <3>2, <3>3 DEF Satisfied, Finished
  <2> QED
    BY <2>1, <2>2, <2>3, <2>4 DEF Step
<1>2. \A s \in Stages : GroupSatisfied(m, s) => GroupSatisfied(n, s)
  BY <1>0, <1>1, RefsOfStage DEF GroupSatisfied, GroupUnits
<1>3. \A s \in Stages : DependenciesSatisfied(m, s) => DependenciesSatisfied(n, s)
  BY <1>0, <1>2 DEF DependenciesSatisfied
<1> QED
  BY <1>1, <1>2, <1>3

(***************************************************************************)
(* Each part of the invariant, kind of step by kind of step.               *)
(***************************************************************************)
LEMMA UnitMovesInv ==
  ASSUME NEW m, NEW n, NEW r \in UnitRefs, KernelInv(m), UnitMoves(m, n, r)
  PROVE  KernelInv(n)
<1>0. m \in Machine /\ OutcomeOf(m) /\ Untouched(m) /\ Step(m, n)
  BY DEF KernelInv, Step
<1>1. /\ n \in Machine
      /\ r \in GroupUnits(n, StageOf(r))
      /\ \A s \in Stages : s # StageOf(r) => GroupUnits(n, s) = GroupUnits(m, s)
      /\ GroupUnits(n, StageOf(r)) \subseteq GroupUnits(m, StageOf(r)) \cup {r}
      /\ \A q \in UnitRefs : q # r => n.unit[q] = m.unit[q]
      /\ n.sealed = m.sealed /\ n.created = m.created /\ n.status = m.status
  BY <1>0, GroupsGrow
<1>2. \A s \in Stages : /\ GroupUnits(m, s) \subseteq GroupUnits(n, s)
                        /\ DependenciesSatisfied(m, s) => DependenciesSatisfied(n, s)
  BY <1>0, SettledStays
<1>3. r \in GroupUnits(m, StageOf(r)) \/ MayRegister(m, r)
  BY RefsOfStage DEF UnitMoves, GroupUnits
<1>4. StageOf(r) \in Stages
  BY RefsOfStage
<1>5. UnitsOK(n)
  BY <1>1 DEF Onward, KernelInv, UnitsOK, UnitMoves
<1>6. BarrierOf(n)
  <2>1. MayRegister(m, r) => DependenciesSatisfied(m, StageOf(r))
    BY DEF MayRegister
  <2>2. BarrierOf(m)
    BY DEF KernelInv
  <2> QED
    BY <1>1, <1>2, <1>3, <1>4, <2>1, <2>2 DEF BarrierOf
<1>7. SealedOf(n)
  <2>1. SealedOf(m)
    BY DEF KernelInv
  <2>2. MayRegister(m, r) /\ FanoutMode[StageOf(r)] = "singleton"
          => r = <<StageOf(r), DefaultKey>>
    BY DEF MayRegister
  <2> QED
    BY <1>1, <1>2, <1>3, <1>4, <2>1, <2>2 DEF SealedOf
<1>8. OutcomeOf(n) /\ Untouched(n)
  BY <1>0, <1>1 DEF OutcomeOf, Untouched, UnitMoves
<1> QED
  BY <1>1, <1>5, <1>6, <1>7, <1>8 DEF KernelInv

LEMMA StageSealsInv ==
  ASSUME NEW m, NEW n, NEW t \in Stages, KernelInv(m), StageSeals(m, n, t)
  PROVE  KernelInv(n)
<1>0. m \in Machine /\ OutcomeOf(m) /\ Untouched(m) /\ Step(m, n)
  BY DEF KernelInv, Step
<1>1. /\ n.unit = m.unit /\ n.created = m.created /\ n.status = m.status
      /\ n.sealed = m.sealed \cup {t}
  BY <1>0 DEF StageSeals, Machine
<1>2. /\ n \in Machine
      /\ \A s \in Stages : DependenciesSatisfied(m, s) => DependenciesSatisfied(n, s)
  BY <1>0, SettledStays
<1>3. \A s \in Stages : GroupUnits(n, s) = GroupUnits(m, s)
  BY <1>1 DEF GroupUnits
<1>4. UnitsOK(n)
  BY <1>1 DEF KernelInv, UnitsOK
<1>5. BarrierOf(n)
  BY <1>2, <1>3 DEF KernelInv, BarrierOf
<1>6. SealedOf(n)
  BY <1>1, <1>3 DEF KernelInv, SealedOf, StageSeals, MaySeal
<1>7. OutcomeOf(n) /\ Untouched(n)
  BY <1>0, <1>1 DEF OutcomeOf, Untouched, StageSeals
<1> QED
  BY <1>2, <1>4, <1>5, <1>6, <1>7 DEF KernelInv

LEMMA ExecutionMovesInv ==
  ASSUME NEW m, NEW n, KernelInv(m), ExecutionMoves(m, n)
  PROVE  KernelInv(n)
<1>0. m \in Machine /\ OutcomeOf(m) /\ Untouched(m) /\ Step(m, n)
  BY DEF KernelInv, Step
<1>1. n.unit = m.unit /\ n.sealed = m.sealed /\ n.created
  BY DEF ExecutionMoves
<1>2. /\ n \in Machine
      /\ \A s \in Stages : DependenciesSatisfied(m, s) => DependenciesSatisfied(n, s)
  BY <1>0, SettledStays
<1>3. \A s \in Stages : GroupUnits(n, s) = GroupUnits(m, s)
  BY <1>1 DEF GroupUnits
<1>4. UnitsOK(n) /\ BarrierOf(n) /\ SealedOf(n)
  BY <1>1, <1>2, <1>3 DEF KernelInv, UnitsOK, BarrierOf, SealedOf
<1>5. AllWorkSatisfied(m) => AllWorkSatisfied(n)
  BY <1>1, <1>3 DEF AllWorkSatisfied, GroupSatisfied
<1>6. OutcomeOf(n) /\ Untouched(n)
  BY <1>0, <1>1, <1>5 DEF OutcomeOf, Untouched, ExecutionMoves
<1> QED
  BY <1>2, <1>4, <1>6 DEF KernelInv

LEMMA ExecutionCancelsInv ==
  ASSUME NEW m, NEW n, KernelInv(m), ExecutionCancels(m, n)
  PROVE  KernelInv(n)
<1>0. m \in Machine /\ OutcomeOf(m) /\ Untouched(m) /\ Step(m, n)
  BY DEF KernelInv, Step
<1>1. /\ n.sealed = m.sealed /\ n.created = m.created /\ n.status = "cancelled"
      /\ \A s \in Stages : GroupUnits(n, s) = GroupUnits(m, s)
  BY <1>0, CancelKeeps DEF ExecutionCancels
<1>2. /\ n \in Machine
      /\ \A s \in Stages : DependenciesSatisfied(m, s) => DependenciesSatisfied(n, s)
  BY <1>0, SettledStays
<1>3. ASSUME NEW q \in UnitRefs
      PROVE  /\ n.unit[q].status \in Finished \cup {"absent", "cancelled"}
             /\ UnitOK(q, n.unit[q])
  <2>1. IF m.unit[q].status \in Finished \cup {"absent"}
        THEN n.unit[q] = m.unit[q]
        ELSE n.unit[q] = [m.unit[q] EXCEPT !.status = "cancelled"]
    BY <1>0, CancelKeeps DEF ExecutionCancels
  <2>2. m.unit[q] \in UnitState /\ UnitOK(q, m.unit[q])
    BY <1>0 DEF KernelInv, UnitsOK, Machine
  <2> QED
    BY <2>1, <2>2 DEF UnitOK, UnitState, AwaitsStart
<1>4. UnitsOK(n)
  BY <1>3 DEF UnitsOK
<1>5. BarrierOf(n) /\ SealedOf(n)
  BY <1>1, <1>2 DEF KernelInv, BarrierOf, SealedOf
<1>6. OutcomeOf(n)
  BY <1>1, <1>3 DEF OutcomeOf
<1>7. Untouched(n)
  BY <1>0, <1>1 DEF Untouched, ExecutionCancels
<1> QED
  BY <1>2, <1>4, <1>5, <1>6, <1>7 DEF KernelInv

\* The invariant is inductive, whatever machine the event is applied to.
LEMMA KernelInvStep ==
  ASSUME NEW m, NEW e \in Events, KernelInv(m), ValidateEvent(m, e)
  PROVE  KernelInv(ApplyEvent(m, e))
<1>1. Step(m, ApplyEvent(m, e))
  BY StepCases DEF KernelInv
<1> QED
  BY <1>1, UnitMovesInv, StageSealsInv, ExecutionMovesInv, ExecutionCancelsInv DEF Step

LEMMA KernelInvNew == KernelInv(NewMachine)
<1>1. \A r \in UnitRefs : NewMachine.unit[r] = FreshUnit("absent")
  BY DEF NewMachine
<1>2. NewMachine.sealed = {} /\ NewMachine.status = "created" /\ ~NewMachine.created
  BY DEF NewMachine
<1>a. FreshUnit("absent").status = "absent"
  BY DEF FreshUnit
<1>3. ASSUME NEW s \in Stages PROVE GroupUnits(NewMachine, s) = {}
  BY <1>1, <1>a, RefsOfStage DEF GroupUnits
<1>4. UnitsOK(NewMachine)
  <2>1. ASSUME NEW r \in UnitRefs PROVE UnitOK(r, FreshUnit("absent"))
    <3>1. MaxAttempts[StageOf(r)] \in Nat
      BY RefsOfStage, PlanAssumption
    <3> QED
      BY <3>1 DEF UnitOK, FreshUnit, AwaitsStart
  <2> QED
    BY <1>1, <2>1 DEF UnitsOK
<1>5. BarrierOf(NewMachine) /\ SealedOf(NewMachine)
  BY <1>2, <1>3 DEF BarrierOf, SealedOf
<1>6. OutcomeOf(NewMachine) /\ Untouched(NewMachine)
  BY <1>1, <1>2 DEF OutcomeOf, Untouched, FreshUnit
<1> QED
  BY <1>4, <1>5, <1>6, NewMachineTyped DEF KernelInv

\* The attempts of a unit only grow, by one with each start.
LEMMA AttemptsStay ==
  ASSUME NEW m, NEW e \in Events, KernelInv(m), ValidateEvent(m, e)
  PROVE  LET n == ApplyEvent(m, e) IN
         /\ \A r \in UnitRefs : m.unit[r].attempts <= n.unit[r].attempts
         /\ e.type = "unit.started" =>
              n.unit[e.unit].attempts = m.unit[e.unit].attempts + 1
<1> DEFINE n == ApplyEvent(m, e)
<1>0. m \in Machine /\ \A r \in UnitRefs : m.unit[r] \in UnitState /\ UnitOK(r, m.unit[r])
  BY DEF KernelInv, UnitsOK, Machine
<1>1. \A r \in UnitRefs : m.unit[r].attempts \in Nat
  BY <1>0 DEF UnitState
<1>2. ASSUME e.type = "unit.started"
      PROVE  n.unit[e.unit].attempts = m.unit[e.unit].attempts + 1
  <2> DEFINE k == m.unit[e.unit].attempts + 1
             v == [m.unit[e.unit] EXCEPT !.status = "running", !.attempts = k]
  <2>1. e.unit \in UnitRefs
    BY <1>2 DEF Events, ExecutionEvents, SealEvents, UnitEvents, PlainUnitEvents,
      ReasonEvents, DispatchEvents, DecisionEvents, ClaimEvents, EvidenceEvents
  <2>2. n = SetUnit(m, e.unit, v)
    BY <1>2 DEF ApplyEvent
  <2>3. v.attempts = k
    BY <1>0, <2>1 DEF UnitState
  <2> HIDE DEF v
  <2>4. n.unit[e.unit] = v
    BY <1>0, <2>1, <2>2 DEF SetUnit, Machine
  <2> QED
    BY <2>3, <2>4
<1>3. Step(m, n)
  BY StepCases DEF KernelInv
<1> HIDE DEF n
<1>4. ASSUME NEW q \in UnitRefs PROVE m.unit[q].attempts <= n.unit[q].attempts
  <2>1. ASSUME NEW r \in UnitRefs, UnitMoves(m, n, r)
        PROVE  m.unit[q].attempts <= n.unit[q].attempts
    <3>1. q # r => n.unit[q] = m.unit[q]
      BY <1>0, <2>1, GroupsGrow
    <3>2. Onward(r, m.unit[r], n.unit[r])
      BY <2>1 DEF UnitMoves
    <3>3. m.unit[r].attempts <= n.unit[r].attempts
      BY <1>0, <3>2 DEF Onward
    <3> QED
      BY <1>1, <3>1, <3>3
  <2>2. CASE n.unit = m.unit
    BY <1>1, <2>2
  <2>3. CASE ExecutionCancels(m, n)
    <3>1. \/ n.unit[q] = m.unit[q]
          \/ n.unit[q] = [m.unit[q] EXCEPT !.status = "cancelled"]
      BY <1>0, <2>3, CancelKeeps DEF ExecutionCancels
    <3>2. n.unit[q].attempts = m.unit[q].attempts
      BY <1>0, <3>1 DEF UnitState
    <3> QED
      BY <1>1, <3>2
  <2>4. ASSUME NEW s \in Stages, StageSeals(m, n, s) PROVE n.unit = m.unit
    BY <1>0, <2>4 DEF StageSeals, Machine
  <2> QED
    BY <1>3, <2>1, <2>2, <2>3, <2>4 DEF Step, ExecutionMoves
<1> QED
  BY <1>2, <1>4 DEF n

\* No event undoes execution.created.
LEMMA CreatedStays ==
  ASSUME NEW m, NEW e \in Events, KernelInv(m), ValidateEvent(m, e), m.created
  PROVE  ApplyEvent(m, e).created
<1> DEFINE n == ApplyEvent(m, e)
<1>1. Step(m, n) /\ m \in Machine
  BY StepCases DEF KernelInv
<1> HIDE DEF n
<1>2. n.created
  BY <1>1, CancelKeeps DEF Step, UnitMoves, StageSeals, ExecutionMoves, ExecutionCancels,
    Machine
<1> QED
  BY <1>2 DEF n

=============================================================================
