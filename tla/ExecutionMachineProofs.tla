----------------------- MODULE ExecutionMachineProofs -----------------------
(***************************************************************************)
(* The properties of ExecutionMachine that hold for every plan and any     *)
(* number of processes, with crashes, failed appends and several machines  *)
(* on one execution: the machines and the ledger stay sound, one machine   *)
(* at a time always equals the replay of the ledger, dispatch is always    *)
(* authorized, no call is refused half-way, and the calls leave the        *)
(* machine settled and with work for the adapter.                          *)
(***************************************************************************)
EXTENDS ExecutionMachine, KernelEventsProofs, SequenceTheorems, FiniteSetTheorems

(***************************************************************************)
(* The inductive invariant.                                                *)
(***************************************************************************)
\* What a call may still have to do: never to create the execution again, nor
\* to dispatch a unit that a person has to authorize.
CallTasks ==
  {t \in Tasks : /\ t.type # "execution.created"
                 /\ t.type = "unit.ready" => HumanApproval[StageOf(t.unit)] # "always"}

Typed ==
  /\ live \subseteq Procs
  /\ mem \in [Procs -> Machine]
  /\ todo \in [Procs -> Seq(CallTasks)]
  /\ replayable \in BOOLEAN
  /\ interrupted \in BOOLEAN

\* A process has a created machine exactly as long as it is live, and only
\* for an execution that is in the ledger; only a live process is in a call.
Held ==
  \A p \in Procs :
    /\ p \in live <=> mem[p].created
    /\ p \in live => view.created
    /\ p \notin live => todo[p] = <<>>

MachinesOK == KernelInv(view) /\ \A p \in Procs : KernelInv(mem[p])

\* One machine at a time is the replayed ledger.
OneMachine ==
  Exclusive => /\ replayable
               /\ \A p \in live : mem[p] = view
               /\ \A p, q \in live : p = q

\* What machine m holds for settled is settled in machine v.
Confirmed(m, v) ==
  /\ m.sealed \subseteq v.sealed
  /\ \A r \in UnitRefs : m.unit[r].status \in Satisfied => v.unit[r].status \in Satisfied

LedgerConfirms == replayable => \A p \in live : Confirmed(mem[p], view)

IInv == Typed /\ Held /\ MachinesOK /\ OneMachine /\ LedgerConfirms

(***************************************************************************)
(* The tasks of the calls.                                                 *)
(***************************************************************************)
\* Every task that a method queues is one.
LEMMA TasksTyped ==
  /\ [type |-> "execution.started"] \in CallTasks
  /\ [type |-> "execution.succeeded"] \in CallTasks
  /\ [type |-> "execution.cancelled"] \in CallTasks
  /\ Materialize \in CallTasks
  /\ [type |-> "finish"] \in CallTasks
  /\ \A s \in Stages : [type |-> "stage.sealed", stage |-> s] \in CallTasks
<1> USE DEF CallTasks, Tasks, Events
<1>1. \A t \in ExecutionEvents : t.type # "execution.created" => t \in CallTasks
  BY DEF ExecutionEvents
<1>2. [type |-> "execution.started"] \in ExecutionEvents
  BY DEF ExecutionEvents
<1>3. [type |-> "execution.succeeded"] \in ExecutionEvents
  BY DEF ExecutionEvents
<1>4. [type |-> "execution.cancelled"] \in ExecutionEvents
  BY DEF ExecutionEvents
<1>5. Materialize \in CallTasks /\ [type |-> "finish"] \in CallTasks
  BY DEF Materialize
<1>6. ASSUME NEW s \in Stages PROVE [type |-> "stage.sealed", stage |-> s] \in CallTasks
  BY DEF SealEvents
<1> QED
  BY <1>1, <1>2, <1>3, <1>4, <1>5, <1>6

LEMMA UnitTasksTyped ==
  ASSUME NEW r \in UnitRefs
  PROVE  /\ [type |-> "unit.registered", unit |-> r] \in CallTasks
         /\ [type |-> "unit.started", unit |-> r] \in CallTasks
         /\ [type |-> "unit.awaiting-evidence", unit |-> r] \in CallTasks
         /\ [type |-> "unit.completed", unit |-> r] \in CallTasks
         /\ \A reason \in Reasons :
              /\ [type |-> "execution.failed", unit |-> r, reason |-> reason] \in CallTasks
              /\ [type |-> "unit.failed", unit |-> r, reason |-> reason] \in CallTasks
              /\ [type |-> "unit.skipped", unit |-> r, reason |-> reason] \in CallTasks
         /\ \A b \in BOOLEAN :
              /\ DispatchTask(r, b) \in CallTasks
              /\ [type |-> "authorization.decided", unit |-> r, approved |-> b] \in CallTasks
         /\ [type |-> "unit.claimed", unit |-> r, outputs |-> "conforming"] \in CallTasks
         /\ \A c \in Evidence, a, b \in BOOLEAN :
              [type |-> "evidence.recorded", unit |-> r, evidence |-> c,
               accepted |-> a, matches |-> b] \in CallTasks
<1>0. \A t \in UnitEvents :
        /\ t.type # "execution.created"
        /\ t.type = "unit.ready" => HumanApproval[StageOf(t.unit)] # "always"
        => t \in CallTasks
  BY DEF CallTasks, Tasks, Events
<1>1. /\ [type |-> "unit.registered", unit |-> r] \in PlainUnitEvents
      /\ [type |-> "unit.started", unit |-> r] \in PlainUnitEvents
      /\ [type |-> "unit.awaiting-evidence", unit |-> r] \in PlainUnitEvents
      /\ [type |-> "unit.completed", unit |-> r] \in PlainUnitEvents
  BY DEF PlainUnitEvents
<1>2. \A reason \in Reasons :
        /\ [type |-> "execution.failed", unit |-> r, reason |-> reason] \in ReasonEvents
        /\ [type |-> "unit.failed", unit |-> r, reason |-> reason] \in ReasonEvents
        /\ [type |-> "unit.skipped", unit |-> r, reason |-> reason] \in ReasonEvents
  BY DEF ReasonEvents
<1>3. ASSUME NEW b \in BOOLEAN
      PROVE  /\ DispatchTask(r, b) \in DispatchEvents
             /\ DispatchTask(r, b).type # "execution.created"
             /\ DispatchTask(r, b).unit = r
             /\ DispatchTask(r, b).type = "unit.ready" => HumanApproval[StageOf(r)] # "always"
             /\ [type |-> "authorization.decided", unit |-> r, approved |-> b] \in DecisionEvents
  BY DEF DispatchTask, DispatchEvents, DecisionEvents
<1>4. [type |-> "unit.claimed", unit |-> r, outputs |-> "conforming"] \in ClaimEvents
  BY DEF ClaimEvents, Outputs
<1>5. \A c \in Evidence, a, b \in BOOLEAN :
        [type |-> "evidence.recorded", unit |-> r, evidence |-> c,
         accepted |-> a, matches |-> b] \in EvidenceEvents
  BY DEF EvidenceEvents
<1> QED
  BY <1>0, <1>1, <1>2, <1>3, <1>4, <1>5 DEF UnitEvents

\* Calls are put together from short sequences.
LEMMA CallSequences ==
  /\ <<>> \in Seq(CallTasks)
  /\ \A a \in CallTasks : <<a>> \in Seq(CallTasks)
  /\ \A a, b \in CallTasks : <<a, b>> \in Seq(CallTasks)
  /\ \A a, b, c \in CallTasks : <<a, b, c>> \in Seq(CallTasks)
  /\ \A s, t \in Seq(CallTasks) : s \o t \in Seq(CallTasks)
<1>1. \A s, t \in Seq(CallTasks) : s \o t \in Seq(CallTasks)
  BY ConcatProperties
<1> QED
  BY <1>1

LEMMA CallPartsTyped ==
  /\ UnlockOrFinish \in Seq(CallTasks)
  /\ \A r \in UnitRefs : CompleteUnit(r) \in Seq(CallTasks)
  /\ \A r \in UnitRefs : FailForGood(r) \in Seq(CallTasks)
<1>1. UnlockOrFinish \in Seq(CallTasks)
  BY TasksTyped, CallSequences DEF UnlockOrFinish
<1>2. ASSUME NEW r \in UnitRefs PROVE CompleteUnit(r) \in Seq(CallTasks)
  BY <1>1, UnitTasksTyped, CallSequences DEF CompleteUnit
<1>3. ASSUME NEW r \in UnitRefs PROVE FailForGood(r) \in Seq(CallTasks)
  BY UnitTasksTyped, CallSequences DEF FailForGood, Reasons
<1> QED
  BY <1>1, <1>2, <1>3

\* A method that is entered queues call tasks and changes nothing else.
Queues(p) == \E tasks \in Seq(CallTasks) : Call(p, tasks)

LEMMA UnitCallsQueue ==
  ASSUME NEW p \in Procs, NEW r \in UnitRefs
  PROVE  /\ RegisterUnit(p, r) => Queues(p)
         /\ Approve(p, r) => Queues(p)
         /\ \A reason : Deny(p, r, reason) => Queues(p)
         /\ StartUnit(p, r) => Queues(p)
         /\ ClaimUnit(p, r) => Queues(p)
         /\ \A c \in Evidence, a, b \in BOOLEAN : RecordEvidence(p, r, c, a, b) => Queues(p)
         /\ SkipUnit(p, r) => Queues(p)
         /\ \A retry \in BOOLEAN : FailUnit(p, r, retry) => Queues(p)
<1> USE DEF Queues
<1>1. RegisterUnit(p, r) => Queues(p)
  <2>1. <<[type |-> "unit.registered", unit |-> r], DispatchTask(r, FALSE)>> \in Seq(CallTasks)
    BY UnitTasksTyped, CallSequences
  <2> QED
    BY <2>1 DEF RegisterUnit
<1>2. Approve(p, r) => Queues(p)
  <2>1. <<[type |-> "authorization.decided", unit |-> r, approved |-> TRUE]>> \in Seq(CallTasks)
    BY UnitTasksTyped, CallSequences
  <2> QED
    BY <2>1 DEF Approve
<1>3. ASSUME NEW reason, Deny(p, r, reason) PROVE Queues(p)
  <2> DEFINE why == IF reason = "blank" THEN "blank" ELSE "given"
  <2>1. why \in Reasons
    BY DEF Reasons
  <2> HIDE DEF why
  <2>2. <<[type |-> "authorization.decided", unit |-> r, approved |-> FALSE],
          [type |-> "execution.failed", unit |-> r, reason |-> why]>> \in Seq(CallTasks)
    BY <2>1, UnitTasksTyped, CallSequences
  <2> QED
    BY <1>3, <2>2 DEF Deny, why
<1>4. StartUnit(p, r) => Queues(p)
  <2>1. <<[type |-> "unit.started", unit |-> r]>> \in Seq(CallTasks)
    BY UnitTasksTyped, CallSequences
  <2> QED
    BY <2>1 DEF StartUnit
<1>5. ClaimUnit(p, r) => Queues(p)
  <2> DEFINE rest == IF RequiresEvidence[StageOf(r)] # {}
                     THEN <<[type |-> "unit.awaiting-evidence", unit |-> r]>>
                     ELSE CompleteUnit(r)
             claim == <<[type |-> "unit.claimed", unit |-> r, outputs |-> "conforming"]>>
  <2>1. rest \in Seq(CallTasks) /\ claim \in Seq(CallTasks)
    BY UnitTasksTyped, CallSequences, CallPartsTyped
  <2>2. claim \o rest \in Seq(CallTasks)
    BY <2>1, CallSequences
  <2> QED
    BY <2>2 DEF ClaimUnit
<1>6. ASSUME NEW c \in Evidence, NEW a \in BOOLEAN, NEW b \in BOOLEAN,
             RecordEvidence(p, r, c, a, b)
      PROVE  Queues(p)
  <2> DEFINE rest == IF ~a THEN FailForGood(r)
                     ELSE IF RequiresEvidence[StageOf(r)] \subseteq mem[p].unit[r].accepted \cup {c}
                     THEN CompleteUnit(r) ELSE <<>>
             receipt == <<[type |-> "evidence.recorded", unit |-> r, evidence |-> c,
                           accepted |-> a, matches |-> b]>>
  <2>1. rest \in Seq(CallTasks) /\ receipt \in Seq(CallTasks)
    BY UnitTasksTyped, CallSequences, CallPartsTyped
  <2>2. receipt \o rest \in Seq(CallTasks)
    BY <2>1, CallSequences
  <2> QED
    BY <1>6, <2>2 DEF RecordEvidence
<1>7. SkipUnit(p, r) => Queues(p)
  <2>1. <<[type |-> "unit.skipped", unit |-> r, reason |-> "given"]>> \o UnlockOrFinish
          \in Seq(CallTasks)
    BY UnitTasksTyped, CallSequences, CallPartsTyped DEF Reasons
  <2> QED
    BY <2>1 DEF SkipUnit
<1>8. ASSUME NEW retry \in BOOLEAN, FailUnit(p, r, retry) PROVE Queues(p)
  <2>1. <<[type |-> "unit.failed", unit |-> r, reason |-> "given"], DispatchTask(r, TRUE)>>
          \in Seq(CallTasks)
    BY UnitTasksTyped, CallSequences DEF Reasons
  <2> QED
    BY <1>8, <2>1, CallPartsTyped DEF FailUnit
<1> QED
  BY <1>1, <1>2, <1>3, <1>4, <1>5, <1>6, <1>7, <1>8

\* Every method.
LEMMA CallsQueue ==
  ASSUME NEW p \in Procs, Work(p) \/ Cancel(p)
  PROVE  Queues(p)
<1>1. CASE Start(p)
  <2>1. <<[type |-> "execution.started"], Materialize>> \in Seq(CallTasks)
    BY TasksTyped, CallSequences
  <2> QED
    BY <1>1, <2>1 DEF Start, Queues
<1>2. ASSUME NEW s \in Stages, SealStage(p, s) PROVE Queues(p)
  <2>1. <<[type |-> "stage.sealed", stage |-> s]>> \o UnlockOrFinish \in Seq(CallTasks)
    BY TasksTyped, CallSequences, CallPartsTyped
  <2> QED
    BY <1>2, <2>1 DEF SealStage, Queues
<1>3. CASE Cancel(p)
  <2>1. <<[type |-> "execution.cancelled"]>> \in Seq(CallTasks)
    BY TasksTyped, CallSequences
  <2> QED
    BY <1>3, <2>1 DEF Cancel, Queues
<1> QED
  BY <1>1, <1>2, <1>3, UnitCallsQueue DEF Work

(***************************************************************************)
(* The steps.                                                              *)
(***************************************************************************)
\* What a call has left changes; no machine does, nor the ledger.
Retasks(p) ==
  /\ p \in live
  /\ \E tasks \in Seq(CallTasks) : todo' = [todo EXCEPT ![p] = tasks]
  /\ interrupted' \in BOOLEAN
  /\ UNCHANGED <<live, mem, view, replayable>>

\* Event e goes from machine p to the ledger.
Emits(p, e) ==
  /\ p \in live
  /\ e \in CallTasks
  /\ ValidateEvent(mem[p], e)
  /\ AppendToLedger(e)
  /\ mem' = [mem EXCEPT ![p] = ApplyEvent(@, e)]
  /\ \E tasks \in Seq(CallTasks) : todo' = [todo EXCEPT ![p] = tasks]
  /\ UNCHANGED <<live, interrupted>>

Closes(p) == p \in live /\ Close(p) /\ interrupted' \in BOOLEAN

LEMMA RunningCall ==
  ASSUME Typed, Held, NEW p \in Procs, todo[p] # <<>>
  PROVE  /\ p \in live
         /\ Head(todo[p]) \in CallTasks
         /\ Tail(todo[p]) \in Seq(CallTasks)
<1>1. todo[p] \in Seq(CallTasks)
  BY DEF Typed
<1>2. p \in live
  BY DEF Held
<1> QED
  BY <1>1, <1>2, HeadTailProperties

\* Every step of a running call retasks it or emits.
LEMMA CallStepCases ==
  ASSUME Typed, Held, NEW p \in Procs, CallStep(p) \/ AppendFails(p)
  PROVE  Retasks(p) \/ \E e \in Events : Emits(p, e)
<1>0. interrupted \in BOOLEAN
  BY DEF Typed
<1>1. CASE Emit(p)
  <2>1. todo[p] # <<>> /\ IsEvent(Head(todo[p]))
    BY <1>1 DEF Emit, Emitting
  <2>2. Head(todo[p]) \in Events
    BY <2>1, RunningCall DEF CallTasks, Tasks, IsEvent
  <2>3. todo' = [todo EXCEPT ![p] = Tail(todo[p])]
    BY <1>1 DEF Emit
  <2>4. Emits(p, Head(todo[p]))
    BY <1>1, <2>1, <2>3, RunningCall DEF Emit, Emits
  <2> QED
    BY <2>2, <2>4
<1>2. CASE Refuse(p) \/ AppendFails(p)
  <2>1. todo[p] # <<>>
    BY <1>2 DEF Refuse, AppendFails, Emitting
  <2> QED
    BY <1>2, <2>1, RunningCall, CallSequences DEF Refuse, AppendFails, Abandon, Retasks
<1>3. ASSUME NEW s \in Stages, MaterializeStage(p, s) PROVE Retasks(p)
  <2> DEFINE r == <<s, DefaultKey>>
             added == <<[type |-> "unit.registered", unit |-> r], DispatchTask(r, FALSE),
                        [type |-> "stage.sealed", stage |-> s]>>
  <2>1. todo[p] # <<>>
    BY <1>3 DEF MaterializeStage, Active
  <2>2. r \in UnitRefs
    BY PlanAssumption DEF UnitRefs
  <2>3. added \in Seq(CallTasks)
    BY <2>2, TasksTyped, UnitTasksTyped, CallSequences
  <2>4. added \o todo[p] \in Seq(CallTasks)
    BY <2>3, CallSequences DEF Typed
  <2>5. todo' = [todo EXCEPT ![p] = added \o todo[p]]
    BY <1>3 DEF MaterializeStage
  <2> QED
    BY <1>0, <1>3, <2>1, <2>4, <2>5, RunningCall DEF MaterializeStage, Retasks
<1>4. CASE MaterializedAll(p)
  <2>1. todo[p] # <<>> /\ todo' = [todo EXCEPT ![p] = Tail(todo[p])]
    BY <1>4 DEF MaterializedAll, Active
  <2> QED
    BY <1>0, <1>4, <2>1, RunningCall DEF MaterializedAll, Retasks
<1>5. CASE FinishCall(p)
  <2>1. todo[p] # <<>>
    BY <1>5 DEF FinishCall, Active
  <2>2. <<[type |-> "execution.succeeded"]>> \in Seq(CallTasks)
    BY TasksTyped, CallSequences
  <2> QED
    BY <1>0, <1>5, <2>1, <2>2, RunningCall, CallSequences DEF FinishCall, Retasks
<1> QED
  BY <1>1, <1>2, <1>3, <1>4, <1>5 DEF CallStep

LEMMA NextCases ==
  ASSUME Typed, Held, Next
  PROVE  \E p \in Procs :
           \/ Create(p) \/ Replay(p) \/ Closes(p) \/ Retasks(p)
           \/ \E e \in Events : Emits(p, e)
<1>1. PICK p \in Procs :
        \/ Create(p) \/ Replay(p) \/ Exit(p) \/ Crash(p)
        \/ Work(p) \/ Cancel(p) \/ CallStep(p) \/ AppendFails(p)
  BY DEF Next
<1>2. interrupted \in BOOLEAN
  BY DEF Typed
<1>3. CASE Exit(p)
  BY <1>2, <1>3 DEF Exit, Closes
<1>4. CASE Crash(p)
  BY <1>4, RunningCall DEF Crash, Closes
<1>5. CASE Work(p) \/ Cancel(p)
  <2>1. PICK tasks \in Seq(CallTasks) : Call(p, tasks)
    BY <1>5, CallsQueue DEF Queues
  <2> QED
    BY <1>2, <2>1 DEF Call, Ready, Retasks
<1> QED
  BY <1>1, <1>3, <1>4, <1>5, CallStepCases

(***************************************************************************)
(* What an event changes in a machine.                                     *)
(***************************************************************************)
\* A machine without execution.created is a new one.
LEMMA BlankMachine ==
  ASSUME NEW m, KernelInv(m), ~m.created
  PROVE  m = NewMachine
<1>1. m \in Machine /\ m.status = "created"
  BY DEF KernelInv, Untouched
<1>2. \A r \in UnitRefs : m.unit[r] = FreshUnit("absent")
  BY <1>1 DEF KernelInv, OutcomeOf
<1>a. FreshUnit("absent").status = "absent"
  BY DEF FreshUnit
<1>3. \A s \in Stages : GroupUnits(m, s) = {}
  BY <1>2, <1>a, RefsOfStage DEF GroupUnits
<1>4. m.sealed = {}
  BY <1>1, <1>3 DEF KernelInv, SealedOf, Machine
<1>5. m.unit = [r \in UnitRefs |-> FreshUnit("absent")]
  BY <1>1, <1>2 DEF Machine
<1> QED
  BY <1>1, <1>4, <1>5 DEF NewMachine, Machine

\* create's event, and the machine after it.
CreatedEvent == [type |-> "execution.created"]

LEMMA CreatedMachine ==
  /\ CreatedEvent \in Events
  /\ ValidateEvent(NewMachine, CreatedEvent)
  /\ KernelInv(ApplyEvent(NewMachine, CreatedEvent))
  /\ ApplyEvent(NewMachine, CreatedEvent).created
  /\ ApplyEvent(NewMachine, CreatedEvent).unit = NewMachine.unit
<1>1. CreatedEvent \in Events
  BY DEF CreatedEvent, Events, ExecutionEvents
<1>2. ValidateEvent(NewMachine, CreatedEvent)
  BY DEF CreatedEvent, ValidateEvent, NewMachine
<1>3. KernelInv(ApplyEvent(NewMachine, CreatedEvent))
  BY <1>1, <1>2, KernelInvNew, KernelInvStep
<1>4. ApplyEvent(NewMachine, CreatedEvent)
        = [NewMachine EXCEPT !.created = TRUE, !.status = "created"]
  BY DEF ApplyEvent, CreatedEvent
<1>5. /\ ApplyEvent(NewMachine, CreatedEvent).created
      /\ ApplyEvent(NewMachine, CreatedEvent).unit = NewMachine.unit
  BY <1>4 DEF NewMachine
<1> QED
  BY <1>1, <1>2, <1>3, <1>5

\* The part of SetUnit's effect that does not depend on the unit's new state.
LEMMA SetUnitEffect ==
  ASSUME NEW m \in Machine, NEW r \in UnitRefs, NEW u
  PROVE  /\ SetUnit(m, r, u).unit[r] = u
         /\ \A q \in UnitRefs : q # r => SetUnit(m, r, u).unit[q] = m.unit[q]
         /\ SetUnit(m, r, u).sealed = m.sealed
         /\ SetUnit(m, r, u).created = m.created
BY DEF SetUnit, Machine

\* A unit event sets its unit: only completion and skipping satisfy it, and
\* only dispatch and a decision make it ready.
LEMMA UnitEventEffect ==
  ASSUME NEW m \in Machine, NEW e \in UnitEvents, e.type # "execution.failed"
  PROVE  /\ e.unit \in UnitRefs
         /\ \E u :
              /\ ApplyEvent(m, e) = SetUnit(m, e.unit, u)
              /\ u.status \in Satisfied =>
                   \/ m.unit[e.unit].status \in Satisfied
                   \/ e.type \in {"unit.completed", "unit.skipped"}
              /\ e.type \in {"unit.completed", "unit.skipped"} => u.status \in Satisfied
              /\ u.status = "ready" =>
                   \/ m.unit[e.unit].status = "ready"
                   \/ e.type \in {"unit.ready", "authorization.decided"}
<1> USE DEF Satisfied
<1>1. CASE e \in PlainUnitEvents
  <2>0. e.unit \in UnitRefs
    BY <1>1 DEF PlainUnitEvents
  <2>1. m.unit[e.unit] \in UnitState
    BY <2>0 DEF Machine
  <2>2. CASE e.type = "unit.registered"
    BY <2>0, <2>2 DEF ApplyEvent, FreshUnit
  <2>3. CASE e.type = "unit.started"
    <3> DEFINE v == [m.unit[e.unit] EXCEPT !.status = "running", !.attempts = @ + 1]
    <3>1. ApplyEvent(m, e) = SetUnit(m, e.unit, v)
      BY <2>3 DEF ApplyEvent
    <3>2. v.status = "running"
      BY <2>1 DEF UnitState
    <3> HIDE DEF v
    <3> QED
      BY <2>0, <2>3, <3>1, <3>2
  <2>4. CASE e.type = "unit.awaiting-evidence"
    BY <2>0, <2>1, <2>4 DEF ApplyEvent, SetUnitStatus, UnitState
  <2>5. CASE e.type = "unit.completed"
    BY <2>0, <2>1, <2>5 DEF ApplyEvent, SetUnitStatus, UnitState
  <2> QED
    BY <1>1, <2>2, <2>3, <2>4, <2>5 DEF PlainUnitEvents
<1>2. CASE e \in ReasonEvents
  <2>0. e.unit \in UnitRefs
    BY <1>2 DEF ReasonEvents
  <2>1. m.unit[e.unit] \in UnitState
    BY <2>0 DEF Machine
  <2>2. CASE e.type = "unit.failed"
    BY <2>0, <2>1, <2>2 DEF ApplyEvent, SetUnitStatus, UnitState
  <2>3. CASE e.type = "unit.skipped"
    BY <2>0, <2>1, <2>3 DEF ApplyEvent, SetUnitStatus, UnitState
  <2> QED
    BY <1>2, <2>2, <2>3 DEF ReasonEvents
<1>3. CASE e \in DispatchEvents
  <2>0. e.unit \in UnitRefs
    BY <1>3 DEF DispatchEvents
  <2>1. m.unit[e.unit] \in UnitState
    BY <2>0 DEF Machine
  <2>2. CASE e.type = "authorization.requested" /\ e.retry
    BY <2>0, <2>2 DEF ApplyEvent, ResetUnit, FreshUnit
  <2>3. CASE e.type = "authorization.requested" /\ ~e.retry
    BY <2>0, <2>1, <2>3 DEF ApplyEvent, SetUnitStatus, UnitState
  <2>4. CASE e.type = "unit.ready"
    BY <2>0, <2>4 DEF ApplyEvent, ResetUnit, FreshUnit
  <2> QED
    BY <1>3, <2>2, <2>3, <2>4 DEF DispatchEvents
<1>4. CASE e \in DecisionEvents
  <2>0. e.unit \in UnitRefs /\ e.type = "authorization.decided"
    BY <1>4 DEF DecisionEvents
  <2>1. m.unit[e.unit] \in UnitState
    BY <2>0 DEF Machine
  <2> QED
    BY <2>0, <2>1 DEF ApplyEvent, SetUnitStatus, UnitState
<1>5. CASE e \in ClaimEvents
  <2>0. e.unit \in UnitRefs /\ e.type = "unit.claimed"
    BY <1>5 DEF ClaimEvents
  <2>1. m.unit[e.unit] \in UnitState
    BY <2>0 DEF Machine
  <2> DEFINE v == [m.unit[e.unit] EXCEPT !.status = "claimed", !.outputs = e.outputs]
  <2>2. ApplyEvent(m, e) = SetUnit(m, e.unit, v)
    BY <2>0 DEF ApplyEvent
  <2>3. v.status = "claimed"
    BY <2>1 DEF UnitState
  <2> HIDE DEF v
  <2> QED
    BY <2>0, <2>2, <2>3
<1>6. CASE e \in EvidenceEvents
  <2>0. e.unit \in UnitRefs /\ e.type = "evidence.recorded"
    BY <1>6 DEF EvidenceEvents
  <2>1. m.unit[e.unit] \in UnitState
    BY <2>0 DEF Machine
  <2>2. ApplyEvidence(m.unit[e.unit], e).status = m.unit[e.unit].status
    BY <2>1 DEF ApplyEvidence, UnitState
  <2> QED
    BY <2>0, <2>2 DEF ApplyEvent
<1> QED
  BY <1>1, <1>2, <1>3, <1>4, <1>5, <1>6 DEF UnitEvents

\* Every other event leaves the units alone or cancels them.
LEMMA OtherEventEffect ==
  ASSUME NEW m \in Machine, NEW e \in Events,
         e \notin UnitEvents \/ e.type = "execution.failed"
  PROVE  /\ e.type \notin {"unit.completed", "unit.skipped", "unit.ready",
                           "authorization.decided"}
         /\ \A r \in UnitRefs :
              \/ ApplyEvent(m, e).unit[r] = m.unit[r]
              \/ ApplyEvent(m, e).unit[r].status = "cancelled"
<1>1. CASE e.type \in {"execution.created", "execution.started", "execution.succeeded",
                       "execution.failed", "stage.sealed"}
  <2>1. ApplyEvent(m, e).unit = m.unit
    BY <1>1 DEF ApplyEvent, Machine
  <2> QED
    BY <1>1, <2>1
<1>2. CASE e.type = "execution.cancelled"
  <2> DEFINE n == ApplyCancel(m)
  <2>1. ApplyEvent(m, e) = n
    BY <1>2 DEF ApplyEvent
  <2>2. \A r \in UnitRefs : m.unit[r] \in UnitState
    BY DEF Machine
  <2>3. \A r \in UnitRefs : [m.unit[r] EXCEPT !.status = "cancelled"].status = "cancelled"
    BY <2>2 DEF UnitState
  <2>4. \A r \in UnitRefs :
          n.unit[r] = m.unit[r] \/ n.unit[r] = [m.unit[r] EXCEPT !.status = "cancelled"]
    BY CancelKeeps
  <2> HIDE DEF n
  <2> QED
    BY <1>2, <2>1, <2>3, <2>4
<1> QED
  BY <1>1, <1>2 DEF Events, ExecutionEvents, SealEvents

\* Only stage.sealed seals, and no event undoes execution.created.
LEMMA SealingEffect ==
  ASSUME NEW m \in Machine, NEW e \in Events
  PROVE  /\ ApplyEvent(m, e).sealed =
              IF e.type = "stage.sealed" THEN m.sealed \cup {e.stage} ELSE m.sealed
         /\ m.created => ApplyEvent(m, e).created
<1>1. CASE e \in UnitEvents /\ e.type # "execution.failed"
  <2>1. e.type # "stage.sealed"
    BY <1>1 DEF UnitEvents, PlainUnitEvents, ReasonEvents, DispatchEvents, DecisionEvents,
      ClaimEvents, EvidenceEvents
  <2>2. e.unit \in UnitRefs /\ \E u : ApplyEvent(m, e) = SetUnit(m, e.unit, u)
    BY <1>1, UnitEventEffect
  <2> QED
    BY <2>1, <2>2, SetUnitEffect
<1>2. CASE e.type \in {"execution.created", "execution.started", "execution.succeeded",
                       "execution.failed", "stage.sealed"}
  BY <1>2 DEF ApplyEvent, Machine
<1>3. CASE e.type = "execution.cancelled"
  <2>1. ApplyEvent(m, e) = ApplyCancel(m)
    BY <1>3 DEF ApplyEvent
  <2> QED
    BY <1>3, <2>1, CancelKeeps
<1> QED
  BY <1>1, <1>2, <1>3 DEF Events, ExecutionEvents, SealEvents

(***************************************************************************)
(* What stale machines may rely on.                                        *)
(***************************************************************************)
\* Where a satisfied unit comes from.
LEMMA SatisfiedBy ==
  ASSUME NEW m \in Machine, NEW e \in Events, NEW r \in UnitRefs,
         ApplyEvent(m, e).unit[r].status \in Satisfied
  PROVE  \/ m.unit[r].status \in Satisfied
         \/ /\ e \in UnitEvents /\ e.unit = r
            /\ e.type \in {"unit.completed", "unit.skipped"}
<1>1. CASE e \in UnitEvents /\ e.type # "execution.failed"
  <2>1. /\ e.unit \in UnitRefs
        /\ \E u : /\ ApplyEvent(m, e) = SetUnit(m, e.unit, u)
                  /\ u.status \in Satisfied =>
                       \/ m.unit[e.unit].status \in Satisfied
                       \/ e.type \in {"unit.completed", "unit.skipped"}
    BY <1>1, UnitEventEffect
  <2> QED
    BY <1>1, <2>1, SetUnitEffect
<1>2. CASE e \notin UnitEvents \/ e.type = "execution.failed"
  BY <1>2, OtherEventEffect DEF Satisfied
<1> QED
  BY <1>1, <1>2

\* Settled work stays settled when an event is accepted.
LEMMA ConfirmedGrows ==
  ASSUME NEW m, NEW e \in Events, KernelInv(m), ValidateEvent(m, e)
  PROVE  Confirmed(m, ApplyEvent(m, e))
<1>1. m \in Machine /\ OutcomeOf(m) /\ Untouched(m)
  BY DEF KernelInv
<1>2. Step(m, ApplyEvent(m, e))
  BY <1>1, StepCases
<1>3. /\ m.sealed \subseteq ApplyEvent(m, e).sealed
      /\ \A r \in UnitRefs : m.unit[r].status \in Satisfied => ApplyEvent(m, e).unit[r] = m.unit[r]
  BY <1>1, <1>2, SettledStays
<1> QED
  BY <1>3 DEF Confirmed

\* An event that both a machine and the ledger accept settles the same work.
LEMMA ConfirmedStep ==
  ASSUME NEW m, NEW v, NEW e \in Events, KernelInv(m), KernelInv(v), Confirmed(m, v),
         ValidateEvent(v, e)
  PROVE  Confirmed(ApplyEvent(m, e), ApplyEvent(v, e))
<1>0. m \in Machine /\ v \in Machine
  BY DEF KernelInv
<1>1. ApplyEvent(m, e).sealed \subseteq ApplyEvent(v, e).sealed
  BY <1>0, SealingEffect DEF Confirmed
<1>2. ASSUME NEW r \in UnitRefs, ApplyEvent(m, e).unit[r].status \in Satisfied
      PROVE  ApplyEvent(v, e).unit[r].status \in Satisfied
  <2>1. CASE m.unit[r].status \in Satisfied
    BY <2>1, ConfirmedGrows DEF Confirmed
  <2>2. CASE e \in UnitEvents /\ e.unit = r /\ e.type \in {"unit.completed", "unit.skipped"}
    <3>1. \E u : /\ ApplyEvent(v, e) = SetUnit(v, r, u)
                 /\ u.status \in Satisfied
      BY <1>0, <2>2, UnitEventEffect
    <3> QED
      BY <1>0, <3>1, SetUnitEffect
  <2> QED
    BY <1>0, <1>2, <2>1, <2>2, SatisfiedBy
<1> QED
  BY <1>1, <1>2 DEF Confirmed

\* Every event that reaches the ledger: the ledger stays sound, nothing that
\* is settled there is undone, and the ledger's step is one of the kernel's.
LEMMA LedgerStep ==
  ASSUME NEW e \in Events, KernelInv(view), replayable \in BOOLEAN, AppendToLedger(e)
  PROVE  /\ KernelInv(view')
         /\ Confirmed(view, view')
         /\ view.created => view'.created
         /\ replayable' \in BOOLEAN
         /\ replayable' => replayable
         /\ replayable' => ValidateEvent(view, e) /\ view' = ApplyEvent(view, e)
         /\ replayable /\ ValidateEvent(view, e) => replayable' /\ view' = ApplyEvent(view, e)
         /\ \/ view' = view
            \/ ValidateEvent(view, e) /\ view' = ApplyEvent(view, e)
<1>1. \/ /\ replayable /\ ValidateEvent(view, e)
         /\ view' = ApplyEvent(view, e) /\ replayable' = replayable
      \/ /\ ~(replayable /\ ValidateEvent(view, e))
         /\ view' = view /\ replayable' = FALSE
  BY DEF AppendToLedger
<1>2. \/ view' = view
      \/ ValidateEvent(view, e) /\ view' = ApplyEvent(view, e)
  BY <1>1
<1>3. Confirmed(view, view)
  BY DEF Confirmed
<1>4. KernelInv(view') /\ Confirmed(view, view')
  BY <1>2, <1>3, KernelInvStep, ConfirmedGrows
<1>5. view \in Machine
  BY DEF KernelInv
<1>6. view.created => view'.created
  BY <1>2, <1>5, SealingEffect
<1> QED
  BY <1>1, <1>2, <1>4, <1>6

(***************************************************************************)
(* The invariant, step by step.                                            *)
(***************************************************************************)
\* Process p opens the machine that the ledger has, now or by this step.
Opens(p) ==
  /\ MayOpen(p)
  /\ Open(p, view')
  /\ KernelInv(view') /\ view'.created
  /\ view' = view \/ live = {}
  /\ UNCHANGED <<todo, replayable, interrupted>>

LEMMA ReplayOpens ==
  ASSUME IInv, NEW p \in Procs, Replay(p)
  PROVE  Opens(p)
BY DEF IInv, MachinesOK, Replay, Opens

\* create on a ledger with an execution in it is refused, so the ledger's
\* execution is a new one.
LEMMA CreateOpens ==
  ASSUME IInv, NEW p \in Procs, Create(p)
  PROVE  Opens(p) /\ view = NewMachine
<1>1. view = NewMachine /\ live = {}
  BY BlankMachine DEF IInv, MachinesOK, Held, Typed, Create
<1>2. /\ MayOpen(p)
      /\ Open(p, ApplyEvent(NewMachine, CreatedEvent))
      /\ view' = ApplyEvent(view, CreatedEvent)
      /\ UNCHANGED <<todo, replayable, interrupted>>
  BY DEF Create, CreatedEvent
<1> QED
  BY <1>1, <1>2, CreatedMachine DEF Opens

LEMMA OpensInv ==
  ASSUME IInv, NEW p \in Procs, Opens(p)
  PROVE  IInv'
<1>1. /\ live' = live \cup {p} /\ p \notin live /\ (Exclusive => live = {})
      /\ mem \in [Procs -> Machine] /\ mem' = [mem EXCEPT ![p] = view']
      /\ view' \in Machine
  BY DEF IInv, Typed, Opens, MayOpen, Open, KernelInv
<1>2. mem'[p] = view' /\ \A q \in Procs : q # p => mem'[q] = mem[q]
  BY <1>1
<1>3. Typed'
  BY <1>1 DEF IInv, Typed, Opens
<1>4. Held'
  BY <1>1, <1>2 DEF IInv, Held, Opens
<1>5. MachinesOK'
  BY <1>2 DEF IInv, MachinesOK, Opens
<1>6. OneMachine'
  BY <1>1, <1>2 DEF IInv, OneMachine, Opens
<1>7. Confirmed(view, view)
  BY DEF Confirmed
<1>8. LedgerConfirms'
  <2>1. Confirmed(view', view')
    BY DEF Confirmed
  <2> QED
    BY <1>1, <1>2, <2>1 DEF IInv, Typed, LedgerConfirms, Confirmed, Opens
<1> QED
  BY <1>3, <1>4, <1>5, <1>6, <1>8 DEF IInv

LEMMA ClosesInv ==
  ASSUME IInv, NEW p \in Procs, Closes(p)
  PROVE  IInv'
<1>1. /\ live' = live \ {p} /\ p \in live
      /\ mem \in [Procs -> Machine] /\ mem' = [mem EXCEPT ![p] = NewMachine]
      /\ todo \in [Procs -> Seq(CallTasks)] /\ todo' = [todo EXCEPT ![p] = <<>>]
      /\ view' = view /\ replayable' = replayable /\ interrupted' \in BOOLEAN
  BY DEF IInv, Typed, Closes, Close
<1>2. /\ mem'[p] = NewMachine /\ \A q \in Procs : q # p => mem'[q] = mem[q]
      /\ todo'[p] = <<>> /\ \A q \in Procs : q # p => todo'[q] = todo[q]
  BY <1>1
<1>3. Typed'
  <2>1. <<>> \in Seq(CallTasks)
    BY CallSequences
  <2>2. mem' \in [Procs -> Machine] /\ todo' \in [Procs -> Seq(CallTasks)]
    BY <1>1, <2>1, NewMachineTyped
  <2> QED
    BY <1>1, <2>2 DEF IInv, Typed
<1>4. ~NewMachine.created
  BY DEF NewMachine
<1>5. Held'
  BY <1>1, <1>2, <1>4 DEF IInv, Held
<1>6. MachinesOK'
  BY <1>1, <1>2, KernelInvNew DEF IInv, MachinesOK
<1>7. OneMachine' /\ LedgerConfirms'
  BY <1>1, <1>2 DEF IInv, Typed, OneMachine, LedgerConfirms, Confirmed
<1> QED
  BY <1>3, <1>5, <1>6, <1>7 DEF IInv

LEMMA RetasksInv ==
  ASSUME IInv, NEW p \in Procs, Retasks(p)
  PROVE  IInv'
<1>1. /\ p \in live /\ interrupted' \in BOOLEAN
      /\ live' = live /\ mem' = mem /\ view' = view /\ replayable' = replayable
  BY DEF Retasks
<1>2. PICK tasks \in Seq(CallTasks) : todo' = [todo EXCEPT ![p] = tasks]
  BY DEF Retasks
<1>3. Typed'
  BY <1>1, <1>2 DEF IInv, Typed
<1>4. Held'
  BY <1>1, <1>2 DEF IInv, Typed, Held
<1>5. MachinesOK' /\ OneMachine' /\ LedgerConfirms'
  BY <1>1 DEF IInv, MachinesOK, OneMachine, LedgerConfirms, Confirmed
<1> QED
  BY <1>3, <1>4, <1>5 DEF IInv

LEMMA EmitsInv ==
  ASSUME IInv, NEW p \in Procs, NEW e \in Events, Emits(p, e)
  PROVE  IInv'
<1>0. /\ Typed /\ Held /\ OneMachine /\ LedgerConfirms
      /\ KernelInv(view) /\ \A q \in Procs : KernelInv(mem[q])
  BY DEF IInv, MachinesOK
<1>1. /\ p \in live /\ live' = live /\ interrupted' = interrupted
      /\ ValidateEvent(mem[p], e)
      /\ mem \in [Procs -> Machine] /\ mem' = [mem EXCEPT ![p] = ApplyEvent(mem[p], e)]
  BY <1>0 DEF Typed, Emits
<1>2. PICK tasks \in Seq(CallTasks) : todo' = [todo EXCEPT ![p] = tasks]
  BY DEF Emits
<1>3. mem'[p] = ApplyEvent(mem[p], e) /\ \A q \in Procs : q # p => mem'[q] = mem[q]
  BY <1>1
<1>4. KernelInv(mem'[p]) /\ mem'[p] \in Machine /\ mem'[p].created
  <2>1. KernelInv(mem'[p])
    BY <1>0, <1>1, <1>3, KernelInvStep
  <2>2. mem[p] \in Machine /\ mem[p].created
    BY <1>0, <1>1 DEF Held, KernelInv
  <2> QED
    BY <1>3, <2>1, <2>2, SealingEffect DEF KernelInv
<1>5. /\ KernelInv(view') /\ Confirmed(view, view') /\ (view.created => view'.created)
      /\ replayable' \in BOOLEAN
      /\ replayable' => replayable
      /\ replayable' => ValidateEvent(view, e) /\ view' = ApplyEvent(view, e)
      /\ replayable /\ ValidateEvent(view, e) => replayable' /\ view' = ApplyEvent(view, e)
  BY <1>0, LedgerStep DEF Typed, Emits
<1>6. Typed'
  <2>1. mem' \in [Procs -> Machine]
    BY <1>1, <1>3, <1>4
  <2> QED
    BY <1>0, <1>1, <1>2, <1>5, <2>1 DEF Typed
<1>7. Held'
  BY <1>0, <1>1, <1>2, <1>3, <1>4, <1>5 DEF Typed, Held
<1>8. MachinesOK'
  <2>1. \A q \in Procs : KernelInv(mem'[q])
    BY <1>0, <1>3, <1>4
  <2> QED
    BY <1>5, <2>1 DEF MachinesOK, KernelInv
<1>9. OneMachine'
  BY <1>0, <1>1, <1>3, <1>5 DEF OneMachine
<1>10. LedgerConfirms'
  <2> SUFFICES ASSUME replayable', NEW q \in live PROVE Confirmed(mem'[q], view')
    BY <1>1 DEF LedgerConfirms, Confirmed
  <2>1. q \in Procs /\ Confirmed(mem[q], view)
    BY <1>0, <1>5 DEF Typed, LedgerConfirms
  <2>2. CASE q = p
    BY <1>0, <1>3, <1>5, <2>1, <2>2, ConfirmedStep
  <2>3. CASE q # p
    BY <1>3, <1>5, <2>1, <2>3 DEF Confirmed
  <2> QED
    BY <2>2, <2>3
<1> QED
  BY <1>6, <1>7, <1>8, <1>9, <1>10 DEF IInv

(***************************************************************************)
(* The theorems.                                                           *)
(***************************************************************************)
LEMMA NextKeepsInv ==
  ASSUME IInv, Next
  PROVE  IInv'
<1>1. PICK p \in Procs :
        \/ Create(p) \/ Replay(p) \/ Closes(p) \/ Retasks(p)
        \/ \E e \in Events : Emits(p, e)
  BY NextCases DEF IInv
<1> QED
  BY <1>1, CreateOpens, ReplayOpens, OpensInv, ClosesInv, RetasksInv, EmitsInv

\* Every state that any interleaving of processes, crashes and failed appends
\* reaches satisfies IInv.
THEOREM MachineInductive == Spec => []IInv
<1>1. Init => IInv
  <2> SUFFICES ASSUME Init PROVE IInv
    OBVIOUS
  <2>1. Typed
    BY NewMachineTyped, CallSequences DEF Init, Typed
  <2>2. Held
    BY DEF Init, Held, NewMachine
  <2>3. MachinesOK
    BY KernelInvNew DEF Init, MachinesOK
  <2>4. OneMachine /\ LedgerConfirms
    BY DEF Init, OneMachine, LedgerConfirms
  <2> QED
    BY <2>1, <2>2, <2>3, <2>4 DEF IInv
<1>2. IInv /\ [Next]_vars => IInv'
  <2> SUFFICES ASSUME IInv, UNCHANGED vars PROVE IInv'
    BY NextKeepsInv
  <2> QED
    BY DEF vars, IInv, Typed, Held, MachinesOK, OneMachine, LedgerConfirms, Confirmed
<1> QED
  BY <1>1, <1>2, PTL DEF Spec

\* Memory, ledger and the rest of every call keep their shape.
THEOREM MachineTypeCorrect == Spec => []TypeOK
<1>1. IInv => TypeOK
  <2> SUFFICES ASSUME IInv PROVE TypeOK
    OBVIOUS
  <2>1. CallTasks \subseteq Tasks
    BY DEF CallTasks
  <2>2. Seq(CallTasks) \subseteq Seq(Tasks)
    BY <2>1
  <2>3. todo \in [Procs -> Seq(Tasks)]
    BY <2>2 DEF IInv, Typed
  <2> QED
    BY <2>3 DEF IInv, Typed, MachinesOK, KernelInv, TypeOK
<1> QED
  BY <1>1, MachineInductive, PTL

\* With one machine per execution, _emit's order (validate, append, apply)
\* keeps memory and ledger equal at every step, crashes and failed appends
\* included.
THEOREM MemoryIsLedger == Spec => []MemoryMatchesLedger
<1>1. IInv => MemoryMatchesLedger
  BY DEF IInv, OneMachine, MemoryMatchesLedger
<1> QED
  BY <1>1, MachineInductive, PTL

\* What a stale machine holds for settled is settled in the ledger, as long as
\* the ledger replays.
THEOREM SettledWorkIsConfirmed == Spec => []ConfirmedInLedger
<1>1. IInv => ConfirmedInLedger
  BY DEF IInv, LedgerConfirms, Confirmed, ConfirmedInLedger
<1> QED
  BY <1>1, MachineInductive, PTL

LEMMA KernelInvSound ==
  ASSUME NEW m, KernelInv(m)
  PROVE  SoundOf(m)
<1>1. BarrierOf(m) /\ SealedOf(m) /\ UnitsOK(m)
  BY DEF KernelInv
<1>2. CompletedIsProvenOf(m)
  <2> SUFFICES ASSUME NEW r \in UnitRefs, m.unit[r].status = "completed"
               PROVE  /\ m.unit[r].attempts > 0
                      /\ m.unit[r].outputs = "conforming"
                      /\ RequiresEvidence[StageOf(r)] \subseteq m.unit[r].accepted
                      /\ RequiresEvidence[StageOf(r)] \cap Schematic
                           \subseteq m.unit[r].matching
    BY DEF CompletedIsProvenOf
  <2>1. UnitOK(r, m.unit[r])
    BY <1>1 DEF UnitsOK
  <2> QED
    BY <2>1 DEF UnitOK
<1>3. RetryBudgetOf(m)
  BY <1>1 DEF UnitsOK, UnitOK, AwaitsStart, RetryBudgetOf
<1>4. FreshAttemptOf(m)
  BY <1>1 DEF UnitsOK, UnitOK, AwaitsStart, FreshAttemptOf
<1> QED
  BY <1>1, <1>2, <1>3, <1>4 DEF SoundOf

\* However many processes append to the ledger, no machine and no ledger
\* breaks the barrier, the proof of completion or the retry budget.
THEOREM MachinesAreSound == Spec => []EveryMachineIsSound
<1>1. IInv => EveryMachineIsSound
  BY KernelInvSound DEF IInv, Typed, MachinesOK, EveryMachineIsSound
<1> QED
  BY <1>1, MachineInductive, PTL

\* What a step does to the ledger: nothing, create's event on an empty one,
\* or an event that the ledger's own state accepts, from a call.
LEMMA LedgerMoves ==
  ASSUME IInv, [Next]_vars
  PROVE  \/ view' = view
         \/ view = NewMachine /\ view' = ApplyEvent(view, CreatedEvent)
         \/ \E e \in Events :
              e \in CallTasks /\ ValidateEvent(view, e) /\ view' = ApplyEvent(view, e)
<1>1. CASE UNCHANGED vars
  BY <1>1 DEF vars
<1>2. CASE Next
  <2>1. PICK p \in Procs :
          \/ Create(p) \/ Replay(p) \/ Closes(p) \/ Retasks(p)
          \/ \E e \in Events : Emits(p, e)
    BY <1>2, NextCases DEF IInv
  <2>2. CASE Create(p)
    BY <2>2, CreateOpens DEF Create, CreatedEvent
  <2>3. CASE Replay(p) \/ Closes(p) \/ Retasks(p)
    BY <2>3 DEF Replay, Closes, Close, Retasks
  <2>4. ASSUME NEW e \in Events, Emits(p, e)
        PROVE  \/ view' = view
               \/ e \in CallTasks /\ ValidateEvent(view, e) /\ view' = ApplyEvent(view, e)
    BY <2>4, LedgerStep DEF IInv, Typed, MachinesOK, Emits
  <2> QED
    BY <2>1, <2>2, <2>3, <2>4
<1> QED
  BY <1>1, <1>2

\* No call queues a dispatch without a request where humanApproval is
\* "always", so the ledger never holds one, at a first attempt or at a retry.
THEOREM DispatchNeedsAuthorization == Spec => DispatchIsAuthorized
<1> DEFINE A == \A r \in UnitRefs :
                  /\ HumanApproval[StageOf(r)] = "always"
                  /\ view.unit[r].status # "ready"
                  /\ view'.unit[r].status = "ready"
                  => view.unit[r].status = "awaiting-authorization"
<1>1. IInv /\ [Next]_vars => [A]_vars
  <2> SUFFICES ASSUME IInv, [Next]_vars, NEW r \in UnitRefs,
                      HumanApproval[StageOf(r)] = "always",
                      view.unit[r].status # "ready", view'.unit[r].status = "ready"
               PROVE  view.unit[r].status = "awaiting-authorization"
    OBVIOUS
  <2>0. view \in Machine
    BY DEF IInv, MachinesOK, KernelInv
  <2>1. CASE view = NewMachine /\ view' = ApplyEvent(view, CreatedEvent)
    BY <2>1, CreatedMachine
  <2>2. ASSUME NEW e \in Events, e \in CallTasks,
               ValidateEvent(view, e), view' = ApplyEvent(view, e)
        PROVE  view.unit[r].status = "awaiting-authorization"
    <3>1. e \in UnitEvents /\ e.type # "execution.failed"
      BY <2>0, <2>2, OtherEventEffect
    <3>2. PICK u :
            /\ ApplyEvent(view, e) = SetUnit(view, e.unit, u)
            /\ u.status = "ready" =>
                 \/ view.unit[e.unit].status = "ready"
                 \/ e.type \in {"unit.ready", "authorization.decided"}
      BY <2>0, <3>1, UnitEventEffect
    <3>3. e.unit = r /\ e.type \in {"unit.ready", "authorization.decided"}
      BY <2>0, <2>2, <3>1, <3>2, UnitEventEffect, SetUnitEffect
    <3>4. e.type = "authorization.decided"
      BY <2>2, <3>3 DEF CallTasks
    <3> QED
      BY <2>2, <3>3, <3>4 DEF ValidateEvent, ValidateExecutionEvent, ValidateStageEvent,
        ValidateDispatchEvent, ValidateResultEvent
  <2> QED
    BY <2>1, <2>2, LedgerMoves
<1> QED
  BY <1>1, MachineInductive, PTL DEF Spec, DispatchIsAuthorized

(***************************************************************************)
(* Where a running call leads.                                             *)
(***************************************************************************)
\* A unit that waits for nothing the kernel itself should do.
QuietUnit(r, u) ==
  /\ u.status \notin {"pending", "claimed", "failed"}
  /\ u.status = "awaiting-evidence" =>
       /\ u.recorded = u.accepted
       /\ ~(RequiresEvidence[StageOf(r)] \subseteq u.accepted)

\* The kernel has nothing to do for any unit.
QuietUnits(m) == \A r \in UnitRefs : QuietUnit(r, m.unit[r])

\* The stages whose one unit the kernel itself registers.
Singletons == {s \in Stages : FanoutMode[s] = "singleton"}

\* Every singleton whose needs are satisfied is sealed.
Unlocked(m) == \A s \in Singletons : DependenciesSatisfied(m, s) => s \in m.sealed

\* Every singleton that has its unit is sealed.
Whole(m) == \A s \in Singletons : GroupUnits(m, s) # {} => s \in m.sealed

\* No unit is satisfied yet.
Unworked(m) == \A r \in UnitRefs : m.unit[r].status \notin Satisfied

\* Nothing is left for the kernel: it waits for the adapter.
Settled(m) == QuietUnits(m) /\ Unlocked(m) /\ ~AllWorkSatisfied(m)

\* The last task of a call: is all the work satisfied?
Finish == [type |-> "finish"]

\* What may be left of a call when its next task is no event.  `calm` says
\* whether the machine was settled when the call was made.
Ends(m, rest, calm) ==
  \/ rest = <<>> /\ (calm /\ m.status = "running" => Settled(m))
  \/ /\ m.status = "running"
     /\ \/ rest = <<Materialize>> /\ (calm => QuietUnits(m) /\ Whole(m) /\ Unworked(m))
        \/ rest = <<Materialize, Finish>> /\ (calm => QuietUnits(m) /\ Whole(m))
        \/ rest = <<Finish>> /\ (calm => QuietUnits(m) /\ Unlocked(m))

\* The machine accepts the next event of the call.
NextAccepted(m, rest) ==
  rest # <<>> /\ Head(rest) \in Events /\ ValidateEvent(m, Head(rest))

\* ... and so on, for the one, two or three events up to such a point.
EndsIn1(m, rest, calm) ==
  \/ Ends(m, rest, calm)
  \/ NextAccepted(m, rest) /\ Ends(ApplyEvent(m, Head(rest)), Tail(rest), calm)

EndsIn2(m, rest, calm) ==
  \/ Ends(m, rest, calm)
  \/ NextAccepted(m, rest) /\ EndsIn1(ApplyEvent(m, Head(rest)), Tail(rest), calm)

EndsIn3(m, rest, calm) ==
  \/ Ends(m, rest, calm)
  \/ NextAccepted(m, rest) /\ EndsIn2(ApplyEvent(m, Head(rest)), Tail(rest), calm)

\* One machine at a time, and no call has been interrupted.
Calm == Exclusive /\ Stages # {} /\ ~interrupted

\* Every call of every process runs to such a point; whoever opens the
\* execution when nobody holds it finds it settled.
CallsEnd ==
  /\ \A p \in Procs : EndsIn3(mem[p], todo[p], Calm)
  /\ Calm /\ live = {} /\ view.status = "running" => Settled(view)

\* What a calm call keeps, any call keeps.
LEMMA EndsMonotone ==
  ASSUME NEW m, NEW rest, NEW c, NEW d, d => c
  PROVE  /\ Ends(m, rest, c) => Ends(m, rest, d)
         /\ EndsIn3(m, rest, c) => EndsIn3(m, rest, d)
<1>1. ASSUME NEW n, NEW t PROVE Ends(n, t, c) => Ends(n, t, d)
  BY DEF Ends
<1>2. ASSUME NEW n, NEW t PROVE EndsIn1(n, t, c) => EndsIn1(n, t, d)
  BY <1>1 DEF EndsIn1
<1>3. ASSUME NEW n, NEW t PROVE EndsIn2(n, t, c) => EndsIn2(n, t, d)
  BY <1>1, <1>2 DEF EndsIn2
<1> QED
  BY <1>1, <1>3 DEF EndsIn3

\* Fewer events to go are at most as many.
LEMMA EndsCumulate ==
  ASSUME NEW m, NEW rest, NEW c
  PROVE  /\ Ends(m, rest, c) => EndsIn1(m, rest, c)
         /\ EndsIn1(m, rest, c) => EndsIn2(m, rest, c)
         /\ EndsIn2(m, rest, c) => EndsIn3(m, rest, c)
BY DEF EndsIn1, EndsIn2, EndsIn3

\* What does not start with an event ends there.
LEMMA NotAnEvent ==
  ASSUME NEW m, NEW rest, NEW c, Ends(m, rest, c), rest # <<>>
  PROVE  Head(rest).type \in {"materialize", "finish"}
BY DEF Ends, Materialize, Finish

\* The call goes on with an event: it is accepted, and one less is to come.
LEMMA GoesOn ==
  ASSUME NEW m, NEW rest, NEW c, EndsIn3(m, rest, c), rest # <<>>, IsEvent(Head(rest))
  PROVE  /\ ValidateEvent(m, Head(rest))
         /\ EndsIn3(ApplyEvent(m, Head(rest)), Tail(rest), c)
<1>1. ~Ends(m, rest, c)
  BY NotAnEvent DEF IsEvent
<1>2. NextAccepted(m, rest) /\ EndsIn2(ApplyEvent(m, Head(rest)), Tail(rest), c)
  BY <1>1 DEF EndsIn3
<1> QED
  BY <1>2, EndsCumulate DEF NextAccepted

\* The call does not go on with one: it is at such a point.
LEMMA AtAnEnd ==
  ASSUME NEW m, NEW rest, NEW c, EndsIn3(m, rest, c), rest = <<>> \/ ~IsEvent(Head(rest))
  PROVE  Ends(m, rest, c)
<1>1. \A e \in Events : IsEvent(e)
  BY DEF Events, ExecutionEvents, SealEvents, UnitEvents, PlainUnitEvents, ReasonEvents,
    DispatchEvents, DecisionEvents, ClaimEvents, EvidenceEvents, IsEvent
<1> QED
  BY <1>1 DEF EndsIn3, NextAccepted

\* The head and the tail of the sequences that calls queue.
LEMMA Unfold ==
  ASSUME NEW a \in CallTasks, NEW b \in CallTasks, NEW c \in CallTasks,
         NEW t \in Seq(CallTasks)
  PROVE  /\ <<a>> # <<>> /\ Head(<<a>>) = a /\ Tail(<<a>>) = <<>>
         /\ <<a, b>> # <<>> /\ Head(<<a, b>>) = a /\ Tail(<<a, b>>) = <<b>>
         /\ <<a>> \o t # <<>> /\ Head(<<a>> \o t) = a /\ Tail(<<a>> \o t) = t
         /\ <<a, b, c>> \o t # <<>> /\ Head(<<a, b, c>> \o t) = a
         /\ Tail(<<a, b, c>> \o t) = <<b>> \o (<<c>> \o t)
         /\ <<a>> \o <<>> = <<a>>
<1>1. <<a>> # <<>> /\ Head(<<a>>) = a /\ Tail(<<a>>) = <<>>
  OBVIOUS
<1>2. <<a, b>> # <<>> /\ Head(<<a, b>>) = a /\ Tail(<<a, b>>) = <<b>>
  OBVIOUS
<1>3. <<a>> \o t # <<>> /\ Head(<<a>> \o t) = a /\ Tail(<<a>> \o t) = t
  OBVIOUS
<1>4. <<a, b, c>> \o t # <<>> /\ Head(<<a, b, c>> \o t) = a
  OBVIOUS
<1>5. Tail(<<a, b, c>> \o t) = <<b>> \o (<<c>> \o t)
  <2> DEFINE ct == <<c>> \o t
             k == <<b>> \o ct
             l == <<a, b, c>> \o t
  <2>0. Len(t) \in Nat
    OBVIOUS
  <2>1. /\ ct \in Seq(CallTasks) /\ Len(ct) = Len(t) + 1 /\ ct[1] = c
        /\ \A i \in 1 .. Len(t) : ct[i + 1] = t[i]
    OBVIOUS
  <2>2. /\ l \in Seq(CallTasks) /\ Len(l) = Len(t) + 3 /\ l[2] = b /\ l[3] = c
        /\ \A i \in 1 .. Len(t) : l[i + 3] = t[i]
    OBVIOUS
  <2> HIDE DEF ct, l
  <2>3. /\ k \in Seq(CallTasks) /\ Len(k) = Len(t) + 2 /\ k[1] = b
        /\ \A i \in 1 .. Len(ct) : k[i + 1] = ct[i]
    BY <2>0, <2>1
  <2> HIDE DEF k
  <2>4. /\ Tail(l) \in Seq(CallTasks) /\ Len(Tail(l)) = Len(t) + 2
        /\ \A i \in 1 .. Len(t) + 2 : Tail(l)[i] = l[i + 1]
    BY <2>0, <2>2, HeadTailProperties
  <2>5. ASSUME NEW i \in 1 .. Len(t) + 2 PROVE Tail(l)[i] = k[i]
    <3>1. CASE i = 1
      BY <2>2, <2>3, <2>4, <3>1
    <3>2. CASE i = 2
      BY <2>0, <2>1, <2>2, <2>3, <2>4, <3>2
    <3>3. ASSUME NEW j \in 1 .. Len(t), i = j + 2 PROVE Tail(l)[i] = k[i]
      <4>1. i + 1 = j + 3 /\ i = (j + 1) + 1 /\ j + 1 \in 1 .. Len(ct)
        BY <2>0, <2>1, <3>3
      <4>2. Tail(l)[i] = l[j + 3] /\ k[i] = ct[j + 1]
        BY <2>3, <2>4, <4>1
      <4> QED
        BY <2>1, <2>2, <4>2
    <3>4. i = 1 \/ i = 2 \/ \E j \in 1 .. Len(t) : i = j + 2
      <4>1. i \in Int /\ 1 <= i /\ i <= Len(t) + 2
        BY <2>0
      <4>2. i = 1 \/ i = 2 \/ (i - 2 \in 1 .. Len(t) /\ i = (i - 2) + 2)
        BY <2>0, <4>1
      <4> QED
        BY <4>2
    <3> QED
      BY <3>1, <3>2, <3>3, <3>4
  <2>6. Tail(l) = k
    BY <2>0, <2>3, <2>4, <2>5, SeqEqual
  <2> QED
    BY <2>6 DEF k, l, ct
<1>6. <<a>> \o <<>> = <<a>>
  OBVIOUS
<1> QED
  BY <1>1, <1>2, <1>3, <1>4, <1>5, <1>6

(***************************************************************************)
(* The events of the calls.                                                *)
(***************************************************************************)
\* Unit r of machine m becomes u in machine n, and nothing else changes.
Sets(m, n, r, u) ==
  /\ m \in Machine /\ n \in Machine
  /\ u \in UnitState /\ n.unit[r] = u
  /\ \A q \in UnitRefs : q # r => n.unit[q] = m.unit[q]
  /\ n.sealed = m.sealed /\ n.created = m.created /\ n.status = m.status

\* Machine m accepts e, which makes its unit r into u.
Takes(m, e, r, u) ==
  e \in Events /\ ValidateEvent(m, e) /\ Sets(m, ApplyEvent(m, e), r, u)

\* SetUnit changes the one unit.
LEMMA SetUnitSets ==
  ASSUME NEW m \in Machine, NEW r \in UnitRefs, NEW u \in UnitState
  PROVE  Sets(m, SetUnit(m, r, u), r, u)
<1>1. SetUnit(m, r, u) = [m EXCEPT !.unit = [m.unit EXCEPT ![r] = u]]
  BY DEF SetUnit, Machine
<1>2. SetUnit(m, r, u) \in Machine
  BY <1>1 DEF Machine
<1> QED
  BY <1>1, <1>2 DEF Sets, Machine

\* Two changes of one unit are one.
LEMMA SetsTransitive ==
  ASSUME NEW m, NEW n, NEW k, NEW r, NEW u, NEW v, Sets(m, n, r, u), Sets(n, k, r, v)
  PROVE  Sets(m, k, r, v)
BY DEF Sets

\* A machine that runs: every event of a unit asks for it.
Busy(m) == m \in Machine /\ m.created /\ m.status = "running"

\* The unit states after an event that only moves the status.
LEMMA StatusTyped ==
  ASSUME NEW u \in UnitState, NEW status \in UnitStatus
  PROVE  /\ [u EXCEPT !.status = status] \in UnitState
         /\ [u EXCEPT !.status = status].status = status
         /\ [u EXCEPT !.status = status].attempts = u.attempts
         /\ [u EXCEPT !.status = status].recorded = u.recorded
         /\ [u EXCEPT !.status = status].accepted = u.accepted
BY DEF UnitState

\* unit.registered in _register and _materialize_singletons.
LEMMA RegisteredTakes ==
  ASSUME NEW m, Busy(m), NEW r \in UnitRefs, MayRegister(m, r)
  PROVE  Takes(m, [type |-> "unit.registered", unit |-> r], r, FreshUnit("pending"))
<1> DEFINE e == [type |-> "unit.registered", unit |-> r]
<1>1. e \in Events
  BY DEF Events, UnitEvents, PlainUnitEvents
<1>2. e.type = "unit.registered" /\ e.unit = r
  OBVIOUS
<1> HIDE DEF e
<1>3. ValidateEvent(m, e)
  BY <1>2 DEF ValidateEvent, ValidateStageEvent, Busy
<1>4. ApplyEvent(m, e) = SetUnit(m, r, FreshUnit("pending"))
  BY <1>2 DEF ApplyEvent
<1>5. FreshUnit("pending") \in UnitState
  BY FreshTyped DEF UnitStatus
<1>6. Takes(m, e, r, FreshUnit("pending"))
  BY <1>1, <1>3, <1>4, <1>5, SetUnitSets DEF Takes, Busy
<1> QED
  BY <1>6 DEF e

\* A unit that is pending, or failed with an attempt left at a retry, is sent
\* to the person who authorizes it or to the worker.
LEMMA DispatchTakes ==
  ASSUME NEW m, Busy(m), NEW r \in UnitRefs, NEW retry \in BOOLEAN,
         IF retry THEN m.unit[r].status = "failed" /\ AttemptLeft(m, r)
                  ELSE m.unit[r].status = "pending"
  PROVE  \E u : /\ Takes(m, DispatchTask(r, retry), r, u)
                /\ u.status \in {"awaiting-authorization", "ready"}
<1> DEFINE e == DispatchTask(r, retry)
           always == HumanApproval[StageOf(r)] = "always"
           next == IF always THEN "awaiting-authorization" ELSE "ready"
           v == ResetUnit(m.unit[r], next)
           w == [m.unit[r] EXCEPT !.status = next]
<1>0. m \in Machine /\ m.unit[r] \in UnitState /\ next \in UnitStatus
  BY DEF Busy, Machine, UnitStatus
<1>1. e \in Events
  BY DEF DispatchTask, Events, UnitEvents, DispatchEvents
<1>2. /\ e.type = IF always THEN "authorization.requested" ELSE "unit.ready"
      /\ e.unit = r /\ e.retry = retry
  BY DEF DispatchTask
<1> HIDE DEF e
<1>3. ValidateEvent(m, e)
  BY <1>2 DEF ValidateEvent, ValidateDispatchEvent, Busy
<1>4. ApplyEvent(m, e) = SetUnit(m, r, v) \/ ApplyEvent(m, e) = SetUnit(m, r, w)
  BY <1>2 DEF ApplyEvent, SetUnitStatus
<1>5. v \in UnitState /\ v.status = next
  BY <1>0 DEF ResetUnit, FreshUnit, UnitState, Outputs
<1>6. w \in UnitState /\ w.status = next
  BY <1>0, StatusTyped
<1>7. next \in {"awaiting-authorization", "ready"}
  OBVIOUS
<1> HIDE DEF v, w, next
<1>8. Takes(m, e, r, v) \/ Takes(m, e, r, w)
  BY <1>0, <1>1, <1>3, <1>4, <1>5, <1>6, SetUnitSets DEF Takes
<1> QED
  BY <1>5, <1>6, <1>7, <1>8 DEF e

\* authorization.decided in approve and deny.
LEMMA DecidedTakes ==
  ASSUME NEW m, Busy(m), NEW r \in UnitRefs, NEW b \in BOOLEAN,
         m.unit[r].status = "awaiting-authorization"
  PROVE  Takes(m, [type |-> "authorization.decided", unit |-> r, approved |-> b], r,
               [m.unit[r] EXCEPT !.status = IF b THEN "ready" ELSE "failed"])
<1> DEFINE e == [type |-> "authorization.decided", unit |-> r, approved |-> b]
           next == IF b THEN "ready" ELSE "failed"
<1>0. m \in Machine /\ m.unit[r] \in UnitState /\ next \in UnitStatus
  BY DEF Busy, Machine, UnitStatus
<1>1. e \in Events
  BY DEF Events, UnitEvents, DecisionEvents
<1>2. e.type = "authorization.decided" /\ e.unit = r /\ e.approved = b
  OBVIOUS
<1> HIDE DEF e
<1>3. ValidateEvent(m, e)
  BY <1>2 DEF ValidateEvent, ValidateDispatchEvent, Busy
<1>4. ApplyEvent(m, e) = SetUnit(m, r, [m.unit[r] EXCEPT !.status = next])
  BY <1>2 DEF ApplyEvent, SetUnitStatus
<1> HIDE DEF next
<1>5. Takes(m, e, r, [m.unit[r] EXCEPT !.status = next])
  BY <1>0, <1>1, <1>3, <1>4, StatusTyped, SetUnitSets DEF Takes
<1> QED
  BY <1>5 DEF e, next

\* unit.started in start_unit.
LEMMA StartedTakes ==
  ASSUME NEW m, Busy(m), NEW r \in UnitRefs, m.unit[r].status = "ready", AttemptLeft(m, r)
  PROVE  \E u : /\ Takes(m, [type |-> "unit.started", unit |-> r], r, u)
                /\ u.status = "running"
<1> DEFINE e == [type |-> "unit.started", unit |-> r]
           k == m.unit[r].attempts + 1
           v == [m.unit[r] EXCEPT !.status = "running", !.attempts = k]
<1>0. m \in Machine /\ m.unit[r] \in UnitState
  BY DEF Busy, Machine
<1>1. e \in Events
  BY DEF Events, UnitEvents, PlainUnitEvents
<1>2. e.type = "unit.started" /\ e.unit = r
  OBVIOUS
<1> HIDE DEF e
<1>3. ValidateEvent(m, e)
  BY <1>2 DEF ValidateEvent, ValidateDispatchEvent, Busy
<1>4. ApplyEvent(m, e) = SetUnit(m, r, v)
  BY <1>2 DEF ApplyEvent
<1>5. k \in Nat
  BY <1>0 DEF UnitState
<1> HIDE DEF k
<1>6. v \in UnitState /\ v.status = "running"
  BY <1>0, <1>5 DEF UnitState, UnitStatus
<1> HIDE DEF v
<1>7. Takes(m, e, r, v)
  BY <1>0, <1>1, <1>3, <1>4, <1>6, SetUnitSets DEF Takes
<1> QED
  BY <1>6, <1>7 DEF e

\* unit.claimed in claim, with outputs of the right shape.
LEMMA ClaimedTakes ==
  ASSUME NEW m, Busy(m), NEW r \in UnitRefs, m.unit[r].status = "running"
  PROVE  Takes(m, [type |-> "unit.claimed", unit |-> r, outputs |-> "conforming"], r,
               [m.unit[r] EXCEPT !.status = "claimed", !.outputs = "conforming"])
<1> DEFINE e == [type |-> "unit.claimed", unit |-> r, outputs |-> "conforming"]
           v == [m.unit[r] EXCEPT !.status = "claimed", !.outputs = "conforming"]
<1>0. m \in Machine /\ m.unit[r] \in UnitState
  BY DEF Busy, Machine
<1>1. e \in Events
  BY DEF Events, UnitEvents, ClaimEvents, Outputs
<1>2. e.type = "unit.claimed" /\ e.unit = r /\ e.outputs = "conforming"
  OBVIOUS
<1> HIDE DEF e
<1>3. ValidateEvent(m, e)
  BY <1>2 DEF ValidateEvent, ValidateResultEvent, Busy
<1>4. ApplyEvent(m, e) = SetUnit(m, r, v)
  BY <1>2 DEF ApplyEvent
<1>5. v \in UnitState
  BY <1>0 DEF UnitState, UnitStatus, Outputs
<1> HIDE DEF v
<1>6. Takes(m, e, r, v)
  BY <1>0, <1>1, <1>3, <1>4, <1>5, SetUnitSets DEF Takes
<1> QED
  BY <1>6 DEF e, v

\* unit.awaiting-evidence in claim.
LEMMA AwaitingTakes ==
  ASSUME NEW m, Busy(m), NEW r \in UnitRefs, m.unit[r].status = "claimed",
         RequiresEvidence[StageOf(r)] # {}
  PROVE  Takes(m, [type |-> "unit.awaiting-evidence", unit |-> r], r,
               [m.unit[r] EXCEPT !.status = "awaiting-evidence"])
<1> DEFINE e == [type |-> "unit.awaiting-evidence", unit |-> r]
<1>0. m \in Machine /\ m.unit[r] \in UnitState /\ "awaiting-evidence" \in UnitStatus
  BY DEF Busy, Machine, UnitStatus
<1>1. e \in Events
  BY DEF Events, UnitEvents, PlainUnitEvents
<1>2. e.type = "unit.awaiting-evidence" /\ e.unit = r
  OBVIOUS
<1> HIDE DEF e
<1>3. ValidateEvent(m, e)
  BY <1>2 DEF ValidateEvent, ValidateResultEvent, Busy
<1>4. ApplyEvent(m, e) = SetUnit(m, r, [m.unit[r] EXCEPT !.status = "awaiting-evidence"])
  BY <1>2 DEF ApplyEvent, SetUnitStatus
<1>5. Takes(m, e, r, [m.unit[r] EXCEPT !.status = "awaiting-evidence"])
  BY <1>0, <1>1, <1>3, <1>4, StatusTyped, SetUnitSets DEF Takes
<1> QED
  BY <1>5 DEF e

\* unit.completed in claim and record_evidence: every gate is passed.
LEMMA CompletedTakes ==
  ASSUME NEW m, Busy(m), NEW r \in UnitRefs,
         \/ m.unit[r].status = "claimed" /\ RequiresEvidence[StageOf(r)] = {}
         \/ m.unit[r].status = "awaiting-evidence" /\ GatesAccepted(m, r)
  PROVE  Takes(m, [type |-> "unit.completed", unit |-> r], r,
               [m.unit[r] EXCEPT !.status = "completed"])
<1> DEFINE e == [type |-> "unit.completed", unit |-> r]
<1>0. m \in Machine /\ m.unit[r] \in UnitState /\ "completed" \in UnitStatus
  BY DEF Busy, Machine, UnitStatus
<1>1. e \in Events
  BY DEF Events, UnitEvents, PlainUnitEvents
<1>2. e.type = "unit.completed" /\ e.unit = r
  OBVIOUS
<1> HIDE DEF e
<1>3. ValidateEvent(m, e)
  BY <1>2 DEF ValidateEvent, ValidateResultEvent, Busy
<1>4. ApplyEvent(m, e) = SetUnit(m, r, [m.unit[r] EXCEPT !.status = "completed"])
  BY <1>2 DEF ApplyEvent, SetUnitStatus
<1>5. Takes(m, e, r, [m.unit[r] EXCEPT !.status = "completed"])
  BY <1>0, <1>1, <1>3, <1>4, StatusTyped, SetUnitSets DEF Takes
<1> QED
  BY <1>5 DEF e

\* Unit r takes a receipt for evidence c and becomes u.
Receives(m, r, c, a, b, u) ==
  /\ Takes(m, [type |-> "evidence.recorded", unit |-> r, evidence |-> c,
               accepted |-> a, matches |-> b], r, u)
  /\ u.status = "awaiting-evidence"
  /\ u.recorded = m.unit[r].recorded \cup {c}
  /\ u.accepted = IF a THEN m.unit[r].accepted \cup {c} ELSE m.unit[r].accepted

\* evidence.recorded in record_evidence.
LEMMA ReceiptTakes ==
  ASSUME NEW m, Busy(m), NEW r \in UnitRefs, m.unit[r].status = "awaiting-evidence",
         NEW c \in RequiresEvidence[StageOf(r)] \ m.unit[r].recorded,
         NEW a \in BOOLEAN, NEW b \in BOOLEAN, a /\ c \in Schematic => b
  PROVE  \E u : Receives(m, r, c, a, b, u)
<1> DEFINE e == [type |-> "evidence.recorded", unit |-> r, evidence |-> c,
                 accepted |-> a, matches |-> b]
           x == m.unit[r]
           v == ApplyEvidence(x, e)
           acc == IF a THEN x.accepted \cup {c} ELSE x.accepted
           mat == IF b /\ c \in Schematic THEN x.matching \cup {c} ELSE x.matching
<1>0. m \in Machine /\ x \in UnitState /\ c \in Evidence
  BY RefsOfStage, PlanAssumption DEF Busy, Machine
<1>1. e \in Events
  BY <1>0 DEF Events, UnitEvents, EvidenceEvents
<1>2. e.type = "evidence.recorded" /\ e.unit = r /\ e.evidence = c /\ e.accepted = a /\ e.matches = b
  OBVIOUS
<1> HIDE DEF e
<1>3. ValidateEvent(m, e)
  BY <1>2 DEF ValidateEvent, ValidateResultEvent, Busy
<1>4. ApplyEvent(m, e) = SetUnit(m, r, v)
  BY <1>2 DEF ApplyEvent
<1>5. v = [x EXCEPT !.recorded = x.recorded \cup {c}, !.accepted = acc, !.matching = mat]
  BY <1>0, <1>2 DEF ApplyEvidence, UnitState
<1>6. acc \in SUBSET Evidence /\ mat \in SUBSET Evidence /\ x.recorded \cup {c} \in SUBSET Evidence
  BY <1>0 DEF UnitState
<1>7. acc = IF a THEN m.unit[r].accepted \cup {c} ELSE m.unit[r].accepted
  OBVIOUS
<1> HIDE DEF acc, mat, v
<1>8. /\ v \in UnitState /\ v.status = "awaiting-evidence"
      /\ v.recorded = m.unit[r].recorded \cup {c} /\ v.accepted = acc
  BY <1>0, <1>5, <1>6 DEF UnitState
<1>9. Takes(m, e, r, v)
  BY <1>0, <1>1, <1>3, <1>4, <1>8, SetUnitSets DEF Takes
<1>10. Receives(m, r, c, a, b, v)
  BY <1>7, <1>8, <1>9 DEF e, Receives
<1> QED
  BY <1>10

\* unit.skipped in skip_unit.
LEMMA SkippedTakes ==
  ASSUME NEW m, Busy(m), NEW r \in UnitRefs, m.unit[r].status = "ready",
         StageOf(r) \in Conditional
  PROVE  Takes(m, [type |-> "unit.skipped", unit |-> r, reason |-> "given"], r,
               [m.unit[r] EXCEPT !.status = "skipped"])
<1> DEFINE e == [type |-> "unit.skipped", unit |-> r, reason |-> "given"]
<1>0. m \in Machine /\ m.unit[r] \in UnitState /\ "skipped" \in UnitStatus
  BY DEF Busy, Machine, UnitStatus
<1>1. e \in Events
  BY DEF Events, UnitEvents, ReasonEvents, Reasons
<1>2. e.type = "unit.skipped" /\ e.unit = r /\ e.reason = "given"
  OBVIOUS
<1> HIDE DEF e
<1>3. ValidateEvent(m, e)
  BY <1>2 DEF ValidateEvent, ValidateDispatchEvent, Busy
<1>4. ApplyEvent(m, e) = SetUnit(m, r, [m.unit[r] EXCEPT !.status = "skipped"])
  BY <1>2 DEF ApplyEvent, SetUnitStatus
<1>5. Takes(m, e, r, [m.unit[r] EXCEPT !.status = "skipped"])
  BY <1>0, <1>1, <1>3, <1>4, StatusTyped, SetUnitSets DEF Takes
<1> QED
  BY <1>5 DEF e

\* unit.failed in fail_unit, claim and record_evidence.
LEMMA FailedTakes ==
  ASSUME NEW m, Busy(m), NEW r \in UnitRefs,
         m.unit[r].status \in {"running", "claimed", "awaiting-evidence"}
  PROVE  Takes(m, [type |-> "unit.failed", unit |-> r, reason |-> "given"], r,
               [m.unit[r] EXCEPT !.status = "failed"])
<1> DEFINE e == [type |-> "unit.failed", unit |-> r, reason |-> "given"]
<1>0. m \in Machine /\ m.unit[r] \in UnitState /\ "failed" \in UnitStatus
  BY DEF Busy, Machine, UnitStatus
<1>1. e \in Events
  BY DEF Events, UnitEvents, ReasonEvents, Reasons
<1>2. e.type = "unit.failed" /\ e.unit = r /\ e.reason = "given"
  OBVIOUS
<1> HIDE DEF e
<1>3. ValidateEvent(m, e)
  BY <1>2 DEF ValidateEvent, ValidateResultEvent, Busy
<1>4. ApplyEvent(m, e) = SetUnit(m, r, [m.unit[r] EXCEPT !.status = "failed"])
  BY <1>2 DEF ApplyEvent, SetUnitStatus
<1>5. Takes(m, e, r, [m.unit[r] EXCEPT !.status = "failed"])
  BY <1>0, <1>1, <1>3, <1>4, StatusTyped, SetUnitSets DEF Takes
<1> QED
  BY <1>5 DEF e

\* The execution's own events.
LEMMA ExecutionTakes ==
  ASSUME NEW m, m \in Machine, m.created
  PROVE  /\ m.status = "created" =>
              LET e == [type |-> "execution.started"] IN
              /\ e \in Events /\ ValidateEvent(m, e)
              /\ ApplyEvent(m, e) = [m EXCEPT !.status = "running"]
         /\ m.status = "running" /\ AllWorkSatisfied(m) =>
              LET e == [type |-> "execution.succeeded"] IN
              /\ e \in Events /\ ValidateEvent(m, e)
              /\ ApplyEvent(m, e).status # "running"
         /\ m.status \in {"created", "running"} =>
              LET e == [type |-> "execution.cancelled"] IN
              /\ e \in Events /\ ValidateEvent(m, e)
              /\ ApplyEvent(m, e).status # "running"
         /\ \A r \in UnitRefs :
              m.status = "running" /\ m.unit[r].status = "failed" =>
                LET e == [type |-> "execution.failed", unit |-> r, reason |-> "given"] IN
                /\ e \in Events /\ ValidateEvent(m, e)
                /\ ApplyEvent(m, e).status # "running"
         /\ \A s \in Stages :
              m.status = "running" /\ MaySeal(m, s) =>
                LET e == [type |-> "stage.sealed", stage |-> s] IN
                /\ e \in Events /\ ValidateEvent(m, e)
                /\ ApplyEvent(m, e) = [m EXCEPT !.sealed = m.sealed \cup {s}]
<1> USE DEF Events, ValidateEvent, ValidateExecutionEvent, ApplyEvent
<1>1. ASSUME m.status = "created"
      PROVE  LET e == [type |-> "execution.started"] IN
             /\ e \in Events /\ ValidateEvent(m, e)
             /\ ApplyEvent(m, e) = [m EXCEPT !.status = "running"]
  BY <1>1 DEF ExecutionEvents
<1>2. ASSUME m.status = "running", AllWorkSatisfied(m)
      PROVE  LET e == [type |-> "execution.succeeded"] IN
             /\ e \in Events /\ ValidateEvent(m, e)
             /\ ApplyEvent(m, e).status # "running"
  BY <1>2 DEF ExecutionEvents, Machine
<1>3. ASSUME m.status \in {"created", "running"}
      PROVE  LET e == [type |-> "execution.cancelled"] IN
             /\ e \in Events /\ ValidateEvent(m, e)
             /\ ApplyEvent(m, e).status # "running"
  BY <1>3, CancelKeeps DEF ExecutionEvents
<1>4. ASSUME NEW r \in UnitRefs, m.status = "running", m.unit[r].status = "failed"
      PROVE  LET e == [type |-> "execution.failed", unit |-> r, reason |-> "given"] IN
             /\ e \in Events /\ ValidateEvent(m, e)
             /\ ApplyEvent(m, e).status # "running"
  BY <1>4 DEF UnitEvents, ReasonEvents, Reasons, Machine
<1>5. ASSUME NEW s \in Stages, m.status = "running", MaySeal(m, s)
      PROVE  LET e == [type |-> "stage.sealed", stage |-> s] IN
             /\ e \in Events /\ ValidateEvent(m, e)
             /\ ApplyEvent(m, e) = [m EXCEPT !.sealed = m.sealed \cup {s}]
  BY <1>5 DEF SealEvents, ValidateStageEvent
<1> QED
  BY <1>1, <1>2, <1>3, <1>4, <1>5
(***************************************************************************)
(* What the calls do to a settled machine.                                 *)
(***************************************************************************)
\* A unit that comes to wait for the adapter leaves the machine settled.
LEMMA WaitingSettles ==
  ASSUME NEW m, NEW n, NEW r \in UnitRefs, NEW u, Sets(m, n, r, u), Settled(m),
         QuietUnit(r, u), u.status \notin Satisfied, u.status # "absent"
  PROVE  Settled(n)
<1>1. QuietUnits(n)
  BY DEF Settled, QuietUnits, Sets
<1>2. \A d \in Stages : GroupSatisfied(n, d) => GroupSatisfied(m, d)
  <2> SUFFICES ASSUME NEW d \in Stages, GroupSatisfied(n, d), NEW q \in GroupUnits(m, d)
               PROVE  m.unit[q].status \in Satisfied
    BY DEF GroupSatisfied, Sets
  <2>1. q \in UnitRefs /\ q \in RefsOf(d) /\ m.unit[q].status # "absent"
    BY RefsOfStage DEF GroupUnits
  <2>2. n.unit[q].status # "absent"
    BY <2>1 DEF Sets
  <2>3. n.unit[q].status \in Satisfied
    BY <2>1, <2>2 DEF GroupSatisfied, GroupUnits
  <2> QED
    BY <2>1, <2>3 DEF Sets
<1>3. Unlocked(n)
  <2> SUFFICES ASSUME NEW s \in Singletons, DependenciesSatisfied(n, s) PROVE s \in m.sealed
    BY DEF Unlocked, Sets
  <2>1. Needs[s] \subseteq Stages
    BY PlanAssumption DEF Singletons
  <2>2. DependenciesSatisfied(m, s)
    BY <1>2, <2>1 DEF DependenciesSatisfied
  <2> QED
    BY <2>2 DEF Settled, Unlocked
<1>4. ~AllWorkSatisfied(n)
  <2>1. StageOf(r) \in Stages /\ r \in GroupUnits(n, StageOf(r)) /\ n.unit[r].status \notin Satisfied
    BY RefsOfStage DEF GroupUnits, Sets
  <2> QED
    BY <2>1 DEF AllWorkSatisfied, GroupSatisfied
<1> QED
  BY <1>1, <1>3, <1>4 DEF Settled

\* In a settled machine every singleton that has its unit is sealed.
LEMMA SettledWhole ==
  ASSUME NEW m, KernelInv(m), Settled(m)
  PROVE  Whole(m)
BY DEF Settled, Unlocked, Whole, Singletons, KernelInv, BarrierOf

\* No unit is new: singletons stay whole.
LEMMA StaysWhole ==
  ASSUME NEW m, NEW n, NEW r \in UnitRefs, NEW u, Sets(m, n, r, u), QuietUnits(m), Whole(m),
         QuietUnit(r, u), m.unit[r].status # "absent"
  PROVE  QuietUnits(n) /\ Whole(n)
<1>1. QuietUnits(n)
  BY DEF QuietUnits, Sets
<1>2. \A s \in Stages : GroupUnits(n, s) # {} => GroupUnits(m, s) # {}
  BY RefsOfStage DEF GroupUnits, Sets
<1>3. Whole(n)
  BY <1>2 DEF Whole, Singletons, Sets
<1> QED
  BY <1>1, <1>3

\* Sealing changes no unit.
LEMMA SealingKeepsWhole ==
  ASSUME NEW m \in Machine, NEW s \in Stages, QuietUnits(m),
         \A t \in Singletons : GroupUnits(m, t) # {} => t \in m.sealed \cup {s}
  PROVE  LET n == [m EXCEPT !.sealed = m.sealed \cup {s}] IN
         /\ QuietUnits(n) /\ Whole(n) /\ n.status = m.status
         /\ Unworked(m) => Unworked(n)
<1> DEFINE n == [m EXCEPT !.sealed = m.sealed \cup {s}]
<1>1. n.unit = m.unit /\ n.sealed = m.sealed \cup {s} /\ n.status = m.status
  BY DEF Machine
<1> HIDE DEF n
<1>2. QuietUnits(n) /\ (Unworked(m) => Unworked(n))
  BY <1>1 DEF QuietUnits, Unworked
<1>3. Whole(n)
  BY <1>1 DEF Whole, GroupUnits
<1> QED
  BY <1>1, <1>2, <1>3 DEF n

(***************************************************************************)
(* Every call goes through.                                                *)
(***************************************************************************)
\* A call is made on a machine that its kernel's invariant holds of, and that
\* is settled if it is running and calm.
CallMade(m, calm) ==
  KernelInv(m) /\ m.created /\ (calm /\ m.status = "running" => Settled(m))

\* start: execution.started, then the singletons are looked through.
LEMMA StartEnds ==
  ASSUME NEW m, NEW calm, CallMade(m, calm), m.status = "created"
  PROVE  EndsIn3(m, <<[type |-> "execution.started"], Materialize>>, calm)
<1> DEFINE e == [type |-> "execution.started"]
           n == [m EXCEPT !.status = "running"]
<1>0. m \in Machine
  BY DEF CallMade, KernelInv
<1>1. e \in Events /\ ValidateEvent(m, e) /\ ApplyEvent(m, e) = n
  BY <1>0, ExecutionTakes DEF CallMade
<1>2. n.unit = m.unit /\ n.status = "running"
  BY <1>0 DEF Machine
<1>3. \A r \in UnitRefs : m.unit[r].status = "absent"
  BY DEF CallMade, KernelInv, OutcomeOf, FreshUnit
<1> HIDE DEF n
<1>4. QuietUnits(n) /\ Unworked(n)
  BY <1>2, <1>3 DEF QuietUnits, QuietUnit, Unworked, Satisfied
<1>5. Whole(n)
  BY <1>2, <1>3, RefsOfStage DEF Whole, GroupUnits, Singletons
<1>6. e \in CallTasks /\ Materialize \in CallTasks
  BY TasksTyped
<1> HIDE DEF e
<1>7. <<e, Materialize>> # <<>> /\ Head(<<e, Materialize>>) = e
      /\ Tail(<<e, Materialize>>) = <<Materialize>>
  OBVIOUS
<1>8. Ends(n, <<Materialize>>, calm)
  BY <1>2, <1>4, <1>5 DEF Ends
<1>9. EndsIn1(m, <<e, Materialize>>, calm)
  BY <1>1, <1>7, <1>8 DEF EndsIn1, NextAccepted
<1> QED
  BY <1>9, EndsCumulate DEF e

\* cancel: execution.cancelled, and that is all.
LEMMA CancelEnds ==
  ASSUME NEW m, NEW calm, CallMade(m, calm), m.status \in {"created", "running"}
  PROVE  EndsIn3(m, <<[type |-> "execution.cancelled"]>>, calm)
<1> DEFINE e == [type |-> "execution.cancelled"]
<1>0. m \in Machine
  BY DEF CallMade, KernelInv
<1>1. e \in Events /\ ValidateEvent(m, e) /\ ApplyEvent(m, e).status # "running"
  BY <1>0, ExecutionTakes DEF CallMade
<1> HIDE DEF e
<1>2. <<e>> # <<>> /\ Head(<<e>>) = e /\ Tail(<<e>>) = <<>>
  OBVIOUS
<1>3. EndsIn1(m, <<e>>, calm)
  BY <1>1, <1>2 DEF EndsIn1, NextAccepted, Ends
<1> QED
  BY <1>3, EndsCumulate DEF e

\* One accepted event of a unit, and what is left after it.
LEMMA TakesFirst ==
  ASSUME NEW m, NEW e \in CallTasks, NEW r, NEW u, Takes(m, e, r, u), NEW t \in Seq(CallTasks), NEW calm
  PROVE  /\ Ends(ApplyEvent(m, e), t, calm) => EndsIn3(m, <<e>> \o t, calm)
         /\ EndsIn1(ApplyEvent(m, e), t, calm) => EndsIn3(m, <<e>> \o t, calm)
         /\ EndsIn2(ApplyEvent(m, e), t, calm) => EndsIn3(m, <<e>> \o t, calm)
         /\ Ends(ApplyEvent(m, e), t, calm) => EndsIn1(m, <<e>> \o t, calm)
         /\ EndsIn1(ApplyEvent(m, e), t, calm) => EndsIn2(m, <<e>> \o t, calm)
<1>1. <<e>> \o t # <<>> /\ Head(<<e>> \o t) = e /\ Tail(<<e>> \o t) = t
  BY Unfold
<1>2. NextAccepted(m, <<e>> \o t)
  BY <1>1 DEF NextAccepted, Takes
<1>3. Ends(ApplyEvent(m, e), t, calm) => EndsIn1(m, <<e>> \o t, calm)
  BY <1>1, <1>2 DEF EndsIn1
<1>4. EndsIn1(ApplyEvent(m, e), t, calm) => EndsIn2(m, <<e>> \o t, calm)
  BY <1>1, <1>2 DEF EndsIn2
<1>5. EndsIn2(ApplyEvent(m, e), t, calm) => EndsIn3(m, <<e>> \o t, calm)
  BY <1>1, <1>2 DEF EndsIn3
<1> QED
  BY <1>3, <1>4, <1>5, EndsCumulate

\* Short sequences as concatenations.
LEMMA Joined ==
  ASSUME NEW a \in CallTasks, NEW b \in CallTasks
  PROVE  <<a>> = <<a>> \o <<>> /\ <<a, b>> = <<a>> \o <<b>>
<1>1. <<a>> = <<a>> \o <<>>
  OBVIOUS
<1>2. <<a, b>> = <<a>> \o <<b>>
  <2> DEFINE s == <<a, b>>
             t == <<a>> \o <<b>>
  <2>1. s \in Seq(CallTasks) /\ Len(s) = 2 /\ s[1] = a /\ s[2] = b
    OBVIOUS
  <2>2. t \in Seq(CallTasks) /\ Len(t) = 2 /\ t[1] = a /\ t[2] = b
    OBVIOUS
  <2> HIDE DEF s, t
  <2>3. \A i \in 1 .. Len(s) : s[i] = t[i]
    BY <2>1, <2>2
  <2>4. s = t
    BY <2>1, <2>2, <2>3, SeqEqual
  <2> QED
    BY <2>4 DEF s, t
<1> QED
  BY <1>1, <1>2

\* The call ends with unit r waiting for the adapter, or with unit r done and
\* a look at what that unlocks.
LEMMA EndsWaiting ==
  ASSUME NEW m, NEW n, NEW r \in UnitRefs, NEW u, NEW calm, CallMade(m, calm),
         m.status = "running", Sets(m, n, r, u),
         calm => QuietUnit(r, u), u.status \notin Satisfied, u.status # "absent"
  PROVE  Ends(n, <<>>, calm)
BY WaitingSettles DEF CallMade, Ends

LEMMA EndsUnlocking ==
  ASSUME NEW m, NEW n, NEW r \in UnitRefs, NEW u, NEW calm, CallMade(m, calm),
         m.status = "running", Sets(m, n, r, u), u.status \in Satisfied,
         m.unit[r].status # "absent"
  PROVE  Ends(n, UnlockOrFinish, calm)
<1>1. QuietUnit(r, u)
  BY DEF QuietUnit, Satisfied
<1>2. calm => QuietUnits(n) /\ Whole(n)
  BY <1>1, SettledWhole, StaysWhole DEF CallMade, Settled
<1>3. n.status = "running"
  BY DEF Sets
<1> QED
  BY <1>2, <1>3 DEF Ends, UnlockOrFinish, Finish

\* A failed unit ends the execution.
LEMMA FailureEnds ==
  ASSUME NEW m, Busy(m), NEW r \in UnitRefs, m.unit[r].status = "failed", NEW calm
  PROVE  EndsIn1(m, <<[type |-> "execution.failed", unit |-> r, reason |-> "given"]>>, calm)
<1> DEFINE e == [type |-> "execution.failed", unit |-> r, reason |-> "given"]
<1>1. e \in Events /\ ValidateEvent(m, e) /\ ApplyEvent(m, e).status # "running"
  BY ExecutionTakes DEF Busy
<1> HIDE DEF e
<1>2. <<e>> # <<>> /\ Head(<<e>>) = e /\ Tail(<<e>>) = <<>>
  OBVIOUS
<1>3. EndsIn1(m, <<e>>, calm)
  BY <1>1, <1>2 DEF EndsIn1, NextAccepted, Ends
<1> QED
  BY <1>3 DEF e

\* The unit fails, and the execution with it.
LEMMA FailForGoodEnds ==
  ASSUME NEW m, Busy(m), NEW r \in UnitRefs, NEW calm,
         m.unit[r].status \in {"running", "claimed", "awaiting-evidence"}
  PROVE  EndsIn2(m, FailForGood(r), calm)
<1> DEFINE f == [type |-> "unit.failed", unit |-> r, reason |-> "given"]
           x == [type |-> "execution.failed", unit |-> r, reason |-> "given"]
           u == [m.unit[r] EXCEPT !.status = "failed"]
           n == ApplyEvent(m, f)
<1>1. Takes(m, f, r, u)
  BY FailedTakes
<1>2. u.status = "failed"
  BY DEF Busy, Machine, UnitState
<1>3. Busy(n) /\ n.unit[r].status = "failed"
  BY <1>1, <1>2 DEF Takes, Sets, Busy
<1>4. EndsIn1(n, <<x>>, calm)
  BY <1>3, FailureEnds
<1>5. f \in CallTasks /\ x \in CallTasks
  BY UnitTasksTyped DEF Reasons
<1>6. FailForGood(r) = <<f>> \o <<x>> /\ <<x>> \in Seq(CallTasks)
  BY <1>5 DEF FailForGood
<1> HIDE DEF f, x, u
<1> QED
  BY <1>1, <1>4, <1>5, <1>6, TakesFirst DEF n

\* A unit that needs no more evidence is completed, and what it unlocks is
\* looked for.
LEMMA CompleteUnitEnds ==
  ASSUME NEW k, NEW m, NEW r \in UnitRefs, NEW u, NEW calm, CallMade(k, calm),
         k.status = "running", k.unit[r].status # "absent",
         Sets(k, m, r, u),
         \/ u.status = "claimed" /\ RequiresEvidence[StageOf(r)] = {}
         \/ u.status = "awaiting-evidence" /\ RequiresEvidence[StageOf(r)] \subseteq u.accepted
  PROVE  EndsIn1(m, CompleteUnit(r), calm)
<1> DEFINE e == [type |-> "unit.completed", unit |-> r]
           v == [u EXCEPT !.status = "completed"]
           n == ApplyEvent(m, e)
<1>1. Busy(m) /\ m.unit[r] = u
  BY DEF CallMade, Sets, Busy
<1>2. Takes(m, e, r, v)
  BY <1>1, CompletedTakes DEF GatesAccepted
<1>3. v.status \in Satisfied
  BY DEF Sets, UnitState, Satisfied
<1> HIDE DEF v
<1>4. Sets(k, n, r, v)
  BY <1>2, SetsTransitive DEF Takes
<1>5. Ends(n, UnlockOrFinish, calm)
  BY <1>3, <1>4, EndsUnlocking
<1>6. e \in CallTasks /\ UnlockOrFinish \in Seq(CallTasks)
  BY UnitTasksTyped, CallPartsTyped
<1> HIDE DEF e
<1>7. EndsIn1(m, <<e>> \o UnlockOrFinish, calm)
  BY <1>2, <1>5, <1>6, TakesFirst DEF n
<1> QED
  BY <1>7 DEF CompleteUnit, e

\* What a method has done when it returns from its checks: the call it made
\* goes through.
Enters(p, calm) == EndsIn3(mem[p], todo'[p], calm)

\* A method that returns from its checks leaves the tasks of its call.
LEMMA CallTodo ==
  ASSUME IInv, NEW p \in Procs, NEW tasks, Call(p, tasks)
  PROVE  todo'[p] = tasks /\ todo[p] = <<>> /\ p \in live
BY DEF IInv, Typed, Call, Ready

\* The methods of a running execution find a machine that runs.
LEMMA RunningMachine ==
  ASSUME IInv, NEW p \in Procs, NEW calm, CallMade(mem[p], calm), Running(p)
  PROVE  Busy(mem[p]) /\ \A r \in UnitRefs : mem[p].unit[r] \in UnitState
BY DEF CallMade, KernelInv, Running, Busy, Machine

\* register_unit: the unit is registered, and sent off.
LEMMA RegisterUnitEnters ==
  ASSUME IInv, NEW p \in Procs, NEW calm, CallMade(mem[p], calm), NEW r \in UnitRefs,
         RegisterUnit(p, r)
  PROVE  Enters(p, calm)
<1> DEFINE m == mem[p]
           e == [type |-> "unit.registered", unit |-> r]
           d == DispatchTask(r, FALSE)
           n == ApplyEvent(m, e)
<1>1. todo'[p] = <<e, d>>
  BY CallTodo DEF RegisterUnit
<1>2. Busy(m) /\ MayRegister(m, r)
  BY RunningMachine DEF RegisterUnit, CanExpand, MayRegister
<1>3. Takes(m, e, r, FreshUnit("pending"))
  BY <1>2, RegisteredTakes
<1>4. Busy(n) /\ n.unit[r].status = "pending"
  <2>1. FreshUnit("pending").status = "pending"
    BY DEF FreshUnit
  <2> HIDE DEF e
  <2> QED
    BY <1>2, <1>3, <2>1 DEF Takes, Sets, Busy
<1>5. PICK u : Takes(n, d, r, u) /\ u.status \in {"awaiting-authorization", "ready"}
  BY <1>4, DispatchTakes
<1>6. e \in CallTasks /\ d \in CallTasks
  BY UnitTasksTyped
<1> HIDE DEF e, d, n
<1>7. Sets(m, ApplyEvent(n, d), r, u)
  BY <1>3, <1>5, SetsTransitive DEF Takes, n
<1>8. Ends(ApplyEvent(n, d), <<>>, calm)
  BY <1>2, <1>5, <1>7, EndsWaiting DEF QuietUnit, Satisfied, Busy
<1>9. /\ <<d>> = <<d>> \o <<>> /\ <<e, d>> = <<e>> \o <<d>>
      /\ <<>> \in Seq(CallTasks) /\ <<d>> \in Seq(CallTasks)
  BY <1>6, Joined, CallSequences
<1>10. EndsIn1(n, <<d>>, calm)
  BY <1>5, <1>6, <1>8, <1>9, TakesFirst
<1> QED
  BY <1>1, <1>3, <1>6, <1>9, <1>10, TakesFirst DEF Enters, n

\* seal_stage: the stage is sealed, and what it unlocks is looked for.
LEMMA SealStageEnters ==
  ASSUME IInv, NEW p \in Procs, NEW calm, CallMade(mem[p], calm), NEW s \in Stages,
         SealStage(p, s)
  PROVE  Enters(p, calm)
<1> DEFINE m == mem[p]
           e == [type |-> "stage.sealed", stage |-> s]
           n == [m EXCEPT !.sealed = m.sealed \cup {s}]
<1>1. todo'[p] = <<e>> \o UnlockOrFinish
  BY CallTodo DEF SealStage
<1>2. Busy(m) /\ MaySeal(m, s)
  BY RunningMachine DEF SealStage, CanExpand, MaySeal
<1>3. e \in Events /\ ValidateEvent(m, e) /\ ApplyEvent(m, e) = n
  BY <1>2, ExecutionTakes DEF Busy
<1>4. n.status = "running" /\ (calm => QuietUnits(n) /\ Whole(n))
  <2>1. n.status = "running"
    BY <1>2 DEF Busy, Machine
  <2>2. ASSUME calm PROVE QuietUnits(n) /\ Whole(n)
    <3>1. QuietUnits(m) /\ Whole(m)
      BY <1>2, <2>2, SettledWhole DEF CallMade, Settled, Busy
    <3> QED
      BY <1>2, <3>1, SealingKeepsWhole DEF Whole, Busy
  <2> QED
    BY <2>1, <2>2
<1>5. e \in CallTasks /\ UnlockOrFinish \in Seq(CallTasks)
  BY TasksTyped, CallPartsTyped
<1> HIDE DEF e, n
<1>6. Ends(n, UnlockOrFinish, calm)
  BY <1>4 DEF Ends, UnlockOrFinish, Finish
<1>7. EndsIn1(m, <<e>> \o UnlockOrFinish, calm)
  BY <1>3, <1>5, <1>6, Unfold DEF EndsIn1, NextAccepted
<1> QED
  BY <1>1, <1>7, EndsCumulate DEF Enters

\* approve: the unit is ready for its worker.
LEMMA ApproveEnters ==
  ASSUME IInv, NEW p \in Procs, NEW calm, CallMade(mem[p], calm), NEW r \in UnitRefs,
         Approve(p, r)
  PROVE  Enters(p, calm)
<1> DEFINE m == mem[p]
           e == [type |-> "authorization.decided", unit |-> r, approved |-> TRUE]
           u == [m.unit[r] EXCEPT !.status = "ready"]
<1>1. todo'[p] = <<e>>
  BY CallTodo DEF Approve
<1>2. /\ Busy(m) /\ m.unit[r] \in UnitState
      /\ m.unit[r].status = "awaiting-authorization"
  BY RunningMachine DEF Approve, InStatus
<1>3. Takes(m, e, r, u)
  BY <1>2, DecidedTakes
<1>4. u.status = "ready"
  BY <1>2 DEF UnitState
<1>5. e \in CallTasks
  BY UnitTasksTyped
<1> HIDE DEF e, u
<1>6. Ends(ApplyEvent(m, e), <<>>, calm)
  BY <1>2, <1>3, <1>4, EndsWaiting DEF Takes, QuietUnit, Satisfied, Busy
<1>7. <<e>> = <<e>> \o <<>> /\ <<>> \in Seq(CallTasks)
  BY <1>5
<1> QED
  BY <1>1, <1>3, <1>5, <1>6, <1>7, TakesFirst DEF Enters

\* A denial with a reason that is not blank.
LEMMA DenyEnters ==
  ASSUME IInv, NEW p \in Procs, NEW calm, CallMade(mem[p], calm), NEW r \in UnitRefs,
         NEW reason, reason # "blank", Deny(p, r, reason)
  PROVE  Enters(p, calm)
<1> DEFINE m == mem[p]
           e == [type |-> "authorization.decided", unit |-> r, approved |-> FALSE]
           x == [type |-> "execution.failed", unit |-> r, reason |-> "given"]
           u == [m.unit[r] EXCEPT !.status = "failed"]
           n == ApplyEvent(m, e)
<1>1. todo'[p] = <<e, x>>
  BY CallTodo DEF Deny
<1>2. /\ Busy(m) /\ m.unit[r] \in UnitState
      /\ m.unit[r].status = "awaiting-authorization"
  BY RunningMachine DEF Deny, InStatus
<1>3. Takes(m, e, r, u)
  BY <1>2, DecidedTakes
<1>4. Busy(n) /\ n.unit[r].status = "failed"
  BY <1>2, <1>3 DEF Takes, Sets, Busy, UnitState
<1>5. EndsIn1(n, <<x>>, calm)
  BY <1>4, FailureEnds
<1>6. e \in CallTasks /\ x \in CallTasks
  BY UnitTasksTyped DEF Reasons
<1> HIDE DEF e, x, u
<1>7. <<e, x>> = <<e>> \o <<x>> /\ <<x>> \in Seq(CallTasks)
  BY <1>6, Joined, CallSequences
<1> QED
  BY <1>1, <1>3, <1>5, <1>6, <1>7, TakesFirst DEF Enters, n

\* start_unit: the unit runs.
LEMMA StartUnitEnters ==
  ASSUME IInv, NEW p \in Procs, NEW calm, CallMade(mem[p], calm), NEW r \in UnitRefs,
         StartUnit(p, r)
  PROVE  Enters(p, calm)
<1> DEFINE m == mem[p]
           e == [type |-> "unit.started", unit |-> r]
<1>1. todo'[p] = <<e>>
  BY CallTodo DEF StartUnit
<1>2. Busy(m) /\ m.unit[r].status = "ready" /\ AttemptLeft(m, r)
  BY RunningMachine DEF StartUnit, InStatus
<1>3. PICK u : Takes(m, e, r, u) /\ u.status = "running"
  BY <1>2, StartedTakes
<1>4. e \in CallTasks
  BY UnitTasksTyped
<1> HIDE DEF e
<1>5. Ends(ApplyEvent(m, e), <<>>, calm)
  BY <1>2, <1>3, EndsWaiting DEF Takes, QuietUnit, Satisfied, Busy
<1>6. <<e>> = <<e>> \o <<>> /\ <<>> \in Seq(CallTasks)
  BY <1>4
<1> QED
  BY <1>1, <1>3, <1>4, <1>5, <1>6, TakesFirst DEF Enters

\* claim: the unit fails, is completed, or awaits its evidence.
LEMMA ClaimUnitEnters ==
  ASSUME IInv, NEW p \in Procs, NEW calm, CallMade(mem[p], calm), NEW r \in UnitRefs,
         ClaimUnit(p, r)
  PROVE  Enters(p, calm)
<1> DEFINE m == mem[p]
           e == [type |-> "unit.claimed", unit |-> r, outputs |-> "conforming"]
           g == [type |-> "unit.awaiting-evidence", unit |-> r]
           u == [m.unit[r] EXCEPT !.status = "claimed", !.outputs = "conforming"]
           v == [u EXCEPT !.status = "awaiting-evidence"]
           n == ApplyEvent(m, e)
           gated == RequiresEvidence[StageOf(r)] # {}
<1>1. todo'[p] = <<e>> \o (IF gated THEN <<g>> ELSE CompleteUnit(r))
  BY CallTodo DEF ClaimUnit
<1>2. Busy(m) /\ m.unit[r] \in UnitState /\ m.unit[r].status = "running"
  BY RunningMachine DEF ClaimUnit, InStatus
<1>3. Takes(m, e, r, u)
  BY <1>2, ClaimedTakes
<1>4. u.status = "claimed" /\ u.accepted = m.unit[r].accepted /\ u.recorded = m.unit[r].recorded
  BY <1>2 DEF UnitState
<1>5. m.unit[r].recorded = {} /\ m.unit[r].accepted = {}
  <2>1. UnitOK(r, m.unit[r])
    BY DEF CallMade, KernelInv, UnitsOK
  <2> QED
    BY <1>2, <2>1 DEF UnitOK
<1>6. e \in CallTasks /\ g \in CallTasks /\ CompleteUnit(r) \in Seq(CallTasks)
  BY UnitTasksTyped, CallPartsTyped
<1> HIDE DEF e, u
<1>7. u \in UnitState /\ n.unit[r] = u /\ Busy(n) /\ Sets(m, n, r, u)
  BY <1>2, <1>3 DEF Takes, Sets, Busy
<1>8. CASE gated
  <2>1. Takes(n, g, r, v)
    BY <1>4, <1>7, <1>8, AwaitingTakes
  <2>2. v.status = "awaiting-evidence" /\ v.recorded = {} /\ v.accepted = {}
    BY <1>4, <1>5, <1>7 DEF UnitState
  <2> HIDE DEF v, g, n
  <2>3. Sets(m, ApplyEvent(n, g), r, v)
    BY <1>7, <2>1, SetsTransitive DEF Takes
  <2>4. QuietUnit(r, v) /\ v.status \notin Satisfied
    BY <1>8, <2>2 DEF QuietUnit, Satisfied
  <2>5. Ends(ApplyEvent(n, g), <<>>, calm)
    BY <1>2, <2>2, <2>3, <2>4, EndsWaiting DEF Busy
  <2>6. <<g>> = <<g>> \o <<>> /\ <<>> \in Seq(CallTasks) /\ <<g>> \in Seq(CallTasks)
    BY <1>6
  <2>7. EndsIn1(n, <<g>>, calm)
    BY <1>6, <2>1, <2>5, <2>6, TakesFirst
  <2> QED
    BY <1>1, <1>3, <1>6, <1>8, <2>6, <2>7, TakesFirst DEF Enters, n
<1>9. CASE ~gated
  <2>1. EndsIn1(n, CompleteUnit(r), calm)
    BY <1>2, <1>4, <1>7, <1>9, CompleteUnitEnds DEF Busy
  <2> QED
    BY <1>1, <1>3, <1>6, <1>9, <2>1, TakesFirst DEF Enters
<1> QED
  BY <1>8, <1>9

\* record_evidence: the unit fails, awaits more, or is completed.
LEMMA RecordEvidenceEnters ==
  ASSUME IInv, NEW p \in Procs, NEW calm, CallMade(mem[p], calm), NEW r \in UnitRefs,
         NEW c \in Evidence, NEW a \in BOOLEAN, NEW b \in BOOLEAN,
         RecordEvidence(p, r, c, a, b)
  PROVE  Enters(p, calm)
<1> DEFINE m == mem[p]
           x == m.unit[r]
           required == RequiresEvidence[StageOf(r)]
           all == required \subseteq x.accepted \cup {c}
           e == [type |-> "evidence.recorded", unit |-> r, evidence |-> c,
                 accepted |-> a, matches |-> b]
           n == ApplyEvent(m, e)
<1>1. todo'[p] = <<e>> \o (IF ~a THEN FailForGood(r)
                           ELSE IF all THEN CompleteUnit(r) ELSE <<>>)
  BY CallTodo DEF RecordEvidence
<1>2. /\ Busy(m) /\ x.status = "awaiting-evidence"
      /\ c \in required \ x.recorded /\ (a /\ c \in Schematic => b)
  BY RunningMachine DEF RecordEvidence, InStatus
<1>b. PICK u : Receives(m, r, c, a, b, u)
  BY <1>2, ReceiptTakes
<1>3. /\ Takes(m, e, r, u) /\ u.status = "awaiting-evidence"
      /\ u.recorded = x.recorded \cup {c}
      /\ u.accepted = IF a THEN x.accepted \cup {c} ELSE x.accepted
  BY <1>b DEF Receives
<1>4. /\ e \in CallTasks /\ FailForGood(r) \in Seq(CallTasks)
      /\ CompleteUnit(r) \in Seq(CallTasks) /\ <<>> \in Seq(CallTasks)
  BY UnitTasksTyped, CallPartsTyped, CallSequences
<1> HIDE DEF e
<1>5. Busy(n) /\ n.unit[r] = u /\ Sets(m, n, r, u)
  BY <1>2, <1>3 DEF Takes, Sets, Busy
<1>6. CASE ~a
  <2>1. EndsIn2(n, FailForGood(r), calm)
    BY <1>3, <1>5, FailForGoodEnds
  <2> QED
    BY <1>1, <1>3, <1>4, <1>6, <2>1, TakesFirst DEF Enters
<1>7. CASE a /\ all
  <2>1. EndsIn1(n, CompleteUnit(r), calm)
    BY <1>2, <1>3, <1>5, <1>7, CompleteUnitEnds DEF Busy
  <2> QED
    BY <1>1, <1>3, <1>4, <1>7, <2>1, TakesFirst DEF Enters
<1>8. CASE a /\ ~all
  <2>1. ASSUME calm PROVE QuietUnit(r, u)
    <3>1. QuietUnit(r, x)
      BY <1>2, <2>1 DEF CallMade, Settled, QuietUnits, Busy
    <3> QED
      BY <1>2, <1>3, <1>8, <3>1 DEF QuietUnit
  <2>2. Ends(n, <<>>, calm)
    BY <1>2, <1>3, <1>5, <2>1, EndsWaiting DEF Satisfied, Busy
  <2>3. EndsIn3(m, <<e>> \o <<>>, calm)
    BY <1>3, <1>4, <2>2, TakesFirst
  <2>4. todo'[p] = <<e>> \o <<>>
    BY <1>1, <1>8
  <2> QED
    BY <2>3, <2>4 DEF Enters
<1> QED
  BY <1>6, <1>7, <1>8

\* skip_unit: the unit is skipped, and what it unlocks is looked for.
LEMMA SkipUnitEnters ==
  ASSUME IInv, NEW p \in Procs, NEW calm, CallMade(mem[p], calm), NEW r \in UnitRefs,
         SkipUnit(p, r)
  PROVE  Enters(p, calm)
<1> DEFINE m == mem[p]
           e == [type |-> "unit.skipped", unit |-> r, reason |-> "given"]
           u == [m.unit[r] EXCEPT !.status = "skipped"]
<1>1. todo'[p] = <<e>> \o UnlockOrFinish
  BY CallTodo DEF SkipUnit
<1>2. /\ Busy(m) /\ m.unit[r] \in UnitState /\ m.unit[r].status = "ready"
      /\ StageOf(r) \in Conditional
  BY RunningMachine DEF SkipUnit, InStatus
<1>3. Takes(m, e, r, u)
  BY <1>2, SkippedTakes
<1>4. u.status \in Satisfied
  BY <1>2 DEF UnitState, Satisfied
<1>5. e \in CallTasks /\ UnlockOrFinish \in Seq(CallTasks)
  BY UnitTasksTyped, CallPartsTyped DEF Reasons
<1> HIDE DEF e, u
<1>6. Ends(ApplyEvent(m, e), UnlockOrFinish, calm)
  BY <1>2, <1>3, <1>4, EndsUnlocking DEF Takes, Busy
<1> QED
  BY <1>1, <1>3, <1>5, <1>6, TakesFirst DEF Enters

\* fail_unit: the unit fails for good, or is sent off again.
LEMMA FailUnitEnters ==
  ASSUME IInv, NEW p \in Procs, NEW calm, CallMade(mem[p], calm), NEW r \in UnitRefs,
         NEW retry \in BOOLEAN, FailUnit(p, r, retry)
  PROVE  Enters(p, calm)
<1> DEFINE m == mem[p]
           again == retry /\ AttemptLeft(m, r)
           f == [type |-> "unit.failed", unit |-> r, reason |-> "given"]
           d == DispatchTask(r, TRUE)
           u == [m.unit[r] EXCEPT !.status = "failed"]
           n == ApplyEvent(m, f)
<1>1. todo'[p] = IF again THEN <<f, d>> ELSE FailForGood(r)
  BY CallTodo DEF FailUnit
<1>2. /\ Busy(m) /\ m.unit[r] \in UnitState
      /\ m.unit[r].status \in {"running", "claimed", "awaiting-evidence"}
  BY RunningMachine DEF FailUnit, InStatus
<1>3. CASE again
  <2>1. Takes(m, f, r, u)
    BY <1>2, FailedTakes
  <2>2. u.status = "failed" /\ u.attempts = m.unit[r].attempts
    BY <1>2 DEF UnitState
  <2>3. f \in CallTasks /\ d \in CallTasks
    BY UnitTasksTyped DEF Reasons
  <2> HIDE DEF f, u, d
  <2>4. Busy(n) /\ n.unit[r] = u /\ AttemptLeft(n, r)
    BY <1>2, <1>3, <2>1, <2>2 DEF Takes, Sets, Busy, AttemptLeft
  <2>5. PICK v : Takes(n, d, r, v) /\ v.status \in {"awaiting-authorization", "ready"}
    BY <2>2, <2>4, DispatchTakes DEF d
  <2> HIDE DEF n
  <2>6. Sets(m, ApplyEvent(n, d), r, v)
    BY <2>1, <2>5, SetsTransitive DEF Takes, n
  <2>7. Ends(ApplyEvent(n, d), <<>>, calm)
    BY <1>2, <2>5, <2>6, EndsWaiting DEF QuietUnit, Satisfied, Busy
  <2>8. /\ <<d>> = <<d>> \o <<>> /\ <<f, d>> = <<f>> \o <<d>>
        /\ <<>> \in Seq(CallTasks) /\ <<d>> \in Seq(CallTasks)
    BY <2>3, Joined, CallSequences
  <2>9. EndsIn1(n, <<d>>, calm)
    BY <2>3, <2>5, <2>7, <2>8, TakesFirst
  <2> QED
    BY <1>1, <1>3, <2>1, <2>3, <2>8, <2>9, TakesFirst DEF Enters, n
<1>4. CASE ~again
  <2>1. EndsIn2(m, FailForGood(r), calm)
    BY <1>2, FailForGoodEnds
  <2> QED
    BY <1>1, <1>4, <2>1, EndsCumulate DEF Enters
<1> QED
  BY <1>3, <1>4

\* Every call.
LEMMA CallsEnter ==
  ASSUME IInv, "blank" \notin DenialReasons,
         NEW p \in Procs, NEW calm, CallMade(mem[p], calm), Work(p) \/ Cancel(p)
  PROVE  Enters(p, calm)
<1>1. CASE Start(p)
  <2>1. todo'[p] = <<[type |-> "execution.started"], Materialize>>
    BY <1>1, CallTodo DEF Start
  <2> QED
    BY <1>1, <2>1, StartEnds DEF Start, Enters
<1>2. CASE Cancel(p)
  <2>1. todo'[p] = <<[type |-> "execution.cancelled"]>>
    BY <1>2, CallTodo DEF Cancel
  <2> QED
    BY <1>2, <2>1, CancelEnds DEF Cancel, Enters
<1>3. CASE \E s \in Stages : SealStage(p, s)
  BY <1>3, SealStageEnters
<1>4. ASSUME NEW r \in UnitRefs,
             \/ RegisterUnit(p, r) \/ Approve(p, r) \/ StartUnit(p, r)
             \/ ClaimUnit(p, r) \/ SkipUnit(p, r)
      PROVE  Enters(p, calm)
  BY <1>4, RegisterUnitEnters, ApproveEnters, StartUnitEnters, ClaimUnitEnters, SkipUnitEnters
<1>5. ASSUME NEW r \in UnitRefs, NEW reason \in DenialReasons, Deny(p, r, reason)
      PROVE  Enters(p, calm)
  BY <1>5, DenyEnters
<1>6. ASSUME NEW r \in UnitRefs, NEW c \in Evidence, NEW a \in BOOLEAN, NEW b \in BOOLEAN,
             RecordEvidence(p, r, c, a, b)
      PROVE  Enters(p, calm)
  BY <1>6, RecordEvidenceEnters
<1>7. ASSUME NEW r \in UnitRefs, NEW retry \in BOOLEAN, FailUnit(p, r, retry)
      PROVE  Enters(p, calm)
  BY <1>7, FailUnitEnters
<1> QED
  BY <1>1, <1>2, <1>3, <1>4, <1>5, <1>6, <1>7 DEF Work

(***************************************************************************)
(* Every step of a call brings it on.                                      *)
(***************************************************************************)
\* A running call at a scan.
LEMMA AtAScan ==
  ASSUME NEW m, NEW rest, NEW calm, Ends(m, rest, calm), rest # <<>>
  PROVE  /\ m.status = "running"
         /\ Head(rest) = Materialize =>
              \/ /\ rest = <<Materialize>> /\ Tail(rest) = <<>>
                 /\ calm => QuietUnits(m) /\ Whole(m) /\ Unworked(m)
              \/ /\ rest = <<Materialize, Finish>> /\ Tail(rest) = <<Finish>>
                 /\ calm => QuietUnits(m) /\ Whole(m)
         /\ Head(rest).type = "materialize" => Head(rest) = Materialize
         /\ Head(rest).type = "finish" => (calm => QuietUnits(m) /\ Unlocked(m))
<1>0. Materialize.type = "materialize" /\ Finish.type = "finish"
  BY DEF Materialize, Finish
<1>1. CASE /\ m.status = "running" /\ rest = <<Materialize>>
           /\ calm => QuietUnits(m) /\ Whole(m) /\ Unworked(m)
  <2>1. Head(rest) = Materialize /\ Tail(rest) = <<>>
    BY <1>1
  <2> QED
    BY <1>0, <1>1, <2>1
<1>2. CASE /\ m.status = "running" /\ rest = <<Materialize, Finish>>
           /\ calm => QuietUnits(m) /\ Whole(m)
  <2>1. Head(rest) = Materialize /\ Tail(rest) = <<Finish>>
    BY <1>2
  <2> QED
    BY <1>0, <1>2, <2>1
<1>3. CASE /\ m.status = "running" /\ rest = <<Finish>>
           /\ calm => QuietUnits(m) /\ Unlocked(m)
  <2>1. Head(rest) = Finish
    BY <1>3
  <2> QED
    BY <1>0, <1>3, <2>1
<1> QED
  BY <1>1, <1>2, <1>3 DEF Ends

\* A singleton that is added, dispatched and sealed leaves the machine at the
\* same point.
LEMMA MaterializeStageEnds ==
  ASSUME NEW m, KernelInv(m), m.created, NEW rest \in Seq(CallTasks), NEW calm,
         Ends(m, rest, calm), rest # <<>>, Head(rest).type = "materialize",
         NEW s \in Stages, Materializable(m, s)
  PROVE  LET r == <<s, DefaultKey>> IN
         EndsIn3(m, <<[type |-> "unit.registered", unit |-> r], DispatchTask(r, FALSE),
                      [type |-> "stage.sealed", stage |-> s]>> \o rest, calm)
<1> DEFINE r == <<s, DefaultKey>>
           e == [type |-> "unit.registered", unit |-> r]
           d == DispatchTask(r, FALSE)
           x == [type |-> "stage.sealed", stage |-> s]
           m1 == ApplyEvent(m, e)
           m2 == ApplyEvent(m1, d)
           m3 == [m2 EXCEPT !.sealed = m2.sealed \cup {s}]
<1>1. m.status = "running" /\ Head(rest) = Materialize
  BY AtAScan
<1>2. Busy(m)
  BY <1>1 DEF KernelInv, Busy
<1>3. r \in UnitRefs /\ StageOf(r) = s /\ r \in RefsOf(s)
  BY RefsOfStage
<1>4. \A q \in RefsOf(s) : m.unit[q].status = "absent"
  BY DEF Materializable, GroupUnits
<1>5. s \notin m.sealed
  BY DEF Materializable, KernelInv, SealedOf
<1>6. e \in CallTasks /\ d \in CallTasks /\ x \in CallTasks
  BY <1>3, UnitTasksTyped, TasksTyped
<1> HIDE DEF r
<1>7. MayRegister(m, r)
  BY <1>3, <1>4, <1>5 DEF MayRegister, Materializable, r
<1>8. Takes(m, e, r, FreshUnit("pending"))
  BY <1>2, <1>3, <1>7, RegisteredTakes
<1>9. FreshUnit("pending").status = "pending"
  BY DEF FreshUnit
<1> HIDE DEF e, d, x
<1>10. Busy(m1) /\ m1.unit[r].status = "pending"
  BY <1>2, <1>8, <1>9 DEF Takes, Sets, Busy
<1>11. PICK u : Takes(m1, d, r, u) /\ u.status \in {"awaiting-authorization", "ready"}
  BY <1>3, <1>10, DispatchTakes DEF d
<1>12. Sets(m, m2, r, u)
  BY <1>8, <1>11, SetsTransitive DEF Takes
<1>13. KernelInv(m2)
  BY <1>8, <1>11, KernelInvStep DEF Takes
<1> HIDE DEF m1, m2
<1>14. Busy(m2) /\ m2.unit[r] = u
  BY <1>2, <1>12 DEF Sets, Busy
<1>15. GroupUnits(m2, s) = {r}
  BY <1>3, <1>4, <1>11, <1>12, RefsOfStage DEF GroupUnits, Sets
<1>16. DependenciesSatisfied(m2, s)
  BY <1>13, <1>15 DEF KernelInv, BarrierOf
<1>17. MaySeal(m2, s)
  BY <1>5, <1>12, <1>15, <1>16 DEF MaySeal, Sets, r
<1>18. x \in Events /\ ValidateEvent(m2, x) /\ ApplyEvent(m2, x) = m3
  BY <1>14, <1>17, ExecutionTakes DEF x, Busy
<1>19. ASSUME calm
       PROVE  /\ QuietUnits(m3) /\ Whole(m3)
              /\ Unworked(m) => Unworked(m3)
  <2>1. QuietUnits(m) /\ Whole(m)
    BY <1>1, <1>19, AtAScan
  <2>2. QuietUnits(m2)
    BY <1>11, <1>12, <2>1 DEF QuietUnits, QuietUnit, Sets
  <2>3. \A t \in Singletons : GroupUnits(m2, t) # {} => t \in m2.sealed \cup {s}
    BY <1>3, <1>12, <2>1, RefsOfStage DEF Whole, Singletons, GroupUnits, Sets
  <2>4. Unworked(m) => Unworked(m2)
    BY <1>11, <1>12 DEF Unworked, Satisfied, Sets
  <2> QED
    BY <1>14, <2>2, <2>3, <2>4, SealingKeepsWhole DEF Busy
<1>20. m3.status = "running"
  BY <1>14 DEF Busy, Machine
<1> HIDE DEF m3
<1>21. Ends(m3, rest, calm)
  <2>1. CASE /\ rest = <<Materialize>>
             /\ calm => QuietUnits(m) /\ Whole(m) /\ Unworked(m)
    BY <1>19, <1>20, <2>1 DEF Ends
  <2>2. CASE rest = <<Materialize, Finish>>
    BY <1>19, <1>20, <2>2 DEF Ends
  <2> QED
    BY <1>1, <2>1, <2>2, AtAScan
<1>22. EndsIn1(m2, <<x>> \o rest, calm)
  <2> DEFINE sealing == <<x>> \o rest
  <2>1. sealing # <<>> /\ Head(sealing) = x /\ Tail(sealing) = rest
    BY <1>6, Unfold
  <2> HIDE DEF sealing
  <2>2. EndsIn1(m2, sealing, calm)
    BY <1>18, <1>21, <2>1 DEF EndsIn1, NextAccepted
  <2> QED
    BY <2>2 DEF sealing
<1>23. <<x>> \o rest \in Seq(CallTasks) /\ <<d>> \o (<<x>> \o rest) \in Seq(CallTasks)
  BY <1>6, CallSequences
<1>24. EndsIn2(m1, <<d>> \o (<<x>> \o rest), calm)
  BY <1>6, <1>11, <1>22, <1>23, TakesFirst DEF m2
<1> DEFINE all == <<e, d, x>> \o rest
<1>25. all # <<>> /\ Head(all) = e /\ Tail(all) = <<d>> \o (<<x>> \o rest)
  BY <1>6, Unfold
<1> HIDE DEF all
<1>26. EndsIn3(m, all, calm)
  BY <1>8, <1>24, <1>25 DEF EndsIn3, NextAccepted, Takes, m1
<1> QED
  BY <1>26 DEF all, e, d, x, r

\* The scan ends when nothing more can be added.
LEMMA MaterializedAllEnds ==
  ASSUME NEW m, KernelInv(m), NEW rest, NEW calm, calm => Stages # {},
         Ends(m, rest, calm), rest # <<>>, Head(rest).type = "materialize",
         \A s \in Stages : ~Materializable(m, s)
  PROVE  Ends(m, Tail(rest), calm)
<1>1. m.status = "running" /\ Head(rest) = Materialize
  BY AtAScan
<1>2. ASSUME calm PROVE Unlocked(m)
  <2>1. Whole(m)
    BY <1>1, <1>2, AtAScan
  <2> QED
    BY <2>1 DEF Unlocked, Whole, Singletons, Materializable
<1>3. ASSUME calm, Unworked(m) PROVE ~AllWorkSatisfied(m)
  <2> SUFFICES ASSUME AllWorkSatisfied(m) PROVE FALSE
    OBVIOUS
  <2>1. PICK s \in Stages : TRUE
    BY <1>3
  <2>2. PICK r \in GroupUnits(m, s) : m.unit[r].status \in Satisfied
    BY <2>1 DEF AllWorkSatisfied, GroupSatisfied
  <2>3. r \in UnitRefs
    BY <2>1, <2>2, RefsOfStage DEF GroupUnits
  <2> QED
    BY <1>3, <2>2, <2>3 DEF Unworked
<1>4. CASE /\ rest = <<Materialize>> /\ Tail(rest) = <<>>
           /\ calm => QuietUnits(m) /\ Whole(m) /\ Unworked(m)
  BY <1>2, <1>3, <1>4 DEF Ends, Settled
<1>5. CASE /\ rest = <<Materialize, Finish>> /\ Tail(rest) = <<Finish>>
           /\ calm => QuietUnits(m) /\ Whole(m)
  BY <1>1, <1>2, <1>5 DEF Ends
<1> QED
  BY <1>1, <1>4, <1>5, AtAScan

\* The last look either ends the execution or finds work left to wait for.
LEMMA FinishCallEnds ==
  ASSUME NEW m, KernelInv(m), m.created, NEW rest, NEW calm,
         Ends(m, rest, calm), rest # <<>>, Head(rest).type = "finish"
  PROVE  EndsIn1(m, IF AllWorkSatisfied(m)
                    THEN <<[type |-> "execution.succeeded"]>> ELSE <<>>, calm)
<1>1. m.status = "running" /\ (calm => QuietUnits(m) /\ Unlocked(m))
  BY AtAScan
<1>2. CASE AllWorkSatisfied(m)
  <2> DEFINE e == [type |-> "execution.succeeded"]
  <2>1. e \in Events /\ ValidateEvent(m, e) /\ ApplyEvent(m, e).status # "running"
    BY <1>1, <1>2, ExecutionTakes DEF KernelInv
  <2> HIDE DEF e
  <2>2. <<e>> # <<>> /\ Head(<<e>>) = e /\ Tail(<<e>>) = <<>>
    OBVIOUS
  <2>3. EndsIn1(m, <<e>>, calm)
    BY <2>1, <2>2 DEF EndsIn1, NextAccepted, Ends
  <2> QED
    BY <1>2, <2>3 DEF e
<1>3. CASE ~AllWorkSatisfied(m)
  BY <1>1, <1>3 DEF EndsIn1, Ends, Settled
<1> QED
  BY <1>2, <1>3

\* The call of one process goes on, and nobody else's machine changes.
CallEndsNext(p) ==
  /\ EndsIn3(mem'[p], todo'[p], Calm')
  /\ \A q \in Procs : q # p => mem'[q] = mem[q] /\ todo'[q] = todo[q]

\* One task of a call, done or refused or interrupted.
LEMMA CallStepEnds ==
  ASSUME IInv, CallsEnd, NEW p \in Procs, CallStep(p) \/ AppendFails(p)
  PROVE  CallEndsNext(p) /\ live' = live /\ p \in live
<1>0. /\ mem \in [Procs -> Machine] /\ todo \in [Procs -> Seq(CallTasks)]
      /\ EndsIn3(mem[p], todo[p], Calm) /\ Typed /\ Held
  BY DEF IInv, Typed, CallsEnd
<1>1. todo[p] # <<>>
  BY DEF CallStep, Emit, Refuse, AppendFails, Emitting, MaterializeStage, MaterializedAll,
    FinishCall, Active
<1>2. p \in live /\ mem[p].created /\ KernelInv(mem[p])
  BY <1>0, <1>1 DEF Held, IInv, MachinesOK
<1>3. CASE Emit(p)
  <2> DEFINE e == Head(todo[p])
  <2>1. /\ IsEvent(e) /\ mem' = [mem EXCEPT ![p] = ApplyEvent(mem[p], e)]
        /\ todo' = [todo EXCEPT ![p] = Tail(todo[p])]
        /\ live' = live /\ interrupted' = interrupted
    BY <1>3 DEF Emit, Emitting
  <2>2. EndsIn3(ApplyEvent(mem[p], e), Tail(todo[p]), Calm)
    BY <1>0, <1>1, <2>1, GoesOn
  <2> HIDE DEF e
  <2>3. mem'[p] = ApplyEvent(mem[p], e) /\ todo'[p] = Tail(todo[p]) /\ Calm' = Calm
    BY <1>0, <2>1 DEF Calm
  <2> QED
    BY <1>0, <1>2, <2>1, <2>2, <2>3 DEF CallEndsNext
<1>4. CASE Refuse(p) \/ AppendFails(p)
  <2>1. /\ todo' = [todo EXCEPT ![p] = <<>>] /\ interrupted' = TRUE
        /\ live' = live /\ mem' = mem
    BY <1>4 DEF Refuse, AppendFails, Abandon
  <2>2. todo'[p] = <<>> /\ ~Calm'
    BY <1>0, <2>1 DEF Calm
  <2>3. EndsIn3(mem'[p], todo'[p], Calm')
    BY <2>2 DEF EndsIn3, Ends
  <2> QED
    BY <1>0, <1>2, <2>1, <2>3 DEF CallEndsNext
<1>5. CASE \/ \E s \in Stages : MaterializeStage(p, s)
           \/ MaterializedAll(p) \/ FinishCall(p)
  <2>1. /\ ~IsEvent(Head(todo[p]))
        /\ live' = live /\ mem' = mem /\ interrupted' = interrupted
    BY <1>5 DEF MaterializeStage, MaterializedAll, FinishCall, Active, IsEvent
  <2>2. Ends(mem[p], todo[p], Calm)
    BY <1>0, <2>1, AtAnEnd
  <2>3. EndsIn3(mem[p], todo'[p], Calm) /\ \A q \in Procs : q # p => todo'[q] = todo[q]
    <3>1. ASSUME NEW s \in Stages, MaterializeStage(p, s)
          PROVE  EndsIn3(mem[p], todo'[p], Calm) /\ \A q \in Procs : q # p => todo'[q] = todo[q]
      <4> DEFINE r == <<s, DefaultKey>>
                 all == <<[type |-> "unit.registered", unit |-> r], DispatchTask(r, FALSE),
                          [type |-> "stage.sealed", stage |-> s]>> \o todo[p]
      <4>1. /\ Head(todo[p]).type = "materialize" /\ Materializable(mem[p], s)
            /\ todo' = [todo EXCEPT ![p] = all]
        BY <3>1 DEF MaterializeStage, Active
      <4>2. todo[p] \in Seq(CallTasks)
        BY <1>0
      <4>3. EndsIn3(mem[p], all, Calm)
        BY <1>1, <1>2, <2>2, <4>1, <4>2, MaterializeStageEnds
      <4> HIDE DEF all
      <4> QED
        BY <1>0, <4>1, <4>3
    <3>2. ASSUME MaterializedAll(p)
          PROVE  EndsIn3(mem[p], todo'[p], Calm) /\ \A q \in Procs : q # p => todo'[q] = todo[q]
      <4>1. /\ Head(todo[p]).type = "materialize"
            /\ \A s \in Stages : ~Materializable(mem[p], s)
            /\ todo' = [todo EXCEPT ![p] = Tail(todo[p])]
        BY <3>2 DEF MaterializedAll, Active
      <4>2. Ends(mem[p], Tail(todo[p]), Calm)
        BY <1>1, <1>2, <2>2, <4>1, MaterializedAllEnds DEF Calm
      <4> QED
        BY <1>0, <4>1, <4>2, EndsCumulate
    <3>3. ASSUME FinishCall(p)
          PROVE  EndsIn3(mem[p], todo'[p], Calm) /\ \A q \in Procs : q # p => todo'[q] = todo[q]
      <4> DEFINE last == IF AllWorkSatisfied(mem[p])
                         THEN <<[type |-> "execution.succeeded"]>> ELSE <<>>
      <4>1. Head(todo[p]).type = "finish" /\ todo' = [todo EXCEPT ![p] = last]
        BY <3>3 DEF FinishCall, Active
      <4>2. EndsIn1(mem[p], last, Calm)
        BY <1>1, <1>2, <2>2, <4>1, FinishCallEnds
      <4> HIDE DEF last
      <4> QED
        BY <1>0, <4>1, <4>2, EndsCumulate
    <3> QED
      BY <1>5, <3>1, <3>2, <3>3
  <2> QED
    BY <1>2, <2>1, <2>3 DEF CallEndsNext, Calm
<1> QED
  BY <1>3, <1>4, <1>5 DEF CallStep

\* A call is made.
LEMMA CallMadeEnds ==
  ASSUME IInv, CallsEnd, "blank" \notin DenialReasons, NEW p \in Procs, Work(p) \/ Cancel(p)
  PROVE  CallEndsNext(p) /\ live' = live /\ p \in live
<1>1. PICK tasks \in Seq(CallTasks) : Call(p, tasks)
  BY CallsQueue DEF Queues
<1>2. p \in live /\ todo[p] = <<>>
  BY <1>1 DEF Call, Ready
<1>3. Ends(mem[p], <<>>, Calm)
  BY <1>2, AtAnEnd DEF CallsEnd
<1>4. CallMade(mem[p], Calm)
  BY <1>2, <1>3 DEF Ends, CallMade, IInv, MachinesOK, Held
<1>5. EndsIn3(mem[p], todo'[p], Calm)
  BY <1>4, CallsEnter DEF Enters
<1>6. /\ todo' = [todo EXCEPT ![p] = tasks] /\ live' = live /\ mem' = mem
      /\ interrupted' = interrupted /\ todo \in [Procs -> Seq(CallTasks)]
  BY <1>1 DEF Call, IInv, Typed
<1> QED
  BY <1>2, <1>5, <1>6 DEF CallEndsNext, Calm

\* A machine is created or replayed.
LEMMA OpensEnds ==
  ASSUME IInv, CallsEnd, NEW p \in Procs, Create(p) \/ Replay(p)
  PROVE  CallsEnd'
<1>1. Opens(p)
  BY CreateOpens, ReplayOpens
<1>2. /\ mem \in [Procs -> Machine] /\ mem' = [mem EXCEPT ![p] = view']
      /\ live' = live \cup {p} /\ todo' = todo /\ interrupted' = interrupted
      /\ p \notin live /\ todo[p] = <<>> /\ (Exclusive => live = {})
  BY <1>1 DEF IInv, Typed, Held, Opens, MayOpen, Open
<1>3. Calm /\ view'.status = "running" => Settled(view')
  <2>1. CASE Create(p)
    <3>1. view' = ApplyEvent(NewMachine, CreatedEvent)
      BY <2>1, CreateOpens DEF Create, CreatedEvent
    <3>2. view'.status = "created"
      BY <3>1 DEF ApplyEvent, CreatedEvent, NewMachine
    <3> QED
      BY <3>2
  <2>2. CASE Replay(p)
    BY <1>2, <2>2 DEF Replay, CallsEnd, Calm
  <2> QED
    BY <2>1, <2>2
<1>4. EndsIn3(view', <<>>, Calm)
  BY <1>3 DEF EndsIn3, Ends
<1> QED
  BY <1>2, <1>4 DEF CallsEnd, Calm

\* A machine is dropped, in a call or between two.
LEMMA ClosesEnds ==
  ASSUME IInv, CallsEnd, NEW p \in Procs, Exit(p) \/ Crash(p)
  PROVE  CallsEnd'
<1>1. /\ mem \in [Procs -> Machine] /\ mem' = [mem EXCEPT ![p] = NewMachine]
      /\ todo \in [Procs -> Seq(CallTasks)] /\ todo' = [todo EXCEPT ![p] = <<>>]
      /\ live' = live \ {p} /\ view' = view /\ p \in live
  <2>1. Closes(p)
    BY RunningCall DEF IInv, Typed, Exit, Crash, Closes
  <2> QED
    BY <2>1 DEF IInv, Typed, Closes, Close
<1>2. Calm' => Calm /\ todo[p] = <<>>
  BY DEF Exit, Crash, Calm
<1>3. EndsIn3(NewMachine, <<>>, Calm')
  BY DEF EndsIn3, Ends, NewMachine
<1>4. \A q \in Procs : EndsIn3(mem'[q], todo'[q], Calm')
  <2> SUFFICES ASSUME NEW q \in Procs PROVE EndsIn3(mem'[q], todo'[q], Calm')
    OBVIOUS
  <2>1. CASE q = p
    BY <1>1, <1>3, <2>1
  <2>2. CASE q # p
    <3>1. EndsIn3(mem[q], todo[q], Calm)
      BY DEF CallsEnd
    <3>2. EndsIn3(mem[q], todo[q], Calm')
      BY <1>2, <3>1, EndsMonotone
    <3> QED
      BY <1>1, <2>2, <3>2
  <2> QED
    BY <2>1, <2>2
<1>5. ASSUME Calm', view.status = "running" PROVE Settled(view)
  <2>1. Ends(mem[p], <<>>, Calm)
    BY <1>2, <1>5, AtAnEnd DEF CallsEnd
  <2>2. mem[p] = view
    BY <1>1, <1>2, <1>5 DEF IInv, OneMachine, Calm
  <2> QED
    BY <1>2, <1>5, <2>1, <2>2 DEF Ends
<1> QED
  BY <1>1, <1>4, <1>5 DEF CallsEnd

\* Nothing is forgiven: an interruption stays on record.
LEMMA CallMonotone ==
  ASSUME IInv, NEW p \in Procs, Work(p) \/ Cancel(p) \/ CallStep(p) \/ AppendFails(p)
  PROVE  interrupted => interrupted'
<1>1. CASE Work(p) \/ Cancel(p)
  <2>1. \E tasks \in Seq(CallTasks) : Call(p, tasks)
    BY <1>1, CallsQueue DEF Queues
  <2> QED
    BY <2>1 DEF Call
<1>2. CASE CallStep(p) \/ AppendFails(p)
  BY <1>2 DEF CallStep, Emit, Refuse, AppendFails, Abandon, MaterializeStage,
    MaterializedAll, FinishCall
<1> QED
  BY <1>1, <1>2

\* Every step keeps every call on its way.
LEMMA NextKeepsCallsEnd ==
  ASSUME IInv, CallsEnd, "blank" \notin DenialReasons, [Next]_vars
  PROVE  CallsEnd'
<1>1. CASE UNCHANGED vars
  BY <1>1 DEF vars, CallsEnd, Calm
<1>2. CASE Next
  <2>1. PICK p \in Procs :
          \/ Create(p) \/ Replay(p) \/ Exit(p) \/ Crash(p)
          \/ Work(p) \/ Cancel(p) \/ CallStep(p) \/ AppendFails(p)
    BY <1>2 DEF Next
  <2>2. CASE Work(p) \/ Cancel(p) \/ CallStep(p) \/ AppendFails(p)
    <3>1. CallEndsNext(p) /\ live' = live /\ p \in live
      BY <2>2, CallMadeEnds, CallStepEnds
    <3>2. interrupted \in BOOLEAN /\ (Calm' => Calm)
      BY <2>2, CallMonotone DEF IInv, Typed, Calm
    <3>3. \A q \in Procs : EndsIn3(mem'[q], todo'[q], Calm')
      <4> SUFFICES ASSUME NEW q \in Procs, q # p PROVE EndsIn3(mem'[q], todo'[q], Calm')
        BY <3>1 DEF CallEndsNext
      <4>1. EndsIn3(mem[q], todo[q], Calm')
        BY <3>2, EndsMonotone DEF CallsEnd
      <4> QED
        BY <3>1, <4>1 DEF CallEndsNext
    <3> QED
      BY <3>1, <3>3 DEF CallsEnd
  <2> QED
    BY <2>1, <2>2, OpensEnds, ClosesEnds
<1> QED
  BY <1>1, <1>2

(***************************************************************************)
(* The theorems on the calls.                                              *)
(***************************************************************************)
\* Every call of every machine, at every step, is at a point from which it
\* runs to its end.
THEOREM CallsInductive == "blank" \notin DenialReasons => (Spec => [](IInv /\ CallsEnd))
<1> SUFFICES ASSUME "blank" \notin DenialReasons PROVE Spec => [](IInv /\ CallsEnd)
  OBVIOUS
<1>1. Init => CallsEnd
  <2> SUFFICES ASSUME Init PROVE CallsEnd
    OBVIOUS
  <2>1. EndsIn3(NewMachine, <<>>, Calm)
    BY DEF EndsIn3, Ends, NewMachine
  <2>2. NewMachine.status # "running"
    BY DEF NewMachine
  <2> QED
    BY <2>1, <2>2 DEF Init, CallsEnd
<1>2. IInv /\ CallsEnd /\ [Next]_vars => CallsEnd'
  BY NextKeepsCallsEnd
<1> QED
  BY <1>1, <1>2, MachineInductive, PTL DEF Spec

\* The checks of the API methods (start, register_unit, seal_stage, approve,
\* deny, start_unit, claim, record_evidence, skip_unit, fail_unit, cancel) and
\* of _materialize_singletons are no weaker than _validate_event: whatever the
\* plan, the other processes and the failures, a call is never refused
\* half-way, unless a denial has a blank reason.
THEOREM CallsAreNotRefused == "blank" \notin DenialReasons => (Spec => []NoCallIsRefused)
<1> SUFFICES ASSUME "blank" \notin DenialReasons PROVE Spec => []NoCallIsRefused
  OBVIOUS
<1>1. CallsEnd => NoCallIsRefused
  BY GoesOn DEF CallsEnd, NoCallIsRefused, Emitting
<1> QED
  BY <1>1, CallsInductive, PTL

\* One machine at a time and no interruption: every call leaves the machine
\* with nothing for the kernel to do, and so does every replay.
THEOREM CallsSettle ==
  Exclusive /\ Stages # {} /\ "blank" \notin DenialReasons =>
    (Spec => []SettledBetweenCalls)
<1> SUFFICES ASSUME Exclusive, Stages # {}, "blank" \notin DenialReasons
             PROVE  Spec => []SettledBetweenCalls
  OBVIOUS
<1>1. IInv /\ CallsEnd => SettledBetweenCalls
  <2> SUFFICES ASSUME IInv, CallsEnd, NEW p \in live, ~interrupted, todo[p] = <<>>, Running(p)
               PROVE  /\ \A r \in UnitRefs : QuietUnit(r, mem[p].unit[r])
                      /\ \A s \in Stages : FanoutMode[s] = "singleton" =>
                           (s \in mem[p].sealed <=> DependenciesSatisfied(mem[p], s))
                      /\ ~AllWorkSatisfied(mem[p])
    BY DEF SettledBetweenCalls, QuietUnit, GatesAccepted
  <2>0. p \in Procs /\ KernelInv(mem[p])
    BY DEF IInv, Typed, MachinesOK
  <2>1. Ends(mem[p], <<>>, Calm)
    BY <2>0, AtAnEnd DEF CallsEnd
  <2>2. Settled(mem[p])
    BY <2>1 DEF Ends, Calm, Running
  <2>3. \A s \in Stages : s \in mem[p].sealed => DependenciesSatisfied(mem[p], s)
    BY <2>0 DEF KernelInv, SealedOf, BarrierOf
  <2> QED
    BY <2>2, <2>3 DEF Settled, QuietUnits, Unlocked, Singletons
<1> QED
  BY <1>1, CallsInductive, PTL

\* In a settled machine the first stage that is not sealed can be expanded, or
\* some unit waits for the adapter.
LEMMA SettledHasWork ==
  ASSUME IInv, CompiledPlan, NEW p \in Procs, Running(p), Settled(mem[p])
  PROVE  WorkAccepted(p)
<1> DEFINE m == mem[p]
           open == {"awaiting-authorization", "ready", "running", "claimed", "awaiting-evidence"}
<1>0. KernelInv(m) /\ m \in Machine /\ m.status = "running"
  BY DEF IInv, MachinesOK, KernelInv, Running
<1> SUFFICES ASSUME \A r \in UnitRefs : m.unit[r].status \notin open
             PROVE  \E s \in Stages : CanExpand(p, s)
  BY DEF WorkAccepted
<1>1. ASSUME NEW r \in UnitRefs, m.unit[r].status # "absent"
      PROVE  m.unit[r].status \in Satisfied
  <2>1. m.unit[r].status \in UnitStatus
    BY <1>0 DEF Machine, UnitState
  <2>2. m.unit[r].status # "cancelled"
    BY <1>0 DEF KernelInv, OutcomeOf
  <2>3. m.unit[r].status \notin {"pending", "claimed", "failed"}
    BY DEF Settled, QuietUnits, QuietUnit
  <2> QED
    BY <1>1, <2>1, <2>2, <2>3 DEF UnitStatus, Satisfied
<1>2. \A s \in m.sealed : GroupSatisfied(m, s) /\ GroupUnits(m, s) # {} /\ s \in Stages
  BY <1>0, <1>1, RefsOfStage DEF GroupSatisfied, GroupUnits, KernelInv, SealedOf, Machine
<1>3. Stages \ m.sealed # {}
  <2>1. PICK s \in Stages : ~(GroupUnits(m, s) # {} /\ GroupSatisfied(m, s))
    BY DEF Settled, AllWorkSatisfied
  <2> QED
    BY <1>2, <2>1
<1>4. PICK s \in Stages \ m.sealed : Needs[s] \cap (Stages \ m.sealed) = {}
  BY <1>3 DEF CompiledPlan
<1>5. DependenciesSatisfied(m, s)
  BY <1>2, <1>4, PlanAssumption DEF DependenciesSatisfied
<1>6. FanoutMode[s] = "each"
  BY <1>4, <1>5, PlanAssumption DEF Settled, Unlocked, Singletons
<1> QED
  BY <1>4, <1>5, <1>6 DEF CanExpand

\* One machine at a time and no interruption: whatever the compiled plan is,
\* an execution that has not ended accepts some call that carries it on.
THEOREM CallsLeaveWork ==
  Exclusive /\ CompiledPlan /\ "blank" \notin DenialReasons =>
    (Spec => []NeverStuckBetweenCalls)
<1> SUFFICES ASSUME Exclusive, CompiledPlan, "blank" \notin DenialReasons
             PROVE  Spec => []NeverStuckBetweenCalls
  OBVIOUS
<1>1. IInv /\ CallsEnd => NeverStuckBetweenCalls
  <2> SUFFICES ASSUME IInv, CallsEnd, NEW p \in live, ~interrupted, todo[p] = <<>>, Running(p)
               PROVE  WorkAccepted(p)
    BY DEF NeverStuckBetweenCalls
  <2>0. p \in Procs
    BY DEF IInv, Typed
  <2>1. Ends(mem[p], <<>>, Calm)
    BY <2>0, AtAnEnd DEF CallsEnd
  <2>2. Settled(mem[p])
    BY <2>1 DEF Ends, Calm, Running, CompiledPlan
  <2> QED
    BY <2>0, <2>2, SettledHasWork
<1> QED
  BY <1>1, CallsInductive, PTL

(***************************************************************************)
(* Every call ends: each of its steps brings down the number of steps that *)
(* it may still take.                                                      *)
(***************************************************************************)
Registers(tasks, s) ==
  /\ tasks # <<>>
  /\ Head(tasks).type = "unit.registered"
  /\ StageOf(Head(tasks).unit) = s

\* The stages that the scan for singletons might still give a unit.
Waiting(m, tasks) == {s \in Stages : GroupUnits(m, s) = {} /\ ~Registers(tasks, s)}

Finishes(tasks) == \E i \in DOMAIN tasks : tasks[i].type = "finish"

\* A round of the scan puts three tasks before those that are left; the test at
\* the end puts one event in its own place.
StepsLeft(m, tasks) ==
  IF tasks = <<>> THEN 0
  ELSE 4 * Cardinality(Waiting(m, tasks)) + Len(tasks) + (IF Finishes(tasks) THEN 1 ELSE 0)

\* What any step makes of a call: it leaves it, or brings it nearer to its end.
CallsRunOut ==
  \A p \in Procs : todo[p] # <<>> =>
    \/ mem'[p] = mem[p] /\ todo'[p] = todo[p]
    \/ /\ StepsLeft(mem[p], todo[p]) \in Nat
       /\ StepsLeft(mem'[p], todo'[p]) \in Nat
       /\ StepsLeft(mem'[p], todo'[p]) < StepsLeft(mem[p], todo[p])

\* No stage comes to wait, so the count does not grow; it falls with one that
\* waits no more.
LEMMA FewerWait ==
  ASSUME IsFiniteSet(Stages), NEW m, NEW a, NEW n, NEW b, Waiting(n, b) \subseteq Waiting(m, a)
  PROVE  /\ Cardinality(Waiting(m, a)) \in Nat
         /\ Cardinality(Waiting(n, b)) \in Nat
         /\ Cardinality(Waiting(n, b)) <= Cardinality(Waiting(m, a))
         /\ Waiting(n, b) # Waiting(m, a) =>
              Cardinality(Waiting(n, b)) < Cardinality(Waiting(m, a))
<1>1. IsFiniteSet(Waiting(m, a))
  BY FS_Subset DEF Waiting
<1>2. /\ IsFiniteSet(Waiting(n, b))
      /\ Cardinality(Waiting(n, b)) <= Cardinality(Waiting(m, a))
      /\ Cardinality(Waiting(n, b)) = Cardinality(Waiting(m, a)) =>
           Waiting(n, b) = Waiting(m, a)
  BY <1>1, FS_Subset
<1> QED BY <1>1, <1>2, FS_CardinalityType

\* A call that is over has no steps left, any other has.
LEMMA StepsLeftOf ==
  ASSUME IsFiniteSet(Stages), NEW m, NEW tasks \in Seq(CallTasks)
  PROVE  /\ StepsLeft(m, <<>>) = 0
         /\ StepsLeft(m, tasks) \in Nat
         /\ tasks # <<>> =>
              /\ StepsLeft(m, tasks) > 0
              /\ StepsLeft(m, tasks) = 4 * Cardinality(Waiting(m, tasks)) + Len(tasks)
                                         + (IF Finishes(tasks) THEN 1 ELSE 0)
<1>1. Cardinality(Waiting(m, tasks)) \in Nat
  BY FewerWait
<1>2. Len(tasks) \in Nat /\ (tasks # <<>> => Len(tasks) > 0)
  BY EmptySeq, LenProperties
<1> QED BY <1>1, <1>2 DEF StepsLeft

\* An event is taken off the call.
LEMMA EmitCounts ==
  ASSUME IsFiniteSet(Stages), NEW m, KernelInv(m), NEW tasks \in Seq(CallTasks), tasks # <<>>,
         NEW e \in Events, e = Head(tasks), ValidateEvent(m, e)
  PROVE  StepsLeft(ApplyEvent(m, e), Tail(tasks)) < StepsLeft(m, tasks)
<1> DEFINE n == ApplyEvent(m, e)
           rest == Tail(tasks)
<1>1. \A s \in Stages : GroupUnits(m, s) \subseteq GroupUnits(n, s)
  BY StepCases, SettledStays DEF KernelInv
<1>2. e.type = "unit.registered" => GroupUnits(n, StageOf(e.unit)) # {}
  <2> SUFFICES ASSUME e.type = "unit.registered" PROVE GroupUnits(n, StageOf(e.unit)) # {}
    OBVIOUS
  <2>1. e.unit \in UnitRefs /\ m \in Machine
    BY DEF KernelInv, Events, ExecutionEvents, SealEvents, UnitEvents, PlainUnitEvents,
      ReasonEvents, DispatchEvents, DecisionEvents, ClaimEvents, EvidenceEvents
  <2>2. n = SetUnit(m, e.unit, FreshUnit("pending"))
    BY DEF ApplyEvent
  <2>3. n.unit[e.unit] = FreshUnit("pending") /\ FreshUnit("pending").status = "pending"
    BY <2>1, <2>2, SetUnitEffect DEF FreshUnit
  <2> HIDE DEF n
  <2> QED BY <2>1, <2>3, RefsOfStage DEF GroupUnits
<1> HIDE DEF n
<1>3. Waiting(n, rest) \subseteq Waiting(m, tasks)
  BY <1>1, <1>2 DEF Waiting, Registers
<1>4. /\ rest \in Seq(CallTasks) /\ Len(rest) = Len(tasks) - 1
      /\ \A i \in DOMAIN rest : i + 1 \in DOMAIN tasks /\ rest[i] = tasks[i + 1]
  BY HeadTailProperties, LenProperties, EmptySeq
<1>5. Finishes(rest) => Finishes(tasks)
  BY <1>4 DEF Finishes
<1> HIDE DEF rest
<1>6. Len(rest) \in Nat /\ Len(tasks) \in Nat
  BY <1>4, LenProperties
<1>7. rest # <<>> => StepsLeft(n, rest) = 4 * Cardinality(Waiting(n, rest)) + Len(rest)
                                            + (IF Finishes(rest) THEN 1 ELSE 0)
  BY <1>4, StepsLeftOf
<1>8. StepsLeft(m, tasks) > 0
      /\ StepsLeft(m, tasks) = 4 * Cardinality(Waiting(m, tasks)) + Len(tasks)
                                 + (IF Finishes(tasks) THEN 1 ELSE 0)
  BY StepsLeftOf
<1>9. /\ Cardinality(Waiting(m, tasks)) \in Nat /\ Cardinality(Waiting(n, rest)) \in Nat
      /\ Cardinality(Waiting(n, rest)) <= Cardinality(Waiting(m, tasks))
  BY <1>3, FewerWait
<1>10. StepsLeft(n, <<>>) = 0
  BY StepsLeftOf
<1>11. CASE rest = <<>>
  BY <1>8, <1>10, <1>11 DEF n, rest
<1>12. CASE rest # <<>>
  <2>1. StepsLeft(n, rest) < StepsLeft(m, tasks)
    BY <1>4, <1>5, <1>6, <1>7, <1>8, <1>9, <1>12
  <2> QED BY <2>1 DEF n, rest
<1> QED BY <1>11, <1>12

\* The scan finds nothing more.
LEMMA MaterializedAllCounts ==
  ASSUME IsFiniteSet(Stages), NEW m, NEW tasks \in Seq(CallTasks), tasks # <<>>,
         Head(tasks).type = "materialize"
  PROVE  StepsLeft(m, Tail(tasks)) < StepsLeft(m, tasks)
<1> DEFINE rest == Tail(tasks)
<1>1. /\ rest \in Seq(CallTasks) /\ Len(rest) = Len(tasks) - 1
      /\ \A i \in DOMAIN rest : i + 1 \in DOMAIN tasks /\ rest[i] = tasks[i + 1]
  BY HeadTailProperties, LenProperties, EmptySeq
<1>2. Finishes(rest) => Finishes(tasks)
  BY <1>1 DEF Finishes
<1> HIDE DEF rest
<1>3. Waiting(m, rest) \subseteq Waiting(m, tasks)
  BY DEF Waiting, Registers
<1>4. /\ Cardinality(Waiting(m, tasks)) \in Nat /\ Cardinality(Waiting(m, rest)) \in Nat
      /\ Cardinality(Waiting(m, rest)) <= Cardinality(Waiting(m, tasks))
  BY <1>3, FewerWait
<1>5. Len(rest) \in Nat /\ Len(tasks) \in Nat
  BY <1>1, LenProperties
<1>6. /\ StepsLeft(m, tasks) > 0 /\ StepsLeft(m, <<>>) = 0
      /\ StepsLeft(m, tasks) = 4 * Cardinality(Waiting(m, tasks)) + Len(tasks)
                                 + (IF Finishes(tasks) THEN 1 ELSE 0)
      /\ rest # <<>> => StepsLeft(m, rest) = 4 * Cardinality(Waiting(m, rest)) + Len(rest)
                                               + (IF Finishes(rest) THEN 1 ELSE 0)
  BY <1>1, StepsLeftOf
<1>7. StepsLeft(m, rest) < StepsLeft(m, tasks)
  BY <1>1, <1>2, <1>4, <1>5, <1>6
<1> QED BY <1>7 DEF rest

\* The scan finds a stage that waits; from now on it does not.
LEMMA MaterializeStageCounts ==
  ASSUME IsFiniteSet(Stages), NEW m, NEW tasks \in Seq(CallTasks), tasks # <<>>,
         Head(tasks).type = "materialize", NEW s \in Stages, Materializable(m, s)
  PROVE  LET r == <<s, DefaultKey>>
             all == <<[type |-> "unit.registered", unit |-> r], DispatchTask(r, FALSE),
                      [type |-> "stage.sealed", stage |-> s]>> \o tasks
         IN StepsLeft(m, all) < StepsLeft(m, tasks)
<1> DEFINE r == <<s, DefaultKey>>
           added == <<[type |-> "unit.registered", unit |-> r], DispatchTask(r, FALSE),
                      [type |-> "stage.sealed", stage |-> s]>>
           all == added \o tasks
<1>1. r \in UnitRefs /\ StageOf(r) = s
  BY PlanAssumption DEF UnitRefs, StageOf
<1>2. added \in Seq(CallTasks) /\ Len(added) = 3
  BY <1>1, TasksTyped, UnitTasksTyped, CallSequences
<1>3. /\ added[1].type = "unit.registered" /\ added[1].unit = r
      /\ \A i \in 1 .. 3 : added[i].type # "finish"
  BY DEF DispatchTask
<1> HIDE DEF added
<1>4. /\ all \in Seq(CallTasks) /\ Len(all) = Len(tasks) + 3 /\ Len(tasks) \in Nat
      /\ \A i \in 1 .. Len(tasks) + 3 :
           all[i] = IF i <= 3 THEN added[i] ELSE tasks[i - 3]
  <2>1. /\ all \in Seq(CallTasks) /\ Len(all) = Len(added) + Len(tasks)
        /\ \A i \in 1 .. Len(added) + Len(tasks) :
             all[i] = IF i <= Len(added) THEN added[i] ELSE tasks[i - Len(added)]
    BY <1>2, ConcatProperties
  <2> HIDE DEF all
  <2>2. Len(tasks) \in Nat /\ Len(added) + Len(tasks) = Len(tasks) + 3
    BY <1>2, LenProperties
  <2> QED BY <1>2, <2>1, <2>2
<1>5. all # <<>> /\ Head(all).type = "unit.registered" /\ StageOf(Head(all).unit) = s
  <2>1. all # <<>> /\ Head(all) = all[1]
    BY <1>4, EmptySeq, HeadTailProperties
  <2>2. all[1] = added[1]
    BY <1>4
  <2> QED BY <1>1, <1>3, <2>1, <2>2
<1>6. Finishes(all) => Finishes(tasks)
  <2> SUFFICES ASSUME NEW i \in DOMAIN all, all[i].type = "finish" PROVE Finishes(tasks)
    BY DEF Finishes
  <2>1. i \in 1 .. Len(tasks) + 3
    BY <1>4, LenProperties
  <2>2. i > 3 /\ all[i] = tasks[i - 3]
    BY <1>4, <1>3, <2>1
  <2>3. i - 3 \in DOMAIN tasks
    BY <1>4, <2>1, <2>2, LenProperties
  <2> QED BY <2>2, <2>3 DEF Finishes
<1> HIDE DEF all
<1>7. /\ Waiting(m, all) \subseteq Waiting(m, tasks)
      /\ s \in Waiting(m, tasks) /\ s \notin Waiting(m, all)
  BY <1>5 DEF Waiting, Registers, Materializable
<1>8. /\ Cardinality(Waiting(m, tasks)) \in Nat /\ Cardinality(Waiting(m, all)) \in Nat
      /\ Cardinality(Waiting(m, all)) < Cardinality(Waiting(m, tasks))
  BY <1>7, FewerWait
<1>9. /\ StepsLeft(m, tasks) = 4 * Cardinality(Waiting(m, tasks)) + Len(tasks)
                                 + (IF Finishes(tasks) THEN 1 ELSE 0)
      /\ StepsLeft(m, all) = 4 * Cardinality(Waiting(m, all)) + Len(all)
                               + (IF Finishes(all) THEN 1 ELSE 0)
  BY <1>4, <1>5, StepsLeftOf
<1>10. StepsLeft(m, all) < StepsLeft(m, tasks)
  BY <1>4, <1>6, <1>8, <1>9
<1> QED BY <1>10 DEF all, added

\* The test at the end leaves one event at most.
LEMMA FinishCallCounts ==
  ASSUME IsFiniteSet(Stages), NEW m, NEW tasks \in Seq(CallTasks), tasks # <<>>,
         Head(tasks).type = "finish"
  PROVE  /\ StepsLeft(m, <<>>) < StepsLeft(m, tasks)
         /\ StepsLeft(m, <<[type |-> "execution.succeeded"]>>) < StepsLeft(m, tasks)
<1> DEFINE last == <<[type |-> "execution.succeeded"]>>
<1>1. last \in Seq(CallTasks) /\ last # <<>> /\ Len(last) = 1 /\ ~Finishes(last)
      /\ Head(last).type = "execution.succeeded"
  BY TasksTyped, CallSequences DEF Finishes
<1> HIDE DEF last
<1>2. Finishes(tasks) /\ Len(tasks) \in Nat /\ Len(tasks) >= 1
  BY HeadTailProperties, LenProperties, EmptySeq DEF Finishes
<1>3. Waiting(m, last) \subseteq Waiting(m, tasks)
  BY <1>1 DEF Waiting, Registers
<1>4. /\ Cardinality(Waiting(m, tasks)) \in Nat /\ Cardinality(Waiting(m, last)) \in Nat
      /\ Cardinality(Waiting(m, last)) <= Cardinality(Waiting(m, tasks))
  BY <1>3, FewerWait
<1>5. /\ StepsLeft(m, <<>>) = 0
      /\ StepsLeft(m, tasks) = 4 * Cardinality(Waiting(m, tasks)) + Len(tasks) + 1
      /\ StepsLeft(m, last) = 4 * Cardinality(Waiting(m, last)) + 1
  <2>1. StepsLeft(m, <<>>) = 0
    BY StepsLeftOf
  <2>2. StepsLeft(m, tasks) = 4 * Cardinality(Waiting(m, tasks)) + Len(tasks) + 1
    BY <1>2, StepsLeftOf
  <2>3. StepsLeft(m, last) = 4 * Cardinality(Waiting(m, last)) + Len(last) + 0
    BY <1>1, StepsLeftOf
  <2> QED BY <1>1, <1>4, <2>1, <2>2, <2>3
<1> QED BY <1>2, <1>4, <1>5 DEF last

\* Each task of a call counts, whatever becomes of it.
LEMMA CallStepCounts ==
  ASSUME IsFiniteSet(Stages), IInv, NEW p \in Procs, CallStep(p) \/ AppendFails(p)
  PROVE  StepsLeft(mem'[p], todo'[p]) < StepsLeft(mem[p], todo[p])
<1>0. /\ mem \in [Procs -> Machine] /\ todo \in [Procs -> Seq(CallTasks)]
      /\ todo[p] \in Seq(CallTasks) /\ Typed /\ Held
  BY DEF IInv, Typed
<1>1. todo[p] # <<>>
  BY DEF CallStep, Emit, Refuse, AppendFails, Emitting, MaterializeStage, MaterializedAll,
    FinishCall, Active
<1>2. /\ KernelInv(mem[p])
      /\ StepsLeft(mem[p], <<>>) = 0 /\ StepsLeft(mem[p], todo[p]) > 0
  BY <1>0, <1>1, StepsLeftOf DEF IInv, MachinesOK
<1>3. CASE Emit(p)
  <2> DEFINE e == Head(todo[p])
             n == ApplyEvent(mem[p], e)
             rest == Tail(todo[p])
  <2>1. /\ IsEvent(e) /\ ValidateEvent(mem[p], e)
        /\ mem' = [mem EXCEPT ![p] = n] /\ todo' = [todo EXCEPT ![p] = rest]
    BY <1>3 DEF Emit, Emitting
  <2>2. e \in Events
    BY <1>0, <1>1, <2>1, RunningCall DEF CallTasks, Tasks, IsEvent
  <2>3. StepsLeft(n, rest) < StepsLeft(mem[p], todo[p])
    BY <1>0, <1>1, <1>2, <2>1, <2>2, EmitCounts
  <2> HIDE DEF n, rest
  <2> QED BY <1>0, <2>1, <2>3
<1>4. CASE Refuse(p) \/ AppendFails(p)
  BY <1>0, <1>2, <1>4 DEF Refuse, AppendFails, Abandon
<1>5. ASSUME NEW s \in Stages, MaterializeStage(p, s)
      PROVE  StepsLeft(mem'[p], todo'[p]) < StepsLeft(mem[p], todo[p])
  <2> DEFINE all == <<[type |-> "unit.registered", unit |-> <<s, DefaultKey>>],
                      DispatchTask(<<s, DefaultKey>>, FALSE),
                      [type |-> "stage.sealed", stage |-> s]>> \o todo[p]
  <2>1. /\ Head(todo[p]).type = "materialize" /\ Materializable(mem[p], s)
        /\ mem' = mem /\ todo' = [todo EXCEPT ![p] = all]
    BY <1>5 DEF MaterializeStage, Active
  <2>2. StepsLeft(mem[p], all) < StepsLeft(mem[p], todo[p])
    BY <1>0, <1>1, <2>1, MaterializeStageCounts
  <2> HIDE DEF all
  <2> QED BY <1>0, <2>1, <2>2
<1>6. CASE MaterializedAll(p)
  <2>1. /\ Head(todo[p]).type = "materialize"
        /\ mem' = mem /\ todo' = [todo EXCEPT ![p] = Tail(todo[p])]
    BY <1>6 DEF MaterializedAll, Active
  <2> QED BY <1>0, <1>1, <2>1, MaterializedAllCounts
<1>7. CASE FinishCall(p)
  <2> DEFINE last == <<[type |-> "execution.succeeded"]>>
  <2>1. /\ Head(todo[p]).type = "finish"
        /\ mem' = mem
        /\ \/ todo' = [todo EXCEPT ![p] = last]
           \/ todo' = [todo EXCEPT ![p] = <<>>]
    BY <1>7 DEF FinishCall, Active
  <2>2. /\ StepsLeft(mem[p], <<>>) < StepsLeft(mem[p], todo[p])
        /\ StepsLeft(mem[p], last) < StepsLeft(mem[p], todo[p])
    BY <1>0, <1>1, <2>1, FinishCallCounts
  <2> HIDE DEF last
  <2> QED BY <1>0, <2>1, <2>2
<1> QED BY <1>3, <1>4, <1>5, <1>6, <1>7 DEF CallStep

\* Nobody else touches a running call, and it takes no other one.
LEMMA EveryStepCounts ==
  ASSUME IsFiniteSet(Stages), IInv, IInv', Next
  PROVE  CallsRunOut
<1> SUFFICES ASSUME NEW q \in Procs, todo[q] # <<>>
             PROVE  \/ mem'[q] = mem[q] /\ todo'[q] = todo[q]
                    \/ /\ StepsLeft(mem[q], todo[q]) \in Nat
                       /\ StepsLeft(mem'[q], todo'[q]) \in Nat
                       /\ StepsLeft(mem'[q], todo'[q]) < StepsLeft(mem[q], todo[q])
  BY DEF CallsRunOut
<1>0. /\ mem \in [Procs -> Machine] /\ todo \in [Procs -> Seq(CallTasks)]
      /\ q \in live
  BY DEF IInv, Typed, Held
<1>1. /\ StepsLeft(mem[q], todo[q]) \in Nat /\ StepsLeft(mem[q], todo[q]) > 0
      /\ StepsLeft(mem'[q], todo'[q]) \in Nat /\ StepsLeft(mem'[q], <<>>) = 0
  <2>1. todo[q] \in Seq(CallTasks) /\ todo'[q] \in Seq(CallTasks)
    BY DEF IInv, Typed
  <2> QED BY <2>1, StepsLeftOf
<1>2. PICK p \in Procs :
        \/ Create(p) \/ Replay(p) \/ Exit(p) \/ Crash(p)
        \/ Work(p) \/ Cancel(p) \/ CallStep(p) \/ AppendFails(p)
  BY DEF Next
<1>3. CASE Create(p) \/ Replay(p)
  <2>1. p # q /\ todo' = todo /\ \E m : mem' = [mem EXCEPT ![p] = m]
    BY <1>0, <1>3 DEF Create, Replay, MayOpen, Open
  <2> QED BY <1>0, <2>1
<1>4. CASE Exit(p) \/ Crash(p)
  <2>1. mem' = [mem EXCEPT ![p] = NewMachine] /\ todo' = [todo EXCEPT ![p] = <<>>]
    BY <1>4 DEF Exit, Crash, Close
  <2> QED BY <1>0, <1>1, <2>1
<1>5. CASE Work(p) \/ Cancel(p)
  <2>1. \E tasks : todo' = [todo EXCEPT ![p] = tasks] /\ mem' = mem /\ todo[p] = <<>>
    BY <1>5, CallsQueue DEF Queues, Call, Ready
  <2> QED BY <1>0, <2>1
<1>6. CASE CallStep(p) \/ AppendFails(p)
  <2>1. StepsLeft(mem'[p], todo'[p]) < StepsLeft(mem[p], todo[p])
    BY <1>6, CallStepCounts
  <2>2. q # p => mem'[q] = mem[q] /\ todo'[q] = todo[q]
    <3>1. Retasks(p) \/ \E e \in Events : Emits(p, e)
      BY <1>6, CallStepCases DEF IInv
    <3> QED BY <1>0, <3>1 DEF Retasks, Emits
  <2> QED BY <1>1, <2>1, <2>2
<1> QED BY <1>2, <1>3, <1>4, <1>5, <1>6

\* Every call of the API ends: in a plan with finitely many stages, whatever the
\* other processes do and whatever fails, each step of _emit,
\* _materialize_singletons and the test at the end of _unlock_or_finish brings
\* the number of steps that the call may still take down.
THEOREM CallsAreFinite == IsFiniteSet(Stages) => (Spec => [][CallsRunOut]_vars)
<1> SUFFICES ASSUME IsFiniteSet(Stages) PROVE Spec => [][CallsRunOut]_vars
  OBVIOUS
<1>1. IInv /\ IInv' /\ [Next]_vars => [CallsRunOut]_vars
  BY EveryStepCounts
<1> QED BY <1>1, MachineInductive, PTL DEF Spec

=============================================================================
