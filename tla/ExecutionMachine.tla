-------------------------- MODULE ExecutionMachine --------------------------
(***************************************************************************)
(* The API of ExecutionMachine over a ledger it shares with other          *)
(* processes.  A call checks the state of its own machine object, then     *)
(* emits one event after another; an emitted event is validated against    *)
(* the machine's memory, appended to the ledger and applied to the memory. *)
(* Between two events of a call other processes may append, the process    *)
(* may die, and the append may fail: the call is not a transaction.        *)
(*                                                                         *)
(* The part of the ledger that belongs to this execution is represented by *)
(* what ExecutionMachine.replay makes of it: the state it reaches and      *)
(* whether it accepts every event on the way.                              *)
(***************************************************************************)
EXTENDS KernelInvariants, Sequences

CONSTANTS
  Procs,          \* processes (or objects) that may hold a machine
  PlanIndex,      \* [Stages -> Nat], the position of a stage in plan.stages
  Exclusive,      \* the deployment keeps one machine per execution at a time
  Faults,         \* subset of {"exit", "crash", "append"}
  DenialReasons   \* reasons given with a denial: "given", "empty", "blank"

ASSUME MachineAssumption ==
  /\ PlanIndex \in [Stages -> Nat]
  /\ Exclusive \in BOOLEAN
  /\ Faults \subseteq {"exit", "crash", "append"}
  /\ DenialReasons \subseteq {"given", "empty", "blank"}

VARIABLES
  live,         \* processes that hold a machine for the execution
  mem,          \* [Procs -> Machine], the state in each machine object
  todo,         \* [Procs -> Seq(Tasks)], what is left of the running call
  view,         \* the state replay reaches on the ledger
  replayable,   \* whether replay accepts the whole ledger
  interrupted   \* whether some call stopped before its last event

vars == <<live, mem, todo, view, replayable, interrupted>>

\* A task of a call: an event to emit, or a scan for what has become possible.
Tasks == Events \cup [type : {"materialize", "finish"}]

IsEvent(t) == t.type \notin {"materialize", "finish"}

Init ==
  /\ live = {}
  /\ mem = [p \in Procs |-> NewMachine]
  /\ todo = [p \in Procs |-> <<>>]
  /\ view = NewMachine
  /\ replayable = TRUE
  /\ interrupted = FALSE

(***************************************************************************)
(* Obtaining a machine and losing it.                                      *)
(***************************************************************************)
MayOpen(p) == p \notin live /\ (Exclusive => live = {})

Open(p, m) ==
  /\ live' = live \cup {p}
  /\ mem' = [mem EXCEPT ![p] = m]

\* create: create_execution refuses an id that the ledger already holds.
Create(p) ==
  LET created == [type |-> "execution.created"]
  IN /\ MayOpen(p)
     /\ ~view.created
     /\ Open(p, ApplyEvent(NewMachine, created))
     /\ view' = ApplyEvent(view, created)
     /\ UNCHANGED <<todo, replayable, interrupted>>

\* replay; a ledger with an event it cannot accept raises LedgerError.
Replay(p) ==
  /\ MayOpen(p)
  /\ view.created
  /\ replayable
  /\ Open(p, view)
  /\ UNCHANGED <<todo, view, replayable, interrupted>>

Close(p) ==
  /\ live' = live \ {p}
  /\ mem' = [mem EXCEPT ![p] = NewMachine]
  /\ todo' = [todo EXCEPT ![p] = <<>>]
  /\ UNCHANGED <<view, replayable>>

Exit(p) ==
  /\ "exit" \in Faults
  /\ p \in live
  /\ todo[p] = <<>>
  /\ Close(p)
  /\ UNCHANGED interrupted

Crash(p) ==
  /\ "crash" \in Faults
  /\ todo[p] # <<>>
  /\ Close(p)
  /\ interrupted' = TRUE

(***************************************************************************)
(* The calls.  Each one is guarded by the checks the method makes itself   *)
(* and queues the events it will emit.                                     *)
(***************************************************************************)
Materialize == [type |-> "materialize"]
\* Nothing is unlocked.
UnlockOrFinish_NoUnlock == <<[type |-> "finish"]>>

\* _unlock_or_finish
UnlockOrFinish == <<Materialize, [type |-> "finish"]>>

Ready(p) == p \in live /\ todo[p] = <<>>

Call(p, tasks) ==
  /\ Ready(p)
  /\ todo' = [todo EXCEPT ![p] = tasks]
  /\ UNCHANGED <<live, mem, view, replayable, interrupted>>

Running(p) == mem[p].status = "running"

InStatus(p, r, statuses) == Running(p) /\ mem[p].unit[r].status \in statuses

Start(p) ==
  /\ mem[p].status = "created"
  /\ Call(p, <<[type |-> "execution.started"], Materialize>>)

\* The event says nothing of a retry.
DispatchTask_NoRetryField(r, retry) == [type |-> "unit.ready", unit |-> r]

\* A retry goes straight to the worker.
DispatchTask_RetryUnasked(r, retry) ==
  [type |-> IF HumanApproval[StageOf(r)] = "always" /\ ~retry
            THEN "authorization.requested" ELSE "unit.ready",
   unit |-> r, retry |-> retry]

\* _request_authorization_or_ready, and the same choice in fail_unit.
DispatchTask(r, retry) ==
  [type |-> IF HumanApproval[StageOf(r)] = "always"
            THEN "authorization.requested" ELSE "unit.ready",
   unit |-> r, retry |-> retry]

\* Forgets that the stage may be sealed.
CanExpand_Sealed(p, s) ==
  /\ Running(p)
  /\ FanoutMode[s] = "each"
  /\ DependenciesSatisfied(mem[p], s)

CanExpand(p, s) ==
  /\ Running(p)
  /\ FanoutMode[s] = "each"
  /\ s \notin mem[p].sealed
  /\ DependenciesSatisfied(mem[p], s)

RegisterUnit(p, r) ==
  /\ CanExpand(p, StageOf(r))
  /\ mem[p].unit[r].status = "absent"
  /\ Call(p, <<[type |-> "unit.registered", unit |-> r], DispatchTask(r, FALSE)>>)

SealStage(p, s) ==
  /\ CanExpand(p, s)
  /\ GroupUnits(mem[p], s) # {}
  /\ Call(p, <<[type |-> "stage.sealed", stage |-> s]>> \o UnlockOrFinish)

Approve(p, r) ==
  /\ InStatus(p, r, {"awaiting-authorization"})
  /\ Call(p, <<[type |-> "authorization.decided", unit |-> r, approved |-> TRUE]>>)

\* The reason of the failure is `reason or "authorization denied"`.
Deny(p, r, reason) ==
  /\ InStatus(p, r, {"awaiting-authorization"})
  /\ Call(p, <<[type |-> "authorization.decided", unit |-> r, approved |-> FALSE],
               [type |-> "execution.failed", unit |-> r,
                reason |-> IF reason = "blank" THEN "blank" ELSE "given"]>>)

StartUnit(p, r) ==
  /\ InStatus(p, r, {"ready"})
  /\ AttemptLeft(mem[p], r)
  /\ Call(p, <<[type |-> "unit.started", unit |-> r]>>)

\* _complete_unit
CompleteUnit(r) == <<[type |-> "unit.completed", unit |-> r]>> \o UnlockOrFinish

\* Outputs that violate the schema are refused before anything is emitted.
ClaimUnit(p, r) ==
  /\ InStatus(p, r, {"running"})
  /\ Call(p, <<[type |-> "unit.claimed", unit |-> r, outputs |-> "conforming"]>>
               \o (IF RequiresEvidence[StageOf(r)] # {}
                   THEN <<[type |-> "unit.awaiting-evidence", unit |-> r]>>
                   ELSE CompleteUnit(r)))

\* The two events that fail a unit for good.
FailForGood(r) ==
  <<[type |-> "unit.failed", unit |-> r, reason |-> "given"],
    [type |-> "execution.failed", unit |-> r, reason |-> "given"]>>

RecordEvidence(p, r, c, accepted, matches) ==
  LET u == mem[p].unit[r]
      required == RequiresEvidence[StageOf(r)]
  IN /\ InStatus(p, r, {"awaiting-evidence"})
     /\ c \in required \ u.recorded
     /\ accepted /\ c \in Schematic => matches
     /\ Call(p, <<[type |-> "evidence.recorded", unit |-> r, evidence |-> c,
                   accepted |-> accepted, matches |-> matches]>>
                  \o (IF ~accepted THEN FailForGood(r)
                      ELSE IF required \subseteq u.accepted \cup {c}
                      THEN CompleteUnit(r) ELSE <<>>))

SkipUnit(p, r) ==
  /\ InStatus(p, r, {"ready"})
  /\ StageOf(r) \in Conditional
  /\ Call(p, <<[type |-> "unit.skipped", unit |-> r, reason |-> "given"]>>
               \o UnlockOrFinish)

FailUnit(p, r, retry) ==
  /\ InStatus(p, r, {"running", "claimed", "awaiting-evidence"})
  /\ Call(p, IF retry /\ AttemptLeft(mem[p], r)
             THEN <<[type |-> "unit.failed", unit |-> r, reason |-> "given"],
                    DispatchTask(r, TRUE)>>
             ELSE FailForGood(r))

Cancel(p) ==
  /\ mem[p].status \in {"created", "running"}
  /\ Call(p, <<[type |-> "execution.cancelled"]>>)

(***************************************************************************)
(* The steps of a running call.                                            *)
(***************************************************************************)
Active(p, type) == todo[p] # <<>> /\ Head(todo[p]).type = type

Emitting(p) == todo[p] # <<>> /\ IsEvent(Head(todo[p]))

\* Replay skips what it cannot accept.
AppendToLedger_Lenient(e) ==
  /\ view' = IF ValidateEvent(view, e) THEN ApplyEvent(view, e) ELSE view
  /\ UNCHANGED replayable

\* Replay applies without validating.
AppendToLedger_Blind(e) == view' = ApplyEvent(view, e) /\ UNCHANGED replayable

\* append asks only that the execution exists: what replay makes of the
\* ledger afterwards depends on the events that are already there.
AppendToLedger(e) ==
  IF replayable /\ ValidateEvent(view, e)
  THEN view' = ApplyEvent(view, e) /\ UNCHANGED replayable
  ELSE replayable' = FALSE /\ UNCHANGED view

\* _emit
Emit(p) ==
  LET e == Head(todo[p])
  IN /\ Emitting(p)
     /\ ValidateEvent(mem[p], e)
     /\ AppendToLedger(e)
     /\ mem' = [mem EXCEPT ![p] = ApplyEvent(@, e)]
     /\ todo' = [todo EXCEPT ![p] = Tail(@)]
     /\ UNCHANGED <<live, interrupted>>

\* An exception leaves the call: what it emitted stays emitted.
Abandon(p) ==
  /\ todo' = [todo EXCEPT ![p] = <<>>]
  /\ interrupted' = TRUE
  /\ UNCHANGED <<live, mem, view, replayable>>

\* _emit raises TransitionError.
Refuse(p) ==
  /\ Emitting(p)
  /\ ~ValidateEvent(mem[p], Head(todo[p]))
  /\ Abandon(p)

\* The event is applied to memory before it is appended.
AppendFails_AfterApply(p) ==
  /\ "append" \in Faults
  /\ Emitting(p)
  /\ ValidateEvent(mem[p], Head(todo[p]))
  /\ mem' = [mem EXCEPT ![p] = ApplyEvent(@, Head(todo[p]))]
  /\ todo' = [todo EXCEPT ![p] = <<>>]
  /\ interrupted' = TRUE
  /\ UNCHANGED <<live, view, replayable>>

\* ledger.append raises before it has written anything.
AppendFails(p) ==
  /\ "append" \in Faults
  /\ Emitting(p)
  /\ ValidateEvent(mem[p], Head(todo[p]))
  /\ Abandon(p)

Materializable(m, s) ==
  /\ FanoutMode[s] = "singleton"
  /\ GroupUnits(m, s) = {}
  /\ DependenciesSatisfied(m, s)

\* One round of the loop in _materialize_singletons; a unit it adds satisfies
\* no dependency, so the loop may as well start again after it.
MaterializeStage(p, s) ==
  LET r == <<s, DefaultKey>>
  IN /\ Active(p, "materialize")
     /\ Materializable(mem[p], s)
     /\ \A t \in Stages : Materializable(mem[p], t) => PlanIndex[s] <= PlanIndex[t]
     /\ todo' = [todo EXCEPT ![p] =
                   <<[type |-> "unit.registered", unit |-> r], DispatchTask(r, FALSE),
                     [type |-> "stage.sealed", stage |-> s]>> \o @]
     /\ UNCHANGED <<live, mem, view, replayable, interrupted>>

MaterializedAll(p) ==
  /\ Active(p, "materialize")
  /\ \A s \in Stages : ~Materializable(mem[p], s)
  /\ todo' = [todo EXCEPT ![p] = Tail(@)]
  /\ UNCHANGED <<live, mem, view, replayable, interrupted>>

\* A finished plan stays running.
FinishCall_NoSuccess(p) ==
  /\ Active(p, "finish")
  /\ todo' = [todo EXCEPT ![p] = <<>>]
  /\ UNCHANGED <<live, mem, view, replayable, interrupted>>

FinishCall(p) ==
  /\ Active(p, "finish")
  /\ todo' = [todo EXCEPT ![p] =
                IF AllWorkSatisfied(mem[p])
                THEN <<[type |-> "execution.succeeded"]>> ELSE <<>>]
  /\ UNCHANGED <<live, mem, view, replayable, interrupted>>

CallStep(p) ==
  \/ Emit(p)
  \/ Refuse(p)
  \/ \E s \in Stages : MaterializeStage(p, s)
  \/ MaterializedAll(p)
  \/ FinishCall(p)

\* The calls of an adapter that carries the work on; cancel is not one.
Work(p) ==
  \/ Start(p)
  \/ \E s \in Stages : SealStage(p, s)
  \/ \E r \in UnitRefs :
       \/ RegisterUnit(p, r)
       \/ Approve(p, r)
       \/ \E reason \in DenialReasons : Deny(p, r, reason)
       \/ StartUnit(p, r)
       \/ ClaimUnit(p, r)
       \/ \E c \in Evidence, accepted, matches \in BOOLEAN :
            RecordEvidence(p, r, c, accepted, matches)
       \/ SkipUnit(p, r)
       \/ \E retry \in BOOLEAN : FailUnit(p, r, retry)

Next ==
  \E p \in Procs :
    \/ Create(p) \/ Replay(p) \/ Exit(p) \/ Crash(p)
    \/ Work(p) \/ Cancel(p)
    \/ CallStep(p) \/ AppendFails(p)

Spec == Init /\ [][Next]_vars

(***************************************************************************)
(* Fairness: a running call is run to its end, somebody resumes a run that *)
(* nobody holds, and an adapter whose machine accepts work again and again *)
(* does some.                                                              *)
(***************************************************************************)
FairSpec ==
  /\ Spec
  /\ \A p \in Procs : WF_vars(CallStep(p))
  /\ WF_vars(\E p \in Procs : Create(p) \/ Replay(p))
  /\ SF_vars(\E p \in Procs : Work(p))

(***************************************************************************)
(* Properties.                                                             *)
(***************************************************************************)
\* The shape of the state.  What a call has left to do are tasks.
TypeOK ==
  /\ live \subseteq Procs
  /\ mem \in [Procs -> Machine]
  /\ todo \in [Procs -> Seq(Tasks)]
  /\ view \in Machine
  /\ replayable \in BOOLEAN
  /\ interrupted \in BOOLEAN

\* With one machine per execution, the ledger always replays, and it replays
\* to exactly the state the machine has in memory: in the middle of a call,
\* after a failed append and after a crash as well.
MemoryMatchesLedger ==
  Exclusive => replayable /\ \A p \in live : mem[p] = view

\* The checks of the API methods are no weaker than _validate_event: a call
\* that passes its own checks is never refused half-way by the validator.
NoCallIsRefused ==
  \A p \in Procs : Emitting(p) => ValidateEvent(mem[p], Head(todo[p]))

\* Where a complete call leaves the machine: no unit waits for a step the
\* kernel itself should have taken (dispatch after registration or failure,
\* the gate after a claim, completion after the last receipt, the end after a
\* rejection), every singleton whose needs are satisfied is there and sealed,
\* and a finished plan has succeeded.
SettledBetweenCalls ==
  \A p \in live : ~interrupted /\ todo[p] = <<>> /\ Running(p) =>
    /\ \A r \in UnitRefs : LET u == mem[p].unit[r] IN
         /\ u.status \notin {"pending", "claimed", "failed"}
         /\ u.status = "awaiting-evidence" =>
              /\ u.recorded = u.accepted
              /\ ~GatesAccepted(mem[p], r)
    /\ \A s \in Stages : FanoutMode[s] = "singleton" =>
         (s \in mem[p].sealed <=> DependenciesSatisfied(mem[p], s))
    /\ ~AllWorkSatisfied(mem[p])

\* An adapter can always go on with an execution that has not ended: the
\* machine accepts some call that is not cancel.
WorkAccepted(p) ==
  LET m == mem[p] IN
  \/ m.status = "created"
  \/ \E s \in Stages : CanExpand(p, s)
  \/ \E r \in UnitRefs :
       \/ m.unit[r].status \in
            {"awaiting-authorization", "ready", "running", "claimed", "awaiting-evidence"}

\* "The kernel auto-materializes singleton units" (docstring of
\* ExecutionMachine): a machine that holds a running execution and is in no
\* call has the unit of every singleton whose needs are satisfied, sealed.
SingletonsAreMaterialized ==
  \A p \in live : todo[p] = <<>> /\ Running(p) =>
    \A s \in Stages :
      FanoutMode[s] = "singleton" /\ DependenciesSatisfied(mem[p], s) => s \in mem[p].sealed

\* A denial ends the execution (test_denied_pre_dispatch_authorization_never_
\* starts_unit): between calls a running machine holds no denied unit.
DenialEndsExecution ==
  \A p \in live : todo[p] = <<>> /\ Running(p) =>
    \A r \in UnitRefs : mem[p].unit[r].status # "failed"

\* Calls that ran to their end never leave a dead end.
NeverStuckBetweenCalls ==
  \A p \in live : ~interrupted /\ todo[p] = <<>> /\ Running(p) => WorkAccepted(p)

\* humanApproval "always": in the ledger's history a unit of such a stage
\* becomes ready, at every attempt, only by a decision on an open request.
DispatchIsAuthorized ==
  [][\A r \in UnitRefs :
       /\ HumanApproval[StageOf(r)] = "always"
       /\ view.unit[r].status # "ready"
       /\ view'.unit[r].status = "ready"
       => view.unit[r].status = "awaiting-authorization"]_vars

\* Several machines: as long as the ledger replays, a unit that any machine,
\* however stale, holds for completed or skipped is so in the ledger too, and
\* a stage it holds for sealed is sealed there.
ConfirmedInLedger ==
  replayable => \A p \in live :
    /\ mem[p].sealed \subseteq view.sealed
    /\ \A r \in UnitRefs :
         mem[p].unit[r].status \in Satisfied => view.unit[r].status \in Satisfied

\* Several machines: each one by itself, and the ledger as far as it replays,
\* keeps the barrier, the proof of completion and the retry budget.
SoundOf(m) ==
  BarrierOf(m) /\ SealedOf(m) /\ CompletedIsProvenOf(m) /\ RetryBudgetOf(m) /\ FreshAttemptOf(m)

EveryMachineIsSound == SoundOf(view) /\ \A p \in live : SoundOf(mem[p])

\* A fair adapter that may exit between calls, but never in one, brings every
\* execution to an end.
EventuallyEnds == <>(view.status \in Terminal)

=============================================================================
