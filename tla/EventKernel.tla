---------------------------- MODULE EventKernel ----------------------------
(***************************************************************************)
(* Every event sequence the kernel accepts: from a new machine, any event  *)
(* that _validate_event lets through is applied by _apply_event.  These    *)
(* are the ledgers that ExecutionMachine.replay accepts, whether or not an *)
(* API call would have written them, so what holds here holds of every     *)
(* machine, created or replayed.                                           *)
(***************************************************************************)
EXTENDS KernelInvariants

VARIABLE machine

Init == machine = NewMachine

\* The body of replay's loop, and of _emit without its ledger append.
Accept(e) ==
  /\ ValidateEvent(machine, e)
  /\ machine' = ApplyEvent(machine, e)

ExecutionEvent == \E e \in ExecutionEvents : Accept(e)
Seal           == \E e \in SealEvents : Accept(e)
PlainUnit      == \E e \in PlainUnitEvents : Accept(e)
Reasoned       == \E e \in ReasonEvents : Accept(e)
Dispatch       == \E e \in DispatchEvents : Accept(e)
Decide         == \E e \in DecisionEvents : Accept(e)
Claim          == \E e \in ClaimEvents : Accept(e)
Evidenced      == \E e \in EvidenceEvents : Accept(e)

Next ==
  \/ ExecutionEvent \/ Seal \/ PlainUnit \/ Reasoned
  \/ Dispatch \/ Decide \/ Claim \/ Evidenced

Spec == Init /\ [][Next]_machine

(***************************************************************************)
(* Invariants.                                                             *)
(***************************************************************************)
\* The machine's record has the shape of the code's dataclasses.
TypeOK == machine \in Machine
\* needs is a barrier: dependencies_satisfied held, and still holds, for every
\* stage with a unit.
Barrier == BarrierOf(machine)
\* Sealing a stage means it has its work (state.py stage.sealed).
SealedHasWork == SealedOf(machine)
\* unit.completed only after every planned gate was accepted.
CompletedIsProven == CompletedIsProvenOf(machine)
\* policy.maxAttempts, counted over retries and re-authorizations.
RetryBudget == RetryBudgetOf(machine)
\* Retries reset the attempt: no stale outputs or evidence.
FreshAttempt == FreshAttemptOf(machine)
\* Execution status and unit statuses agree on how the run ended.
OutcomeJustified == OutcomeOf(machine)

(***************************************************************************)
(* Step properties and refinement.                                         *)
(***************************************************************************)
\* What a downstream stage builds on never changes: a completed or skipped
\* unit is never touched again, a satisfied stage gains no unit, and nothing
\* at all changes after the execution has ended.
SettledIsFinal ==
  [][/\ \A r \in UnitRefs :
          machine.unit[r].status \in Satisfied => machine'.unit[r] = machine.unit[r]
     /\ \A s \in machine.sealed : GroupUnits(machine', s) = GroupUnits(machine, s)
     /\ machine.status \in Terminal => machine' = machine]_machine

\* A unit under humanApproval "always" becomes ready only by a decision on an
\* open request, at a retry as at the first attempt (what
\* test_authorized_unit_retry_requires_fresh_pre_dispatch_authorization and
\* test_replay_rejects_forged_dispatch_without_authorization say).
ReadyIsAuthorized ==
  [][\A r \in UnitRefs :
       /\ HumanApproval[StageOf(r)] = "always"
       /\ machine.unit[r].status # "ready"
       /\ machine'.unit[r].status = "ready"
       => machine.unit[r].status = "awaiting-authorization"]_machine

\* The kernel implements the stage barrier: a stage opens with its first
\* unit and finishes when it is sealed with every unit satisfied.
OpenedStages(m) == {s \in Stages : GroupUnits(m, s) # {}}
FinishedStages(m) == {s \in Stages : GroupSatisfied(m, s)}
OutcomeView(m) ==
  IF m.status = "succeeded" THEN "succeeded"
  ELSE IF m.status \in {"failed", "cancelled"} THEN "stopped" ELSE "open"

StageView == INSTANCE StageBarrier WITH
  opened <- OpenedStages(machine), finished <- FinishedStages(machine),
  outcome <- OutcomeView(machine)

\* Every accepted event sequence is a run of the stage barrier.
ImplementsBarrier == StageView!Spec

=============================================================================
