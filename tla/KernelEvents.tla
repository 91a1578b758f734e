---------------------------- MODULE KernelEvents ----------------------------
(***************************************************************************)
(* The in-memory state of one ExecutionMachine and its two central         *)
(* functions: _validate_event, which decides whether an event is legal in  *)
(* a state, and _apply_event, which computes the state after it.  Every    *)
(* API call and every replay goes through this pair.                       *)
(*                                                                         *)
(* A machine is a record: whether execution.created was applied, the       *)
(* execution status, the sealed stage groups and the state of every work   *)
(* unit; a unit that is not in its group's dict is "absent".  A unit's     *)
(* evidence dict is three sets of evidence ids: those recorded, those      *)
(* whose receipt is marked accepted, and those whose contract has a schema *)
(* that the receipt satisfies.  Failure and skip reasons are not kept.     *)
(***************************************************************************)
EXTENDS ExecutionPlan

(***************************************************************************)
(* Convention of all the modules: a definition X_Fault, before X, is X as  *)
(* it would be with a plausible bug.  No specification uses it; it shows   *)
(* that the properties can tell the code from its bugs.                    *)
(***************************************************************************)

ExecutionStatus == {"created", "running", "succeeded", "failed", "cancelled"}

UnitStatus ==
  {"absent", "pending", "awaiting-authorization", "ready", "running", "claimed",
   "awaiting-evidence", "completed", "skipped", "failed", "cancelled"}

Outputs == {"empty", "conforming", "violating"}

UnitState ==
  [status : UnitStatus, attempts : Nat, outputs : Outputs,
   recorded : SUBSET Evidence, accepted : SUBSET Evidence,
   matching : SUBSET Evidence]

Machine ==
  [created : BOOLEAN, status : ExecutionStatus, sealed : SUBSET Stages,
   unit : [UnitRefs -> UnitState]]

\* WorkUnitState(ref), with its status given.
FreshUnit(status) ==
  [status |-> status, attempts |-> 0, outputs |-> "empty",
   recorded |-> {}, accepted |-> {}, matching |-> {}]

\* ExecutionMachine.__init__
NewMachine ==
  [created |-> FALSE, status |-> "created", sealed |-> {},
   unit |-> [r \in UnitRefs |-> FreshUnit("absent")]]

(***************************************************************************)
(* Events: the `type` of a ledger event and the part of its payload the    *)
(* kernel reads.  A reason is "given" or "blank" (only white space, which  *)
(* str.strip() empties).                                                   *)
(***************************************************************************)
Reasons == {"given", "blank"}

ExecutionEvents ==
  [type : {"execution.created", "execution.started", "execution.succeeded",
           "execution.cancelled"}]
SealEvents == [type : {"stage.sealed"}, stage : Stages]
PlainUnitEvents ==
  [type : {"unit.registered", "unit.started", "unit.awaiting-evidence",
           "unit.completed"}, unit : UnitRefs]
ReasonEvents ==
  [type : {"execution.failed", "unit.failed", "unit.skipped"},
   unit : UnitRefs, reason : Reasons]
DispatchEvents ==
  [type : {"authorization.requested", "unit.ready"},
   unit : UnitRefs, retry : BOOLEAN]
DecisionEvents ==
  [type : {"authorization.decided"}, unit : UnitRefs, approved : BOOLEAN]
ClaimEvents == [type : {"unit.claimed"}, unit : UnitRefs, outputs : Outputs]
EvidenceEvents ==
  [type : {"evidence.recorded"}, unit : UnitRefs, evidence : Evidence,
   accepted : BOOLEAN, matches : BOOLEAN]

UnitEvents ==
  PlainUnitEvents \cup ReasonEvents \cup DispatchEvents \cup DecisionEvents
    \cup ClaimEvents \cup EvidenceEvents

Events == ExecutionEvents \cup SealEvents \cup UnitEvents

(***************************************************************************)
(* Queries over a machine.                                                 *)
(***************************************************************************)
\* The units of a stage group.
GroupUnits(m, s) == {r \in RefsOf(s) : m.unit[r].status # "absent"}

Satisfied == {"completed", "skipped"}

GroupSatisfied(m, s) ==
  /\ s \in m.sealed
  /\ \A r \in GroupUnits(m, s) : m.unit[r].status \in Satisfied

\* Looks at the units only, as if a stage had all of them from the start.
DependenciesSatisfied_Unsealed(m, s) ==
  \A d \in Needs[s] : \A r \in GroupUnits(m, d) : m.unit[r].status \in Satisfied

\* dependencies_satisfied
DependenciesSatisfied(m, s) == \A d \in Needs[s] : GroupSatisfied(m, d)

\* Forgets that a group may still be expanded.
AllWorkSatisfied_Unsealed(m) ==
  \A s \in Stages :
    /\ GroupUnits(m, s) # {}
    /\ \A r \in GroupUnits(m, s) : m.unit[r].status \in Satisfied

\* _all_work_satisfied
AllWorkSatisfied(m) ==
  \A s \in Stages : GroupUnits(m, s) # {} /\ GroupSatisfied(m, s)

\* A receipt counts whether it was accepted or not.
GatesAccepted_AnyReceipt(m, r) ==
  RequiresEvidence[StageOf(r)] \subseteq m.unit[r].recorded

\* Every required evidence id has a receipt marked accepted.
GatesAccepted(m, r) == RequiresEvidence[StageOf(r)] \subseteq m.unit[r].accepted

AttemptLeft_OffByOne(m, r) == m.unit[r].attempts <= MaxAttempts[StageOf(r)]

\* The test of policy["maxAttempts"].
AttemptLeft(m, r) == m.unit[r].attempts < MaxAttempts[StageOf(r)]

(***************************************************************************)
(* _validate_event.                                                        *)
(***************************************************************************)
ValidateExecutionEvent(m, e) ==
  \/ e.type = "execution.started" /\ m.status = "created"
  \/ /\ e.type = "execution.succeeded"
     /\ m.status = "running"
     /\ AllWorkSatisfied(m)
  \/ /\ e.type = "execution.failed"
     /\ m.status = "running"
     /\ m.unit[e.unit].status = "failed"
     /\ e.reason = "given"
  \/ e.type = "execution.cancelled" /\ m.status \in {"created", "running"}

MaySeal(m, s) ==
  /\ s \notin m.sealed
  /\ DependenciesSatisfied(m, s)
  /\ GroupUnits(m, s) # {}
  /\ FanoutMode[s] = "singleton" => GroupUnits(m, s) = {<<s, DefaultKey>>}

MayRegister(m, r) ==
  LET s == StageOf(r)
  IN /\ s \notin m.sealed
     /\ m.unit[r].status = "absent"
     /\ DependenciesSatisfied(m, s)
     /\ FanoutMode[s] = "singleton" => r = <<s, DefaultKey>> /\ GroupUnits(m, s) = {}

ValidateStageEvent(m, e) ==
  \/ e.type = "stage.sealed" /\ MaySeal(m, e.stage)
  \/ e.type = "unit.registered" /\ MayRegister(m, e.unit)

\* Before dispatch: authorization, readiness, start and skip.
ValidateDispatchEvent(m, e) ==
  LET u == m.unit[e.unit]
      s == StageOf(e.unit)
      retry == u.status = "failed" /\ e.retry
  IN \/ /\ e.type = "authorization.requested"
        /\ HumanApproval[s] = "always"
        /\ u.status = "pending" \/ retry
        /\ retry => AttemptLeft(m, e.unit)
     \/ e.type = "authorization.decided" /\ u.status = "awaiting-authorization"
     \/ /\ e.type = "unit.ready"
        /\ u.status = "pending" \/ retry
        /\ u.status = "pending" => HumanApproval[s] # "always"
        /\ retry => AttemptLeft(m, e.unit)
     \/ /\ e.type = "unit.started"
        /\ u.status = "ready"
        /\ AttemptLeft(m, e.unit)
     \/ /\ e.type = "unit.skipped"
        /\ u.status = "ready"
        /\ s \in Conditional
        /\ e.reason = "given"

\* After dispatch: claim, evidence, completion and failure.
ValidateResultEvent(m, e) ==
  LET u == m.unit[e.unit]
      s == StageOf(e.unit)
  IN \/ /\ e.type = "unit.claimed"
        /\ u.status = "running"
        /\ e.outputs = "conforming"
     \/ /\ e.type = "unit.awaiting-evidence"
        /\ u.status = "claimed"
        /\ RequiresEvidence[s] # {}
     \/ /\ e.type = "evidence.recorded"
        /\ u.status = "awaiting-evidence"
        /\ e.evidence \in RequiresEvidence[s]
        /\ e.evidence \notin u.recorded
        /\ e.accepted /\ e.evidence \in Schematic => e.matches
     \/ /\ e.type = "unit.completed"
        /\ \/ u.status = "claimed" /\ RequiresEvidence[s] = {}
           \/ u.status = "awaiting-evidence" /\ GatesAccepted(m, e.unit)
     \/ /\ e.type = "unit.failed"
        /\ u.status \in {"running", "claimed", "awaiting-evidence"}
        /\ e.reason = "given"

ValidateEvent(m, e) ==
  \/ e.type = "execution.created" /\ ~m.created
  \/ /\ m.created
     /\ \/ ValidateExecutionEvent(m, e)
        \/ /\ m.status = "running"
           /\ \/ ValidateStageEvent(m, e)
              \/ ValidateDispatchEvent(m, e)
              \/ ValidateResultEvent(m, e)

(***************************************************************************)
(* _apply_event.                                                           *)
(***************************************************************************)
SetUnit(m, r, u) == [m EXCEPT !.unit = [@ EXCEPT ![r] = u]]

SetUnitStatus(m, r, status) ==
  SetUnit(m, r, [m.unit[r] EXCEPT !.status = status])

\* The last attempt's outputs and evidence stay.
ResetUnit_Stale(u, status) == [u EXCEPT !.status = status]

\* The new attempt starts without the outputs and evidence of the last one.
ResetUnit(u, status) == [FreshUnit(status) EXCEPT !.attempts = u.attempts]

\* Forgets SKIPPED.
Finished_NotSkipped == {"completed", "failed"}

\* What cancellation leaves alone.
Finished == {"completed", "skipped", "failed"}

\* Leaves the units as they are.
ApplyCancel_StatusOnly(m) == [m EXCEPT !.status = "cancelled"]

ApplyCancel(m) ==
  [m EXCEPT
     !.status = "cancelled",
     !.unit = [r \in UnitRefs |->
                 IF m.unit[r].status \in Finished \cup {"absent"} THEN m.unit[r]
                 ELSE [m.unit[r] EXCEPT !.status = "cancelled"]]]

ApplyEvidence(u, e) ==
  [u EXCEPT !.recorded = @ \cup {e.evidence},
            !.accepted = IF e.accepted THEN @ \cup {e.evidence} ELSE @,
            !.matching = IF e.matches /\ e.evidence \in Schematic
                         THEN @ \cup {e.evidence} ELSE @]

ApplyEvent(m, e) ==
  CASE e.type = "execution.created"   -> [m EXCEPT !.created = TRUE, !.status = "created"]
    [] e.type = "execution.started"   -> [m EXCEPT !.status = "running"]
    [] e.type = "execution.succeeded" -> [m EXCEPT !.status = "succeeded"]
    [] e.type = "execution.failed"    -> [m EXCEPT !.status = "failed"]
    [] e.type = "execution.cancelled" -> ApplyCancel(m)
    [] e.type = "stage.sealed"        -> [m EXCEPT !.sealed = @ \cup {e.stage}]
    [] e.type = "unit.registered"     -> SetUnit(m, e.unit, FreshUnit("pending"))
    [] e.type = "authorization.requested" ->
         IF e.retry
         THEN SetUnit(m, e.unit, ResetUnit(m.unit[e.unit], "awaiting-authorization"))
         ELSE SetUnitStatus(m, e.unit, "awaiting-authorization")
    [] e.type = "authorization.decided" ->
         SetUnitStatus(m, e.unit, IF e.approved THEN "ready" ELSE "failed")
    [] e.type = "unit.ready"   -> SetUnit(m, e.unit, ResetUnit(m.unit[e.unit], "ready"))
    [] e.type = "unit.started" ->
         SetUnit(m, e.unit, [m.unit[e.unit] EXCEPT !.status = "running", !.attempts = @ + 1])
    [] e.type = "unit.claimed" ->
         SetUnit(m, e.unit, [m.unit[e.unit] EXCEPT !.status = "claimed", !.outputs = e.outputs])
    [] e.type = "unit.awaiting-evidence" -> SetUnitStatus(m, e.unit, "awaiting-evidence")
    [] e.type = "evidence.recorded" ->
         SetUnit(m, e.unit, ApplyEvidence(m.unit[e.unit], e))
    [] e.type = "unit.completed" -> SetUnitStatus(m, e.unit, "completed")
    [] e.type = "unit.skipped"   -> SetUnitStatus(m, e.unit, "skipped")
    [] e.type = "unit.failed"    -> SetUnitStatus(m, e.unit, "failed")

=============================================================================
