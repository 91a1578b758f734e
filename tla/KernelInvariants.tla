-------------------------- MODULE KernelInvariants --------------------------
(***************************************************************************)
(* What is true of one machine, stated of its state alone, so that it can  *)
(* be said of the machine a replay reaches (EventKernel) and of every      *)
(* machine object of a running system (ExecutionMachine).                  *)
(***************************************************************************)
EXTENDS KernelEvents

Terminal == {"succeeded", "failed", "cancelled"}

\* No stage has a unit before every stage it needs is sealed and satisfied
\* (needs is a barrier, also across retries, skips and cancellation).
BarrierOf(m) == \A s \in Stages : GroupUnits(m, s) # {} => DependenciesSatisfied(m, s)

\* A sealed stage has work in it, and a singleton stage has exactly its
\* default unit (so a sealed stage is never satisfied vacuously).
SealedOf(m) ==
  \A s \in Stages :
    /\ s \in m.sealed => GroupUnits(m, s) # {}
    /\ FanoutMode[s] = "singleton" => GroupUnits(m, s) \subseteq {<<s, DefaultKey>>}

\* A completed unit was started, its outputs satisfy the capability's output
\* schema, every evidence id its stage requires has an accepted receipt, and
\* each receipt whose contract has a schema satisfies it.
CompletedIsProvenOf(m) ==
  \A r \in UnitRefs : m.unit[r].status = "completed" =>
    /\ m.unit[r].attempts > 0
    /\ m.unit[r].outputs = "conforming"
    /\ RequiresEvidence[StageOf(r)] \subseteq m.unit[r].accepted
    /\ RequiresEvidence[StageOf(r)] \cap Schematic \subseteq m.unit[r].matching

\* maxAttempts bounds the starts of a unit, and a unit on its way to a start
\* always has one left: start_unit's and unit.started's "exhausted" refusal
\* can never strand a unit that was made ready.
RetryBudgetOf(m) ==
  \A r \in UnitRefs :
    /\ m.unit[r].attempts <= MaxAttempts[StageOf(r)]
    /\ m.unit[r].status \in {"pending", "awaiting-authorization", "ready"} =>
         m.unit[r].attempts < MaxAttempts[StageOf(r)]

\* No attempt inherits the outputs or evidence of an earlier one, and the
\* evidence of the current one is only what its stage requires.
FreshAttemptOf(m) ==
  \A r \in UnitRefs :
    /\ m.unit[r].status \in {"pending", "awaiting-authorization", "ready", "running"} =>
         m.unit[r].outputs = "empty"
    /\ m.unit[r].recorded # {} =>
         m.unit[r].status \in {"awaiting-evidence", "completed", "failed", "cancelled"}
    /\ m.unit[r].accepted \cup m.unit[r].matching \subseteq m.unit[r].recorded
    /\ m.unit[r].recorded \subseteq RequiresEvidence[StageOf(r)]

\* The outcome of an execution is the outcome of its units: it succeeds only
\* with every unit of every stage satisfied, it fails only with a failed
\* unit, and cancellation leaves no live unit and is their only end
\* "cancelled".  Before the start there is no unit at all.
OutcomeOf(m) ==
  /\ m.status = "succeeded" => AllWorkSatisfied(m)
  /\ m.status = "failed" => \E r \in UnitRefs : m.unit[r].status = "failed"
  /\ m.status = "created" => \A r \in UnitRefs : m.unit[r] = FreshUnit("absent")
  /\ IF m.status = "cancelled"
     THEN \A r \in UnitRefs :
            m.unit[r].status \in Finished \cup {"absent", "cancelled"}
     ELSE \A r \in UnitRefs : m.unit[r].status # "cancelled"

=============================================================================
