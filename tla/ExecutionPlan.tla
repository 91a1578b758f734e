--------------------------- MODULE ExecutionPlan ---------------------------
(***************************************************************************)
(* The compiled plan an execution runs: what ExecutionMachine reads from   *)
(* each CompiledStage.  A stage is a template; a work unit is a stage with *)
(* a unit key.  Texts, schemas and bindings are abstracted to what the     *)
(* transition kernel tells apart: whether a stage has a `when` condition,  *)
(* and whether an evidence contract carries a JSON Schema.                 *)
(***************************************************************************)
EXTENDS Naturals

CONSTANTS
  Stages,           \* ids of plan.stages
  Needs,            \* [Stages -> SUBSET Stages], the `needs` of a stage
  FanoutMode,       \* [Stages -> {"singleton", "each"}], fanout["mode"]
  HumanApproval,    \* [Stages -> {"never", "always"}], policy["humanApproval"]
  MaxAttempts,      \* [Stages -> 1, 2, ...], policy["maxAttempts"]
  Evidence,         \* ids of evidence contracts
  RequiresEvidence, \* [Stages -> SUBSET Evidence]
  Schematic,        \* evidence ids whose contract has a "schema"
  Conditional,      \* stages whose `when` is not None
  UnitKeys,         \* unit keys an adapter may register
  DefaultKey        \* SINGLETON_UNIT_KEY

ASSUME PlanAssumption ==
  /\ Needs \in [Stages -> SUBSET Stages]
  /\ FanoutMode \in [Stages -> {"singleton", "each"}]
  /\ HumanApproval \in [Stages -> {"never", "always"}]
  /\ MaxAttempts \in [Stages -> Nat \ {0}]
  /\ RequiresEvidence \in [Stages -> SUBSET Evidence]
  /\ Schematic \subseteq Evidence
  /\ Conditional \subseteq Stages
  /\ DefaultKey \in UnitKeys

\* UnitRef: a stage id and a unit key.
UnitRefs == Stages \X UnitKeys

RefsOf(s) == {s} \X UnitKeys

StageOf(r) == r[1]

\* A plan that the compiler lets through: it has stages, and among any of
\* them is one that needs none of the others (topological_waves).
CompiledPlan ==
  /\ Stages # {}
  /\ \A S \in SUBSET Stages : S # {} => \E s \in S : Needs[s] \cap S = {}

=============================================================================
