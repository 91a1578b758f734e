------------------------ MODULE MC_ExecutionMachine ------------------------
(***************************************************************************)
(* One plan for the API: "draft" fans out, has two attempts and needs      *)
(* evidence; "publish", a singleton behind it, is authorized by a person,  *)
(* is conditional, has two attempts and no gate.                           *)
(***************************************************************************)
EXTENDS ExecutionMachine

\* The instance is a plan the compiler lets through.
ASSUME MCPlanIsCompiled == CompiledPlan

MCNeeds == [draft |-> {}, publish |-> {"draft"}]
MCPlanIndex == [draft |-> 1, publish |-> 2]
MCFanoutMode == [draft |-> "each", publish |-> "singleton"]
MCHumanApproval == [draft |-> "never", publish |-> "always"]
MCMaxAttempts == [draft |-> 2, publish |-> 2]
MCRequiresEvidence == [draft |-> {"shape"}, publish |-> {}]

=============================================================================
