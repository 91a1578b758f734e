------------------------------ MODULE MC_Races ------------------------------
(***************************************************************************)
(* Two machines on one execution.  "draft" is a singleton with evidence,   *)
(* "publish" behind it is authorized by a person and is conditional.       *)
(***************************************************************************)
EXTENDS ExecutionMachine, TLC

CONSTANTS p1, p2

\* The processes are alike.
ProcSymmetry == Permutations(Procs)

MCNeeds == [draft |-> {}, publish |-> {"draft"}]
MCPlanIndex == [draft |-> 1, publish |-> 2]
MCFanoutMode == [s \in Stages |-> "singleton"]
MCHumanApproval == [draft |-> "never", publish |-> "always"]
MCMaxAttempts == [draft |-> 2, publish |-> 1]
MCRequiresEvidence == [draft |-> {"shape"}, publish |-> {}]

=============================================================================
