-------------------------- MODULE MC_LoggedMachine --------------------------
(***************************************************************************)
(* Two singletons: "draft" with two attempts and evidence, and "publish"   *)
(* behind it, authorized by a person, with one attempt.                    *)
(***************************************************************************)
EXTENDS LoggedMachine

MCNeeds == [draft |-> {}, publish |-> {"draft"}]
MCPlanIndex == [draft |-> 2, publish |-> 2]
MCFanoutMode == [s \in Stages |-> "singleton"]
MCHumanApproval == [draft |-> "never", publish |-> "always"]
MCMaxAttempts == [draft |-> 2, publish |-> 1]
MCRequiresEvidence == [draft |-> {"shape"}, publish |-> {}]

=============================================================================
