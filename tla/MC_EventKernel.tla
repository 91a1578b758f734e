--------------------------- MODULE MC_EventKernel ---------------------------
(***************************************************************************)
(* A plan of three stages in a chain.  "brief" is a conditional singleton  *)
(* with one attempt and no gate; "draft" fans out over two unit keys, may  *)
(* be retried and must show evidence against a schema; "publish" is a      *)
(* singleton that a person authorizes, may be retried, and is gated by two *)
(* evidence contracts of which one has no schema.                          *)
(***************************************************************************)
EXTENDS EventKernel

MCNeeds == [brief |-> {}, draft |-> {"brief"}, publish |-> {"draft"}]
MCFanoutMode ==
  [brief |-> "singleton", draft |-> "each", publish |-> "singleton"]
MCHumanApproval == [brief |-> "never", draft |-> "never", publish |-> "always"]
MCMaxAttempts == [brief |-> 1, draft |-> 2, publish |-> 2]
MCRequiresEvidence ==
  [brief |-> {}, draft |-> {"shape"}, publish |-> {"shape", "note"}]

=============================================================================
