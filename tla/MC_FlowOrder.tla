---------------------------- MODULE MC_FlowOrder ----------------------------
(***************************************************************************)
(* All flows of up to MaxFlawed stages with any needs, unknown and own ids *)
(* included, and all flows of MaxStages stages with needs that are sound.  *)
(* A stage's id is its position; 0 is an id that no stage has.             *)
(***************************************************************************)
EXTENDS FlowOrder

CONSTANTS MaxStages, MaxFlawed

AnyFlows(n) == [stages : {1 .. n}, needs : [1 .. n -> SUBSET (0 .. n)]]

SoundFlows(n) ==
  {f \in [stages : {1 .. n}, needs : [1 .. n -> SUBSET (1 .. n)]] : NeedsAreSound(f)}

MCIds == 0 .. MaxStages
MCFlows == UNION {AnyFlows(n) : n \in 1 .. MaxFlawed} \cup SoundFlows(MaxStages)

=============================================================================
