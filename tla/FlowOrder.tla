----------------------------- MODULE FlowOrder -----------------------------
(***************************************************************************)
(* The two worklist loops over the `needs` of a flow: _cycle_nodes, with   *)
(* which the loader rejects a cyclic flow, and topological_waves, with     *)
(* which the compiler orders an accepted one.  They answer the same        *)
(* question with different bookkeeping, and compile_plan relies on the     *)
(* loader's answer; a flow may also be built through the exported classes  *)
(* and compiled without the loader.                                        *)
(*                                                                         *)
(* The order of a worklist and the declaration order within a wave are     *)
(* left open: any stage of the worklist may be next, and a wave is a set.  *)
(* Stage ids are unique here (the loader rejects duplicates), as are the   *)
(* entries of a `needs` list (the schema demands it).                      *)
(***************************************************************************)
EXTENDS Naturals, FiniteSets, Sequences

CONSTANTS
  Ids,    \* what a `needs` entry may name
  Flows   \* flows: a record of the declared ids and the needs of each

ASSUME FlowAssumption ==
  \A f \in Flows :
    /\ f.stages \subseteq Ids /\ IsFiniteSet(f.stages)
    /\ f.needs \in [f.stages -> SUBSET Ids]
    /\ \A s \in f.stages : IsFiniteSet(f.needs[s])

VARIABLES
  flow,       \* the flow at hand
  validated,  \* whether it goes through the loader
  phase,      \* where the flow is between loading and a plan
  indegree,   \* the loops' counters of needs not yet met, stage by stage
  ready,      \* _cycle_nodes: the worklist
  visited,    \* _cycle_nodes: the stages taken from it
  cycle,      \* the stages that an error reports as being on a cycle
  remaining,  \* topological_waves: the stages in no wave so far
  waves       \* topological_waves: the waves so far

vars == <<flow, validated, phase, indegree, ready, visited, cycle, remaining, waves>>

Final == {"rejected", "ordered", "failed"}

(***************************************************************************)
(* The loader.                                                             *)
(***************************************************************************)
\* Counts needs that no stage declares as well.
LoaderIndegree_Unknown(f) == [s \in f.stages |-> Cardinality(f.needs[s])]

\* A need that no stage declares is skipped.
LoaderIndegree(f) == [s \in f.stages |-> Cardinality(f.needs[s] \cap f.stages)]

Init ==
  /\ flow \in Flows
  /\ validated \in BOOLEAN
  /\ phase = IF validated THEN "checking" ELSE "loaded"
  /\ indegree = LoaderIndegree(flow)
  /\ ready = {s \in flow.stages : indegree[s] = 0}
  /\ visited = {}
  /\ cycle = {}
  /\ remaining = {}
  /\ waves = <<>>

\* A round of the loop in _cycle_nodes; a dependent whose counter reaches
\* zero joins the worklist.
Visit(s) ==
  LET dependents == {t \in flow.stages : s \in flow.needs[t]}
  IN /\ phase = "checking"
     /\ s \in ready
     /\ visited' = visited \cup {s}
     /\ indegree' = [t \in flow.stages |->
                       IF t \in dependents THEN indegree[t] - 1 ELSE indegree[t]]
     /\ ready' = (ready \ {s}) \cup {t \in dependents : indegree'[t] = 0}
     /\ UNCHANGED <<flow, validated, phase, cycle, remaining, waves>>

\* Only the stage itself is looked for.
NeedsAreSound_NotItself(f) == \A s \in f.stages : s \notin f.needs[s]

\* semantic_issues: a need names another stage of the flow.
NeedsAreSound(f) == \A s \in f.stages : f.needs[s] \subseteq f.stages \ {s}

\* The end of _cycle_nodes and of the checks of the flow.
Conclude ==
  /\ phase = "checking"
  /\ ready = {}
  /\ cycle' = flow.stages \ visited
  /\ phase' = IF NeedsAreSound(flow) /\ cycle' = {} THEN "loaded" ELSE "rejected"
  /\ UNCHANGED <<flow, validated, indegree, ready, visited, remaining, waves>>

(***************************************************************************)
(* The compiler.                                                           *)
(***************************************************************************)
NeedsAreKnown(f) == \A s \in f.stages : f.needs[s] \subseteq f.stages

\* CompileError: depends on unknown stage.
UnknownNeed ==
  /\ phase = "loaded"
  /\ ~NeedsAreKnown(flow)
  /\ phase' = "failed"
  /\ UNCHANGED <<flow, validated, indegree, ready, visited, cycle, remaining, waves>>

\* Only stages on some edge.
StagesToOrder_OfEdges(f) ==
  {s \in f.stages : f.needs[s] # {} \/ \E t \in f.stages : s \in f.needs[t]}

StagesToOrder(f) == f.stages

BeginOrder ==
  /\ phase = "loaded"
  /\ NeedsAreKnown(flow)
  /\ phase' = "ordering"
  /\ indegree' = [s \in flow.stages |-> Cardinality(flow.needs[s])]
  /\ remaining' = StagesToOrder(flow)
  /\ UNCHANGED <<flow, validated, ready, visited, cycle, waves>>

\* One stage at a time.
ReadyIds_One ==
  LET free == {s \in remaining : indegree[s] = 0}
  IN {s \in free : s = CHOOSE t \in free : TRUE}

ReadyIds == {s \in remaining : indegree[s] = 0}

\* One of its needs in the wave is enough for a dependent.
Released_Any(t, wave) ==
  IF flow.needs[t] \cap wave # {} THEN 0 ELSE indegree[t]

\* The counter of t after a wave: one less for each need in it.
Released(t, wave) == indegree[t] - Cardinality(flow.needs[t] \cap wave)

\* A round of the loop in topological_waves.
NextWave ==
  /\ phase = "ordering"
  /\ ReadyIds # {}
  /\ waves' = Append(waves, ReadyIds)
  /\ remaining' = remaining \ ReadyIds
  /\ indegree' = [t \in flow.stages |-> Released(t, ReadyIds)]
  /\ UNCHANGED <<flow, validated, phase, ready, visited, cycle>>

\* The loop goes on with nothing ready.
Stuck_Waits ==
  /\ phase = "ordering"
  /\ remaining # {} /\ ReadyIds = {}
  /\ UNCHANGED vars

\* CompileError: dependency graph contains a cycle.
Stuck ==
  /\ phase = "ordering"
  /\ remaining # {} /\ ReadyIds = {}
  /\ cycle' = remaining
  /\ phase' = "failed"
  /\ UNCHANGED <<flow, validated, indegree, ready, visited, remaining, waves>>

Ordered ==
  /\ phase = "ordering"
  /\ remaining = {}
  /\ phase' = "ordered"
  /\ UNCHANGED <<flow, validated, indegree, ready, visited, cycle, remaining, waves>>

Next ==
  \/ \E s \in ready : Visit(s)
  \/ Conclude
  \/ UnknownNeed
  \/ BeginOrder
  \/ NextWave
  \/ Stuck
  \/ Ordered

Spec == Init /\ [][Next]_vars

\* Both functions run to their end.
FairSpec == Spec /\ WF_vars(Next)

(***************************************************************************)
(* Properties.                                                             *)
(***************************************************************************)
\* The shape of the state; no counter is decremented below zero.
TypeOK ==
  /\ validated \in BOOLEAN
  /\ phase \in {"checking", "loaded", "ordering"} \cup Final
  /\ indegree \in [flow.stages -> Nat]
  /\ ready \subseteq flow.stages
  /\ visited \subseteq flow.stages
  /\ cycle \subseteq flow.stages
  /\ remaining \subseteq flow.stages
  /\ waves \in Seq(SUBSET flow.stages)

\* Stages that can never be ordered: the largest set in which each stage
\* needs another one of the set.
Entangled(f) ==
  UNION {B \in SUBSET f.stages : \A s \in B : f.needs[s] \cap B # {}}

\* Loader and compiler find the same stages, and the right ones: what either
\* reports as a cycle is exactly what the needs entangle (_cycle_nodes and the
\* "blocked" stages of topological_waves).
CyclesAreReal ==
  \/ phase = "rejected"
  \/ phase = "failed" /\ NeedsAreKnown(flow)
  => cycle = Entangled(flow)

\* What the loader accepts compiles: topological_waves raises for no flow of a
\* pack that load_domain_pack has returned.
AcceptedCompiles == validated => phase # "failed"

\* A stage comes after everything it needs ("maximal ready waves").
WavesRespectNeeds ==
  \A k \in DOMAIN waves : \A s \in waves[k] :
    flow.needs[s] \subseteq UNION {waves[j] : j \in 1 .. k - 1}

\* A stage comes as early as its needs allow ("maximal ready waves").
WavesAreMaximal ==
  \A k \in DOMAIN waves : k > 1 =>
    \A s \in waves[k] : flow.needs[s] \cap waves[k - 1] # {}

\* The plan has every stage of the flow, once, and no empty wave.
PlanCoversFlow ==
  phase = "ordered" =>
    /\ UNION {waves[k] : k \in DOMAIN waves} = flow.stages
    /\ \A k \in DOMAIN waves : waves[k] # {}
    /\ \A j, k \in DOMAIN waves : j # k => waves[j] \cap waves[k] = {}

\* Both loops end, for every flow, cyclic or not.
EveryFlowIsDecided == <>(phase \in Final)

=============================================================================
