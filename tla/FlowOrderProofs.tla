-------------------------- MODULE FlowOrderProofs --------------------------
(***************************************************************************)
(* Proofs about FlowOrder, for every set of flows: the counters of both    *)
(* loops count the needs that are still to be met, so that what a loop     *)
(* cannot get to is exactly what the needs entangle.                       *)
(***************************************************************************)
EXTENDS FlowOrder, TLAPS, FiniteSetTheorems, SequenceTheorems

(***************************************************************************)
(* The inductive invariant.                                                *)
(***************************************************************************)
Typed == flow \in Flows /\ TypeOK

Covered == UNION {waves[k] : k \in DOMAIN waves}

\* _cycle_nodes between two rounds.
Checking ==
  phase = "checking" =>
    /\ \A t \in flow.stages :
         indegree[t] = Cardinality((flow.needs[t] \cap flow.stages) \ visited)
    /\ \A t \in flow.stages : t \in ready \cup visited <=> indegree[t] = 0
    /\ ready \cap visited = {}
    /\ Entangled(flow) \cap visited = {}

\* What the loader has found out about a flow it accepts.
Accepted ==
  validated /\ phase \notin {"checking", "rejected"} =>
    NeedsAreSound(flow) /\ Entangled(flow) = {}

\* topological_waves between two rounds.
Ordering ==
  phase \in {"ordering", "ordered"} =>
    /\ NeedsAreKnown(flow)
    /\ \A t \in flow.stages : indegree[t] = Cardinality(flow.needs[t] \cap remaining)
    /\ Covered = flow.stages \ remaining
    /\ Entangled(flow) \subseteq remaining
    /\ waves # <<>> =>
         \A t \in remaining : flow.needs[t] \cap remaining = {} =>
           flow.needs[t] \cap waves[Len(waves)] # {}

\* The waves so far, in every phase.
WavesOK ==
  /\ phase \in {"checking", "loaded"} => waves = <<>>
  /\ WavesRespectNeeds
  /\ WavesAreMaximal
  /\ \A k \in DOMAIN waves : waves[k] # {}
  /\ \A j, k \in DOMAIN waves : j # k => waves[j] \cap waves[k] = {}
  /\ phase = "ordered" => remaining = {}

FlowInv ==
  /\ Typed
  /\ Checking
  /\ Accepted
  /\ Ordering
  /\ WavesOK
  /\ CyclesAreReal
  /\ AcceptedCompiles

(***************************************************************************)
(* Flows and what their needs entangle.                                    *)
(***************************************************************************)
LEMMA FlowFacts ==
  ASSUME NEW f \in Flows
  PROVE  /\ IsFiniteSet(f.stages)
         /\ \A s \in f.stages : IsFiniteSet(f.needs[s])
BY FlowAssumption

LEMMA CountZero ==
  ASSUME NEW S, IsFiniteSet(S)
  PROVE  /\ Cardinality(S) \in Nat
         /\ Cardinality(S) = 0 <=> S = {}
BY FS_EmptySet, FS_CardinalityType

LEMMA EntangledInside ==
  ASSUME NEW f
  PROVE  Entangled(f) \subseteq f.stages
BY DEF Entangled

LEMMA EntangledNeeds ==
  ASSUME NEW f, NEW s \in Entangled(f)
  PROVE  f.needs[s] \cap Entangled(f) # {}
<1>1. PICK B \in SUBSET f.stages : s \in B /\ \A t \in B : f.needs[t] \cap B # {}
  BY DEF Entangled
<1>2. B \subseteq Entangled(f)
  BY <1>1 DEF Entangled
<1> QED BY <1>1, <1>2

LEMMA EntangledLargest ==
  ASSUME NEW f, NEW B \in SUBSET f.stages,
         \A s \in B : f.needs[s] \cap B # {}
  PROVE  B \subseteq Entangled(f)
BY DEF Entangled

(***************************************************************************)
(* The steps of the loader.                                                *)
(***************************************************************************)
LEMMA LoaderCounts ==
  ASSUME NEW f \in Flows
  PROVE  /\ LoaderIndegree(f) \in [f.stages -> Nat]
         /\ \A t \in f.stages :
              LoaderIndegree(f)[t] = Cardinality(f.needs[t] \cap f.stages)
<1>1. ASSUME NEW t \in f.stages
      PROVE  Cardinality(f.needs[t] \cap f.stages) \in Nat
  BY FlowFacts, FS_Intersection, FS_CardinalityType
<1> QED BY <1>1 DEF LoaderIndegree

LEMMA InitInv == Init => FlowInv
<1> SUFFICES ASSUME Init PROVE FlowInv
  OBVIOUS
<1> USE DEF Init
<1>1. /\ indegree \in [flow.stages -> Nat]
      /\ \A t \in flow.stages : indegree[t] = Cardinality(flow.needs[t] \cap flow.stages)
  BY LoaderCounts
<1>2. waves = <<>> /\ waves \in Seq(SUBSET flow.stages) /\ DOMAIN waves = {}
  OBVIOUS
<1>3. Typed
  BY <1>1, <1>2 DEF Typed, TypeOK
<1>4. Checking
  <2>1. \A t \in flow.stages :
          (flow.needs[t] \cap flow.stages) \ visited = flow.needs[t] \cap flow.stages
    OBVIOUS
  <2> QED BY <1>1, <2>1 DEF Checking
<1>5. Accepted /\ Ordering /\ CyclesAreReal /\ AcceptedCompiles
  BY DEF Accepted, Ordering, CyclesAreReal, AcceptedCompiles
<1>6. WavesOK
  BY <1>2 DEF WavesOK, WavesRespectNeeds, WavesAreMaximal
<1> QED BY <1>3, <1>4, <1>5, <1>6 DEF FlowInv

\* A round of the loop: the counters of the dependents follow `visited`.
LEMMA VisitInv ==
  ASSUME FlowInv, NEW s \in ready, Visit(s)
  PROVE  FlowInv'
<1> USE DEF FlowInv
<1>1. /\ phase = "checking" /\ phase' = phase /\ flow' = flow /\ flow \in Flows
      /\ s \in flow.stages /\ s \notin visited
      /\ visited' = visited \cup {s}
      /\ waves' = waves /\ validated' = validated /\ remaining' = remaining
      /\ cycle' = cycle
  BY DEF Visit, Typed, TypeOK, Checking
<1> DEFINE unmet(t) == (flow.needs[t] \cap flow.stages) \ visited
           dependents == {t \in flow.stages : s \in flow.needs[t]}
<1>2. /\ ready \subseteq flow.stages /\ visited \subseteq flow.stages
      /\ indegree \in [flow.stages -> Nat]
      /\ \A t \in flow.stages : indegree[t] = Cardinality(unmet(t))
      /\ \A t \in flow.stages : t \in ready \cup visited <=> indegree[t] = 0
      /\ ready \cap visited = {}
      /\ Entangled(flow) \cap visited = {}
  BY <1>1 DEF Typed, TypeOK, Checking
<1>3. \A t \in flow.stages : IsFiniteSet(unmet(t))
  BY <1>1, FlowFacts, FS_Intersection, FS_Difference
<1>4. /\ indegree' = [t \in flow.stages |->
                        IF t \in dependents THEN indegree[t] - 1 ELSE indegree[t]]
      /\ ready' = (ready \ {s}) \cup {t \in dependents : indegree'[t] = 0}
  BY DEF Visit
<1>5. ASSUME NEW t \in flow.stages
      PROVE  /\ indegree'[t] = Cardinality(unmet(t) \ {s})
             /\ indegree'[t] \in Nat
             /\ t \in dependents => indegree[t] # 0
  <2>1. CASE t \in dependents
    <3>1. s \in unmet(t)
      BY <1>1, <2>1
    <3>2. /\ Cardinality(unmet(t) \ {s}) = Cardinality(unmet(t)) - 1
          /\ Cardinality(unmet(t) \ {s}) \in Nat
          /\ Cardinality(unmet(t)) # 0
      BY <1>3, <3>1, FS_RemoveElement, FS_CardinalityType, CountZero
    <3> QED BY <1>2, <1>4, <2>1, <3>2
  <2>2. CASE t \notin dependents
    <3>1. unmet(t) \ {s} = unmet(t)
      BY <2>2
    <3> QED BY <1>2, <1>4, <2>2, <3>1
  <2> QED BY <2>1, <2>2
<1>6. indegree' \in [flow.stages -> Nat]
  BY <1>4, <1>5
<1>7. Checking'
  <2>1. \A t \in flow.stages :
          indegree'[t] = Cardinality((flow.needs[t] \cap flow.stages) \ visited')
    <3>1. \A t \in flow.stages :
            unmet(t) \ {s} = (flow.needs[t] \cap flow.stages) \ visited'
      BY <1>1
    <3> QED BY <1>5, <3>1
  <2>2. \A t \in flow.stages : t \in ready' \cup visited' <=> indegree'[t] = 0
    <3> TAKE t \in flow.stages
    <3>1. CASE t \in dependents
      BY <1>1, <1>2, <1>4, <1>5, <3>1
    <3>2. CASE t \notin dependents
      BY <1>1, <1>2, <1>4, <1>5, <3>2
    <3> QED BY <3>1, <3>2
  <2>3. ready' \cap visited' = {}
    BY <1>1, <1>2, <1>4, <1>5
  <2>4. s \notin Entangled(flow)
    <3>1. unmet(s) = {}
      BY <1>1, <1>2, <1>3, CountZero
    <3> QED BY <3>1, <1>2, EntangledNeeds, EntangledInside
  <2> QED BY <1>1, <1>2, <2>1, <2>2, <2>3, <2>4 DEF Checking
<1>8. Typed'
  BY <1>1, <1>2, <1>4, <1>6 DEF Typed, TypeOK
<1>9. (Accepted /\ Ordering /\ CyclesAreReal /\ AcceptedCompiles)'
  BY <1>1 DEF Accepted, Ordering, CyclesAreReal, AcceptedCompiles
<1>10. WavesOK'
  BY <1>1 DEF WavesOK, WavesRespectNeeds, WavesAreMaximal
<1> QED BY <1>7, <1>8, <1>9, <1>10

\* The end of the loop: what it has not visited is what is entangled.
LEMMA ConcludeInv ==
  ASSUME FlowInv, Conclude
  PROVE  FlowInv'
<1> USE DEF FlowInv
<1>1. /\ phase = "checking" /\ ready = {} /\ flow \in Flows
      /\ phase' \in {"loaded", "rejected"}
      /\ phase' = "loaded" => NeedsAreSound(flow) /\ cycle' = {}
      /\ cycle' = flow.stages \ visited
      /\ flow' = flow /\ validated' = validated /\ indegree' = indegree
      /\ ready' = ready /\ visited' = visited /\ remaining' = remaining
      /\ waves' = waves
  BY DEF Conclude, Typed
<1>2. /\ visited \subseteq flow.stages
      /\ Entangled(flow) \cap visited = {}
      /\ \A t \in flow.stages :
           /\ indegree[t] = Cardinality((flow.needs[t] \cap flow.stages) \ visited)
           /\ t \in visited <=> indegree[t] = 0
  BY <1>1 DEF Typed, TypeOK, Checking
<1>3. cycle' = Entangled(flow)
  <2>1. ASSUME NEW t \in flow.stages \ visited
        PROVE  flow.needs[t] \cap (flow.stages \ visited) # {}
    <3>1. Cardinality((flow.needs[t] \cap flow.stages) \ visited) # 0
      BY <1>2
    <3>2. (flow.needs[t] \cap flow.stages) \ visited # {}
      BY <3>1, FS_EmptySet
    <3> QED BY <3>2
  <2>2. flow.stages \ visited \subseteq Entangled(flow)
    BY <2>1, EntangledLargest
  <2> QED BY <1>1, <1>2, <2>2, EntangledInside
<1>4. Typed'
  BY <1>1 DEF Typed, TypeOK, Final
<1>5. (Checking /\ Ordering)'
  BY <1>1 DEF Checking, Ordering
<1>6. (Accepted /\ CyclesAreReal /\ AcceptedCompiles)'
  BY <1>1, <1>3 DEF Accepted, CyclesAreReal, AcceptedCompiles, NeedsAreSound, Entangled
<1>7. WavesOK'
  BY <1>1 DEF WavesOK, WavesRespectNeeds, WavesAreMaximal
<1> QED BY <1>4, <1>5, <1>6, <1>7

(***************************************************************************)
(* The steps of the compiler.                                              *)
(***************************************************************************)
LEMMA UnknownNeedInv ==
  ASSUME FlowInv, UnknownNeed
  PROVE  FlowInv'
<1> USE DEF FlowInv
<1>1. /\ phase = "loaded" /\ phase' = "failed" /\ ~NeedsAreKnown(flow)
      /\ flow' = flow /\ validated' = validated /\ indegree' = indegree
      /\ ready' = ready /\ visited' = visited /\ cycle' = cycle
      /\ remaining' = remaining /\ waves' = waves
  BY DEF UnknownNeed
<1>2. ~validated
  BY <1>1 DEF Accepted, NeedsAreSound, NeedsAreKnown
<1>3. Typed'
  BY <1>1 DEF Typed, TypeOK, Final
<1>4. (Checking /\ Ordering /\ Accepted /\ AcceptedCompiles)'
  BY <1>1, <1>2 DEF Checking, Ordering, Accepted, AcceptedCompiles
<1>5. CyclesAreReal'
  BY <1>1 DEF CyclesAreReal, NeedsAreKnown
<1>6. WavesOK'
  BY <1>1 DEF WavesOK, WavesRespectNeeds, WavesAreMaximal
<1> QED BY <1>3, <1>4, <1>5, <1>6

LEMMA BeginOrderInv ==
  ASSUME FlowInv, BeginOrder
  PROVE  FlowInv'
<1> USE DEF FlowInv
<1>1. /\ phase = "loaded" /\ phase' = "ordering" /\ NeedsAreKnown(flow)
      /\ indegree' = [s \in flow.stages |-> Cardinality(flow.needs[s])]
      /\ remaining' = flow.stages
      /\ flow' = flow /\ validated' = validated /\ flow \in Flows
      /\ ready' = ready /\ visited' = visited /\ cycle' = cycle /\ waves' = waves
      /\ waves = <<>>
  BY DEF BeginOrder, StagesToOrder, Typed, WavesOK
<1>2. ASSUME NEW t \in flow.stages
      PROVE  /\ indegree'[t] = Cardinality(flow.needs[t] \cap remaining')
             /\ indegree'[t] \in Nat
  <2>1. flow.needs[t] \cap remaining' = flow.needs[t]
    BY <1>1 DEF NeedsAreKnown
  <2> QED BY <1>1, <2>1, FlowFacts, CountZero
<1>3. Typed'
  BY <1>1, <1>2 DEF Typed, TypeOK
<1>4. Ordering'
  <2>1. Covered = {}
    BY <1>1 DEF Covered
  <2>2. Covered' = Covered
    BY <1>1 DEF Covered
  <2>3. NeedsAreKnown(flow)'
    BY <1>1 DEF NeedsAreKnown
  <2>4. Entangled(flow)' \subseteq remaining'
    BY <1>1, EntangledInside
  <2> QED BY <1>1, <1>2, <2>1, <2>2, <2>3, <2>4 DEF Ordering
<1>5. (Checking /\ AcceptedCompiles /\ CyclesAreReal)'
  BY <1>1 DEF Checking, AcceptedCompiles, CyclesAreReal
<1>6. Accepted'
  BY <1>1 DEF Accepted, NeedsAreSound, Entangled
<1>7. WavesOK'
  BY <1>1 DEF WavesOK, WavesRespectNeeds, WavesAreMaximal
<1> QED BY <1>3, <1>4, <1>5, <1>6, <1>7

\* Nothing is ready for a stage but what needs nothing that remains.
LEMMA ReadyFacts ==
  ASSUME FlowInv, phase = "ordering"
  PROVE  /\ flow \in Flows /\ remaining \subseteq flow.stages
         /\ ReadyIds = {s \in remaining : flow.needs[s] \cap remaining = {}}
<1>1. /\ flow \in Flows /\ remaining \subseteq flow.stages
      /\ \A t \in flow.stages : indegree[t] = Cardinality(flow.needs[t] \cap remaining)
  BY DEF FlowInv, Typed, TypeOK, Ordering
<1>2. \A t \in flow.stages :
        IsFiniteSet(flow.needs[t] \cap remaining)
  BY <1>1, FlowFacts, FS_Intersection
<1>3. \A t \in flow.stages : indegree[t] = 0 <=> flow.needs[t] \cap remaining = {}
  BY <1>1, <1>2, CountZero
<1> QED BY <1>1, <1>3 DEF ReadyIds

\* A round of the loop: the stages that are ready become a wave, and the
\* counters of the others lose what they needed of it.
LEMMA NextWaveInv ==
  ASSUME FlowInv, NextWave
  PROVE  FlowInv'
<1> USE DEF FlowInv
<1> DEFINE wave == ReadyIds
           n == Len(waves)
<1>1. /\ phase = "ordering" /\ phase' = phase /\ wave # {}
      /\ waves' = Append(waves, wave)
      /\ remaining' = remaining \ wave
      /\ indegree' = [t \in flow.stages |-> Released(t, wave)]
      /\ flow' = flow /\ validated' = validated
      /\ ready' = ready /\ visited' = visited /\ cycle' = cycle
  BY DEF NextWave
<1>2. /\ flow \in Flows /\ remaining \subseteq flow.stages
      /\ wave = {s \in remaining : flow.needs[s] \cap remaining = {}}
  BY <1>1, ReadyFacts
<1>3. /\ NeedsAreKnown(flow)
      /\ \A t \in flow.stages : indegree[t] = Cardinality(flow.needs[t] \cap remaining)
      /\ Covered = flow.stages \ remaining
      /\ Entangled(flow) \subseteq remaining
      /\ waves # <<>> =>
           \A t \in remaining : flow.needs[t] \cap remaining = {} =>
             flow.needs[t] \cap waves[n] # {}
  BY <1>1 DEF Ordering
<1> HIDE DEF wave
<1>4. waves \in Seq(SUBSET flow.stages) /\ wave \in SUBSET flow.stages
  BY <1>2 DEF Typed, TypeOK
<1>5. /\ n \in Nat /\ DOMAIN waves = 1 .. n
      /\ waves' \in Seq(SUBSET flow.stages)
      /\ DOMAIN waves' = 1 .. n + 1
      /\ \A k \in 1 .. n : waves'[k] = waves[k]
      /\ waves'[n + 1] = wave
      /\ Len(waves') = n + 1
  BY <1>1, <1>4, AppendProperties, LenProperties
<1> HIDE DEF n
<1>6. ASSUME NEW t \in flow.stages
      PROVE  /\ indegree'[t] = Cardinality(flow.needs[t] \cap remaining')
             /\ indegree'[t] \in Nat
  <2> DEFINE unmet == flow.needs[t] \cap remaining
  <2>1. IsFiniteSet(unmet)
    BY <1>2, FlowFacts, FS_Intersection
  <2>2. /\ IsFiniteSet(unmet \ wave)
        /\ Cardinality(unmet \ wave) = Cardinality(unmet) - Cardinality(unmet \cap wave)
    BY <2>1, FS_Difference
  <2>3. /\ unmet \cap wave = flow.needs[t] \cap wave
        /\ unmet \ wave = flow.needs[t] \cap remaining'
    BY <1>1, <1>2
  <2>4. indegree'[t] = Cardinality(unmet) - Cardinality(flow.needs[t] \cap wave)
    BY <1>1, <1>3 DEF Released
  <2> QED BY <2>2, <2>3, <2>4, CountZero
<1>7. Typed'
  BY <1>1, <1>2, <1>4, <1>5, <1>6 DEF Typed, TypeOK
<1>8. Covered' = Covered \cup wave
  BY <1>5 DEF Covered
<1>9. Ordering'
  <2>1. Covered' = flow.stages \ remaining'
    BY <1>1, <1>2, <1>3, <1>8
  <2>2. Entangled(flow) \subseteq remaining'
    <3>1. ASSUME NEW s \in Entangled(flow), s \in wave
          PROVE  FALSE
      BY <1>2, <1>3, <3>1, EntangledNeeds
    <3> QED BY <1>1, <1>3, <3>1
  <2>3. ASSUME NEW t \in remaining', flow.needs[t] \cap remaining' = {}
        PROVE  flow.needs[t] \cap waves'[n + 1] # {}
    BY <1>1, <1>2, <1>5, <2>3
  <2>4. NeedsAreKnown(flow)'
    BY <1>1, <1>3 DEF NeedsAreKnown
  <2>5. (\A t \in flow.stages : indegree[t] = Cardinality(flow.needs[t] \cap remaining))'
    BY <1>1, <1>6
  <2>6. waves'[Len(waves')] = waves'[n + 1]
    BY <1>5
  <2> QED BY <1>1, <2>1, <2>2, <2>3, <2>4, <2>5, <2>6 DEF Ordering
<1>10. (Checking /\ AcceptedCompiles /\ CyclesAreReal)'
  BY <1>1 DEF Checking, AcceptedCompiles, CyclesAreReal, Typed, TypeOK
<1>11. Accepted'
  BY <1>1 DEF Accepted, NeedsAreSound, Entangled
<1>12. WavesRespectNeeds'
  <2> SUFFICES ASSUME NEW k \in 1 .. n + 1, NEW s \in waves'[k]
               PROVE  flow.needs[s] \subseteq UNION {waves'[j] : j \in 1 .. k - 1}
    BY <1>1, <1>5 DEF WavesRespectNeeds
  <2>1. CASE k \in 1 .. n
    <3>1. \A j \in 1 .. k - 1 : waves'[j] = waves[j]
      BY <1>5, <2>1
    <3>2. flow.needs[s] \subseteq UNION {waves[j] : j \in 1 .. k - 1}
      BY <1>5, <2>1 DEF WavesOK, WavesRespectNeeds
    <3> QED BY <3>1, <3>2
  <2>2. CASE k = n + 1
    <3>1. s \in wave
      BY <1>5, <2>2
    <3>2. s \in flow.stages /\ flow.needs[s] \cap remaining = {}
      BY <1>2, <3>1
    <3>3. flow.needs[s] \subseteq flow.stages
      BY <1>3, <3>2 DEF NeedsAreKnown
    <3>4. flow.needs[s] \subseteq Covered
      BY <1>3, <3>2, <3>3
    <3>5. Covered = UNION {waves'[j] : j \in 1 .. n}
      BY <1>5 DEF Covered
    <3>6. 1 .. k - 1 = 1 .. n
      BY <1>5, <2>2
    <3> QED BY <3>4, <3>5, <3>6
  <2> QED BY <1>5, <2>1, <2>2
<1>13. WavesAreMaximal'
  <2> SUFFICES ASSUME NEW k \in 1 .. n + 1, k > 1, NEW s \in waves'[k]
               PROVE  flow.needs[s] \cap waves'[k - 1] # {}
    BY <1>1, <1>5 DEF WavesAreMaximal
  <2>1. k - 1 \in 1 .. n /\ waves'[k - 1] = waves[k - 1]
    BY <1>5
  <2>2. CASE k \in 1 .. n
    BY <1>5, <2>1, <2>2 DEF WavesOK, WavesAreMaximal
  <2>3. CASE k = n + 1
    <3>1. s \in wave /\ k - 1 = n /\ waves # <<>>
      BY <1>4, <1>5, <2>1, <2>3
    <3> QED BY <1>2, <1>3, <2>1, <3>1
  <2> QED BY <1>5, <2>2, <2>3
<1>14. \A k \in DOMAIN waves' : waves'[k] # {}
  BY <1>1, <1>5 DEF WavesOK
<1>15. ASSUME NEW j \in DOMAIN waves', NEW k \in DOMAIN waves', j # k
       PROVE  waves'[j] \cap waves'[k] = {}
  <2>1. \A i \in 1 .. n : waves[i] \cap wave = {}
    <3>1. \A i \in 1 .. n : waves[i] \subseteq Covered
      BY <1>5 DEF Covered
    <3> QED BY <1>2, <1>3, <3>1
  <2>2. \A i, l \in 1 .. n : i # l => waves[i] \cap waves[l] = {}
    BY <1>5 DEF WavesOK
  <2>3. CASE j \in 1 .. n /\ k \in 1 .. n
    BY <1>5, <1>15, <2>2, <2>3
  <2>4. CASE j = n + 1 \/ k = n + 1
    BY <1>5, <1>15, <2>1, <2>4
  <2> QED BY <1>5, <2>3, <2>4
<1>16. WavesOK'
  BY <1>1, <1>12, <1>13, <1>14, <1>15 DEF WavesOK
<1> QED BY <1>7, <1>9, <1>10, <1>11, <1>16

\* With nothing ready, what remains is what is entangled.
LEMMA StuckInv ==
  ASSUME FlowInv, Stuck
  PROVE  FlowInv'
<1> USE DEF FlowInv
<1>1. /\ phase = "ordering" /\ phase' = "failed"
      /\ remaining # {} /\ ReadyIds = {} /\ cycle' = remaining
      /\ flow' = flow /\ validated' = validated /\ indegree' = indegree
      /\ ready' = ready /\ visited' = visited /\ remaining' = remaining
      /\ waves' = waves
  BY DEF Stuck
<1>2. remaining = Entangled(flow)
  <2>1. \A s \in remaining : flow.needs[s] \cap remaining # {}
    BY <1>1, ReadyFacts
  <2>2. remaining \subseteq Entangled(flow)
    BY <1>1, <2>1, ReadyFacts, EntangledLargest
  <2>3. Entangled(flow) \subseteq remaining
    BY <1>1 DEF Ordering
  <2> QED BY <2>2, <2>3
<1>3. ~validated
  BY <1>1, <1>2 DEF Accepted
<1>4. Typed'
  BY <1>1 DEF Typed, TypeOK, Final
<1>5. (Checking /\ Ordering /\ Accepted /\ AcceptedCompiles)'
  BY <1>1, <1>3 DEF Checking, Ordering, Accepted, AcceptedCompiles
<1>6. CyclesAreReal'
  BY <1>1, <1>2 DEF CyclesAreReal
<1>7. WavesOK'
  BY <1>1 DEF WavesOK, WavesRespectNeeds, WavesAreMaximal
<1> QED BY <1>4, <1>5, <1>6, <1>7

LEMMA OrderedInv ==
  ASSUME FlowInv, Ordered
  PROVE  FlowInv'
<1> USE DEF FlowInv
<1>1. /\ phase = "ordering" /\ phase' = "ordered" /\ remaining = {}
      /\ flow' = flow /\ validated' = validated /\ indegree' = indegree
      /\ ready' = ready /\ visited' = visited /\ cycle' = cycle
      /\ remaining' = remaining /\ waves' = waves
  BY DEF Ordered
<1>2. Typed'
  BY <1>1 DEF Typed, TypeOK, Final
<1>3. (Checking /\ Accepted /\ AcceptedCompiles /\ CyclesAreReal)'
  BY <1>1 DEF Checking, Accepted, AcceptedCompiles, CyclesAreReal, NeedsAreSound, Entangled
<1>4. Ordering'
  BY <1>1 DEF Ordering, Covered, NeedsAreKnown, Entangled
<1>5. WavesOK'
  BY <1>1 DEF WavesOK, WavesRespectNeeds, WavesAreMaximal
<1> QED BY <1>2, <1>3, <1>4, <1>5

LEMMA StutterInv ==
  ASSUME FlowInv, UNCHANGED vars
  PROVE  FlowInv'
<1> USE DEF vars, FlowInv
<1>1. Typed'
  BY DEF Typed, TypeOK
<1>2. Checking' /\ Ordering'
  <2>1. Covered' = Covered
    BY DEF Covered
  <2> QED BY <2>1 DEF Checking, Ordering, NeedsAreKnown
<1>3. Accepted' /\ CyclesAreReal' /\ AcceptedCompiles'
  BY DEF Accepted, CyclesAreReal, AcceptedCompiles, NeedsAreSound, NeedsAreKnown
<1>4. WavesOK'
  BY DEF WavesOK, WavesRespectNeeds, WavesAreMaximal
<1> QED BY <1>1, <1>2, <1>3, <1>4

(***************************************************************************)
(* The theorems.                                                           *)
(***************************************************************************)
\* FlowInv holds in every state of the two loops, whatever the flows are.
THEOREM FlowInductive == Spec => []FlowInv
<1>1. Init => FlowInv
  BY InitInv
<1>2. FlowInv /\ [Next]_vars => FlowInv'
  <2> SUFFICES ASSUME FlowInv, [Next]_vars PROVE FlowInv'
    OBVIOUS
  <2>1. ASSUME NEW s \in ready, Visit(s) PROVE FlowInv'
    BY <2>1, VisitInv
  <2>2. CASE Conclude
    BY <2>2, ConcludeInv
  <2>3. CASE UnknownNeed
    BY <2>3, UnknownNeedInv
  <2>4. CASE BeginOrder
    BY <2>4, BeginOrderInv
  <2>5. CASE NextWave
    BY <2>5, NextWaveInv
  <2>6. CASE Stuck
    BY <2>6, StuckInv
  <2>7. CASE Ordered
    BY <2>7, OrderedInv
  <2>8. CASE UNCHANGED vars
    BY <2>8, StutterInv
  <2> QED BY <2>1, <2>2, <2>3, <2>4, <2>5, <2>6, <2>7, <2>8 DEF Next
<1> QED BY <1>1, <1>2, PTL DEF Spec

\* The state keeps its types: no counter of needs goes below zero, in either
\* loop (_cycle_nodes, topological_waves).
THEOREM FlowTypeCorrect == Spec => []TypeOK
<1>1. FlowInv => TypeOK
  BY DEF FlowInv, Typed
<1> QED BY <1>1, FlowInductive, PTL

\* Loader and compiler report exactly the stages that the needs entangle
\* (_cycle_nodes, and the blocked stages of topological_waves).
THEOREM ReportedCyclesAreReal == Spec => []CyclesAreReal
<1>1. FlowInv => CyclesAreReal
  BY DEF FlowInv
<1> QED BY <1>1, FlowInductive, PTL

\* A flow that the loader has accepted compiles (semantic_issues,
\* topological_waves).
THEOREM AcceptedFlowsCompile == Spec => []AcceptedCompiles
<1>1. FlowInv => AcceptedCompiles
  BY DEF FlowInv
<1> QED BY <1>1, FlowInductive, PTL

\* No stage is in a wave before or with something it needs
\* (topological_waves).
THEOREM WavesAreInOrder == Spec => []WavesRespectNeeds
<1>1. FlowInv => WavesRespectNeeds
  BY DEF FlowInv, WavesOK
<1> QED BY <1>1, FlowInductive, PTL

\* No stage is in a later wave than its needs demand (topological_waves).
THEOREM WavesAreEarly == Spec => []WavesAreMaximal
<1>1. FlowInv => WavesAreMaximal
  BY DEF FlowInv, WavesOK
<1> QED BY <1>1, FlowInductive, PTL

\* The waves partition the stages of the flow (topological_waves).
THEOREM PlansAreComplete == Spec => []PlanCoversFlow
<1>1. FlowInv => PlanCoversFlow
  BY DEF FlowInv, WavesOK, Ordering, Covered, PlanCoversFlow
<1> QED BY <1>1, FlowInductive, PTL

(***************************************************************************)
(* Both loops end: each step brings the number of steps that are left down.*)
(***************************************************************************)
StepsLeft ==
  CASE phase = "checking" ->
         Cardinality(flow.stages \ visited) + Cardinality(flow.stages) + 3
    [] phase = "loaded" -> Cardinality(flow.stages) + 2
    [] phase = "ordering" -> Cardinality(remaining) + 1
    [] OTHER -> 0

\* Each step is one of so many.
StepsRunOut == StepsLeft \in Nat /\ StepsLeft' \in Nat /\ StepsLeft' < StepsLeft

\* A proper part of a finite set has fewer elements.
LEMMA FewerLeft ==
  ASSUME NEW S, IsFiniteSet(S), NEW T, T \subseteq S, T # S
  PROVE  Cardinality(T) \in Nat /\ Cardinality(S) \in Nat /\ Cardinality(T) < Cardinality(S)
<1>1. IsFiniteSet(T) /\ Cardinality(T) <= Cardinality(S)
  BY FS_Subset
<1>2. Cardinality(T) # Cardinality(S)
  BY FS_Subset
<1> QED BY <1>1, <1>2, FS_CardinalityType

\* How many steps are left, phase by phase ...
LEMMA StepsLeftOf ==
  /\ phase = "checking" =>
       StepsLeft = Cardinality(flow.stages \ visited) + Cardinality(flow.stages) + 3
  /\ phase = "loaded" => StepsLeft = Cardinality(flow.stages) + 2
  /\ phase = "ordering" => StepsLeft = Cardinality(remaining) + 1
  /\ phase \in Final => StepsLeft = 0
BY DEF StepsLeft, Final

\* ... and how many after a step.
LEMMA StepsLeftThen ==
  /\ phase' = "checking" =>
       StepsLeft' = Cardinality(flow'.stages \ visited') + Cardinality(flow'.stages) + 3
  /\ phase' = "loaded" => StepsLeft' = Cardinality(flow'.stages) + 2
  /\ phase' = "ordering" => StepsLeft' = Cardinality(remaining') + 1
  /\ phase' \in Final => StepsLeft' = 0
BY DEF StepsLeft, Final

\* Visiting a stage, or ordering a wave, takes it out of the stages that are left;
\* every other step ends a phase.
LEMMA EachStepCounts ==
  ASSUME FlowInv, Next
  PROVE  StepsRunOut
<1>1. /\ IsFiniteSet(flow.stages) /\ Cardinality(flow.stages) \in Nat
      /\ remaining \subseteq flow.stages /\ flow' = flow
  BY FlowFacts, FS_CardinalityType
  DEF FlowInv, Typed, TypeOK, Next, Visit, Conclude, UnknownNeed, BeginOrder, NextWave,
      Stuck, Ordered
<1>2. IsFiniteSet(flow.stages \ visited) /\ Cardinality(flow.stages \ visited) \in Nat
  BY <1>1, FS_Subset, FS_CardinalityType
<1>3. IsFiniteSet(remaining) /\ Cardinality(remaining) \in Nat
  BY <1>1, FS_Subset, FS_CardinalityType
<1>4. ASSUME NEW s \in ready, Visit(s)  PROVE StepsRunOut
  <2>1. phase = "checking" /\ phase' = "checking" /\ visited' = visited \cup {s}
    BY <1>4 DEF Visit
  <2>2. s \in flow.stages \ visited
    BY <2>1 DEF FlowInv, Typed, TypeOK, Checking
  <2>3. /\ Cardinality(flow.stages \ visited') \in Nat
        /\ Cardinality(flow.stages \ visited') < Cardinality(flow.stages \ visited)
    <3>1. /\ flow.stages \ visited' \subseteq flow.stages \ visited
          /\ flow.stages \ visited' # flow.stages \ visited
      BY <2>1, <2>2
    <3> QED BY <1>2, <3>1, FewerLeft
  <2> QED BY <1>1, <1>2, <2>1, <2>3, StepsLeftOf, StepsLeftThen DEF StepsRunOut
<1>5. CASE Conclude
  <2>1. phase = "checking" /\ phase' \in {"loaded", "rejected"}
    BY <1>5 DEF Conclude
  <2> QED BY <1>1, <1>2, <2>1, StepsLeftOf, StepsLeftThen DEF StepsRunOut, Final
<1>6. CASE UnknownNeed
  BY <1>1, <1>6, StepsLeftOf, StepsLeftThen DEF UnknownNeed, StepsRunOut, Final
<1>7. CASE BeginOrder
  BY <1>1, <1>7, StepsLeftOf, StepsLeftThen DEF BeginOrder, StagesToOrder, StepsRunOut
<1>8. CASE NextWave
  <2>1. phase = "ordering" /\ phase' = "ordering"
        /\ remaining' \subseteq remaining /\ remaining' # remaining
    BY <1>8 DEF NextWave, ReadyIds
  <2>2. Cardinality(remaining') \in Nat /\ Cardinality(remaining') < Cardinality(remaining)
    BY <1>3, <2>1, FewerLeft
  <2> QED BY <1>3, <2>1, <2>2, StepsLeftOf, StepsLeftThen DEF StepsRunOut
<1>9. CASE Stuck \/ Ordered
  BY <1>3, <1>9, StepsLeftOf, StepsLeftThen DEF Stuck, Ordered, StepsRunOut, Final
<1> QED BY <1>4, <1>5, <1>6, <1>7, <1>8, <1>9 DEF Next

\* The loops of _cycle_nodes and topological_waves take no stage twice: for
\* every flow, whatever its cycles are, loading and compiling it takes at most
\* two rounds for each stage and three steps.
THEOREM LoopsRunOut == Spec => [][StepsRunOut]_vars
<1>1. FlowInv /\ [Next]_vars => [StepsRunOut]_vars
  BY EachStepCounts
<1> QED BY <1>1, FlowInductive, PTL DEF Spec

=============================================================================
