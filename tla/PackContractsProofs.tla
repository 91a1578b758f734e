------------------------ MODULE PackContractsProofs ------------------------
(***************************************************************************)
(* For every set of packs and requests: what the loader has checked is     *)
(* enough for every lookup of the compiler, and a compiled plan has what   *)
(* the contracts of its stages demand.                                     *)
(***************************************************************************)
EXTENDS PackContracts, TLAPS

(***************************************************************************)
(* The inductive invariant: what each phase has established.               *)
(***************************************************************************)
Phases == {"load", "structure", "semantics", "accepted", "compile", "emit",
           "open", "write", "ended"}

\* What is known of the pack.
Established ==
  /\ pack \in Packs
  /\ phase \in {"structure", "semantics", "accepted", "compile", "emit"} => file = "yaml"
  /\ phase \in {"semantics", "accepted", "compile", "emit"} => Conforms(pack)
  /\ phase \in {"accepted", "compile", "emit"} => SemanticallySound(pack)

\* What is known of the flow that is compiled, and of its plan.
Compiling ==
  /\ phase \in {"compile", "emit"} =>
       request.command = "compile" /\ chosen \in IdsOf(pack.flows)
  /\ phase \in {"open", "write"} =>
       /\ request.out # "none"
       /\ IF request.command = "schema" THEN plan = {} ELSE plan # {} /\ HasJson
  /\ plan # {} => phase \in {"emit", "open", "write", "ended"}
  /\ phase = "emit" \/ plan # {} =>
       /\ Accepted
       /\ chosen \in IdsOf(pack.flows)
       /\ plan # {}
       /\ plan = {CompileStage(pack, s) : s \in Items(Get(pack.flows, chosen).stages)}

\* What is known of the file of --out.
Written ==
  /\ out \in {Older, Torn, Holding("plan", plan), Holding("schema", plan)}
  /\ phase \notin {"write", "ended"} => out = Older
  /\ phase = "write" => out = Torn
  /\ out = Torn => phase = "write" \/ exit \in {"escaped", "killed"}
  /\ out # Older /\ request.command = "compile" => plan # {} /\ HasJson
  /\ exit = "ok" /\ request.command = "compile" /\ request.out # "none" => out.plan = plan /\ plan # {}

Phased ==
  /\ phase \in Phases
  /\ exit \in {"none", "ok", "rejected", "escaped", "killed"}
  /\ phase = "ended" <=> exit # "none"

IInv == Phased /\ Established /\ Compiling /\ Written /\ AcceptedCompiles

(***************************************************************************)
(* Lookups.                                                                *)
(***************************************************************************)
\* The maps of DomainPack find what was declared once.
LEMMA GetFinds ==
  ASSUME NEW p \in Packs, NEW s \in Collections(p), Unique(s), NEW id \in IdsOf(s)
  PROVE  Get(s, id) \in Items(s) /\ Get(s, id).id = id
<1>1. DOMAIN s = 1..Len(s) /\ Len(s) \in Nat
  <2>1. s \in Seq(Items(s))
    BY PackAssumption
  <2> QED BY <2>1
<1>2. PICK k \in DOMAIN s : s[k].id = id
  BY DEF IdsOf
<1>3. \A j \in DOMAIN s : s[j].id = id => j <= k
  BY <1>1, <1>2 DEF Unique
<1> DEFINE P(i) == s[i].id = id /\ \A j \in DOMAIN s : s[j].id = id => j <= i
<1>4. P(CHOOSE i \in DOMAIN s : P(i)) /\ (CHOOSE i \in DOMAIN s : P(i)) \in DOMAIN s
  BY <1>2, <1>3
<1> QED BY <1>4 DEF Get, Items

\* The parts of a pack are collections, and so are the stages of a flow.
LEMMA PartsAreCollections ==
  ASSUME NEW p \in Packs
  PROVE  /\ p.capabilities \in Collections(p) /\ p.roles \in Collections(p)
         /\ p.evidence \in Collections(p) /\ p.policies \in Collections(p)
         /\ p.flows \in Collections(p) /\ p.entrypoints \in Collections(p)
         /\ \A f \in Items(p.flows) : f.stages \in Collections(p)
BY DEF Collections

\* An accepted pack finds every item it declares.
LEMMA AcceptedFinds ==
  ASSUME NEW p \in Packs, SemanticallySound(p), NEW id
  PROVE  /\ id \in IdsOf(p.capabilities) =>
              Get(p.capabilities, id) \in Items(p.capabilities) /\ Get(p.capabilities, id).id = id
         /\ id \in IdsOf(p.roles) =>
              Get(p.roles, id) \in Items(p.roles) /\ Get(p.roles, id).id = id
         /\ id \in IdsOf(p.evidence) =>
              Get(p.evidence, id) \in Items(p.evidence) /\ Get(p.evidence, id).id = id
         /\ id \in IdsOf(p.policies) =>
              Get(p.policies, id) \in Items(p.policies) /\ Get(p.policies, id).id = id
         /\ id \in IdsOf(p.flows) =>
              Get(p.flows, id) \in Items(p.flows) /\ Get(p.flows, id).id = id
         /\ id \in IdsOf(p.entrypoints) =>
              Get(p.entrypoints, id) \in Items(p.entrypoints) /\ Get(p.entrypoints, id).id = id
BY GetFinds, PartsAreCollections DEF SemanticallySound, NoDuplicates

(***************************************************************************)
(* One stage of an accepted pack.                                          *)
(***************************************************************************)
LEMMA SoundStage ==
  ASSUME NEW p \in Packs, SemanticallySound(p),
         NEW flow \in Items(p.flows), NEW s \in Items(flow.stages)
  PROVE  /\ StageIsSound(p, s)
         /\ PolicyId(p, s) \in IdsOf(p.policies)
         /\ LookupsSucceed(p, s)
<1>1. StageIsSound(p, s) /\ PackReferences(p)
  BY DEF SemanticallySound
<1>2. StageReferences(p, s)
  BY <1>1 DEF StageIsSound
<1>3. PolicyId(p, s) \in IdsOf(p.policies)
  BY <1>1, <1>2 DEF StageReferences, PackReferences, PolicyId
<1> QED BY <1>1, <1>2, <1>3 DEF StageReferences, LookupsSucceed

\* What the kernel relies on in a compiled stage.
LEMMA StageIsGoverned ==
  ASSUME NEW p \in Packs, SemanticallySound(p), Conforms(p),
         NEW flow \in Items(p.flows), NEW s \in Items(flow.stages),
         NEW c, c = CompileStage(p, s)
  PROVE  /\ c.policy.maxAttempts \in 1..100
         /\ c.policy.evidenceRequired => c.evidence # {}
         /\ \A e \in c.evidence :
              e.schema # "invalid" /\ (e.kind = "json-schema" => e.schema # "none")
         /\ c.capability.schema # "invalid"
         /\ c.capability.kind = "agent" => c.role # {}
         /\ \A r \in c.role : c.capability.id \in r.capabilities
<1>1. /\ StageReferences(p, s) /\ RoleIsAuthorized(p, s) /\ EvidenceIsDemanded(p, s)
      /\ PolicyId(p, s) \in IdsOf(p.policies)
  BY SoundStage DEF StageIsSound
<1>2. /\ c.policy = Get(p.policies, PolicyId(p, s))
      /\ c.capability = Get(p.capabilities, s.capability)
      /\ c.evidence = {Get(p.evidence, e) : e \in s.requiresEvidence}
      /\ c.role = IF s.role \in IdsOf(p.roles) THEN {Get(p.roles, s.role)} ELSE {}
  BY DEF CompileStage
<1>3. c.policy \in Items(p.policies) /\ c.policy.maxAttempts \in 1..100
  <2>1. c.policy \in Items(p.policies)
    BY <1>1, <1>2, AcceptedFinds
  <2> QED BY <2>1 DEF Conforms, AttemptsConform
<1>4. c.policy.evidenceRequired => c.evidence # {}
  BY <1>1, <1>2 DEF EvidenceIsDemanded
<1>5. ASSUME NEW e \in c.evidence
      PROVE  e.schema # "invalid" /\ (e.kind = "json-schema" => e.schema # "none")
  <2>1. PICK k \in s.requiresEvidence : e = Get(p.evidence, k)
    BY <1>2
  <2>2. k \in IdsOf(p.evidence)
    BY <1>1 DEF StageReferences
  <2>3. e \in Items(p.evidence)
    BY <2>1, <2>2, AcceptedFinds
  <2> QED BY <2>3 DEF SemanticallySound, SchemasAreValid
<1>6. /\ c.capability \in Items(p.capabilities) /\ c.capability.id = s.capability
      /\ c.capability.schema # "invalid"
  BY <1>1, <1>2, AcceptedFinds DEF StageReferences, SemanticallySound, SchemasAreValid
<1>7. "none" \notin IdsOf(p.roles)
  BY PackAssumption, PartsAreCollections
<1>8. c.capability.kind = "agent" => c.role # {}
  BY <1>1, <1>2, <1>6 DEF RoleIsAuthorized, StageReferences
<1>9. \A r \in c.role : c.capability.id \in r.capabilities
  BY <1>1, <1>2, <1>6, <1>7 DEF RoleIsAuthorized
<1> QED BY <1>3, <1>4, <1>5, <1>6, <1>8, <1>9

\* Needs stay within the flow, and a stage does not need itself.
LEMMA NeedsStayWithin ==
  ASSUME NEW p \in Packs, SemanticallySound(p),
         NEW flow \in Items(p.flows), NEW s \in Items(flow.stages)
  PROVE  s.needs \subseteq IdsOf(flow.stages) \ {s.id}
<1>1. NeedsCanBeOrdered(flow) /\ Unique(flow.stages)
  BY DEF SemanticallySound, NoDuplicates
<1>2. s.id \in IdsOf(flow.stages)
  BY DEF Items, IdsOf
<1>3. s.needs \subseteq IdsOf(flow.stages)
  <2>1. s \in {t \in Items(flow.stages) : t.id \in IdsOf(flow.stages)}
    BY <1>2
  <2> QED BY <1>1, <2>1 DEF NeedsCanBeOrdered
<1>4. PICK t \in Items(flow.stages) : t.id \in {s.id} /\ t.needs \cap {s.id} = {}
  <2>1. {s.id} \in SUBSET IdsOf(flow.stages) /\ {s.id} # {}
    BY <1>2
  <2> QED BY <1>1, <2>1 DEF NeedsCanBeOrdered
<1>5. t = s
  BY <1>1, <1>4 DEF Unique, Items
<1> QED BY <1>3, <1>4, <1>5

\* The ids of a plan are those of the stages it was compiled from.
LEMMA PlanIds ==
  ASSUME NEW p, NEW stages
  PROVE  {c.id : c \in {CompileStage(p, s) : s \in Items(stages)}} = IdsOf(stages)
<1>1. \A s : CompileStage(p, s).id = s.id
  BY DEF CompileStage
<1> QED BY <1>1 DEF Items, IdsOf

(***************************************************************************)
(* The choice of the flow.                                                 *)
(***************************************************************************)
\* For an accepted pack the choice is a declared flow or a CompileError, and
\* for a declared flow or entrypoint it is not an error.
LEMMA FlowIsResolved ==
  ASSUME NEW p \in Packs, SemanticallySound(p), Conforms(p), NEW f, NEW e,
         NEW flow, flow = ResolveFlow(p, f, e)
  PROVE  /\ flow # CompileError => flow \in IdsOf(p.flows) /\ flow # KeyError
         /\ f \in IdsOf(p.flows) /\ e = "none" => flow # CompileError
         /\ f = "none" /\ e \in IdsOf(p.entrypoints) => flow # CompileError
<1>1. /\ \A k \in {"none", CompileError, KeyError} :
           k \notin IdsOf(p.flows) /\ k \notin IdsOf(p.entrypoints)
      /\ p.entrypoints \in Seq(Items(p.entrypoints))
      /\ p.flows \in Seq(Items(p.flows))
  BY PackAssumption, PartsAreCollections
<1>2. \A x \in Items(p.entrypoints) : FlowOf(p, x) \in IdsOf(p.flows)
  BY DEF SemanticallySound, PackReferences, FlowOf
<1>3. e \in IdsOf(p.entrypoints) => FlowOf(p, Get(p.entrypoints, e)) \in IdsOf(p.flows)
  BY <1>2, AcceptedFinds
<1>4. DefaultFlow(p) # CompileError => DefaultFlow(p) \in IdsOf(p.flows)
  <2>1. CASE Len(p.entrypoints) = 1
    <3>1. p.entrypoints[1] \in Items(p.entrypoints)
      BY <1>1, <2>1 DEF Items
    <3> QED BY <1>2, <2>1, <3>1 DEF DefaultFlow
  <2>2. CASE Len(p.entrypoints) # 1 /\ Len(p.flows) = 1
    <3>1. p.flows[1].id \in IdsOf(p.flows)
      BY <1>1, <2>2 DEF IdsOf
    <3> QED BY <2>2, <3>1 DEF DefaultFlow
  <2> QED BY <2>1, <2>2 DEF DefaultFlow
<1>5. CASE f # "none" /\ e # "none"
  <2>1. flow = CompileError
    BY <1>5 DEF ResolveFlow
  <2> QED BY <1>1, <1>5, <2>1
<1>6. CASE f = "none" /\ e # "none"
  <2>1. flow = IF e \in IdsOf(p.entrypoints) THEN FlowOf(p, Get(p.entrypoints, e)) ELSE CompileError
    BY <1>6 DEF ResolveFlow
  <2> QED BY <1>1, <1>3, <1>6, <2>1
<1>7. CASE f # "none" /\ e = "none"
  <2>1. flow = IF f \in IdsOf(p.flows) THEN f ELSE CompileError
    BY <1>7 DEF ResolveFlow
  <2> QED BY <1>1, <1>7, <2>1
<1>8. CASE f = "none" /\ e = "none"
  <2>1. flow = DefaultFlow(p)
    BY <1>8 DEF ResolveFlow
  <2> QED BY <1>1, <1>4, <1>8, <2>1
<1> QED BY <1>5, <1>6, <1>7, <1>8

(***************************************************************************)
(* The invariant.                                                          *)
(***************************************************************************)
LEMMA IInvInit == Init => IInv
BY DEF Init, IInv, Phased, Phases, Established, Compiling, Written, AcceptedCompiles, Older, Torn, Holding

\* The checks of the loader.
LEMMA LoaderStep ==
  ASSUME IInv, ReadFile \/ CheckStructure \/ CheckSemantics
  PROVE  IInv'
<1> USE DEF IInv, Phased, Phases, Established, Compiling, Written, AcceptedCompiles, Accepted,
            AsksForDeclared, End, call, Older, Torn, Holding
<1>1. CASE ReadFile
  BY <1>1 DEF ReadFile
<1>2. CASE CheckStructure
  BY <1>2 DEF CheckStructure
<1>3. CASE CheckSemantics
  BY <1>3 DEF CheckSemantics
<1> QED BY <1>1, <1>2, <1>3

\* The commands that compile nothing.
LEMMA ReportStep ==
  ASSUME IInv, Report \/ PrintSchema
  PROVE  IInv'
<1> USE DEF IInv, Phased, Phases, Established, Compiling, Written, AcceptedCompiles, Accepted,
            AsksForDeclared, End, call, Older, Torn, Holding
<1>1. CASE Report
  <2>1. \A flow \in Items(pack.flows) : NeedsCanBeOrdered(flow)
    BY <1>1 DEF Report, SemanticallySound
  <2> QED BY <1>1, <2>1 DEF Report
<1>2. CASE PrintSchema
  BY <1>2 DEF PrintSchema
<1> QED BY <1>1, <1>2

LEMMA ResolveStep ==
  ASSUME IInv, Resolve
  PROVE  IInv'
<1> USE DEF IInv, Phased, Phases, Established, Compiling, Written, AcceptedCompiles, Accepted,
            AsksForDeclared, End, call, Older, Torn, Holding
<1> DEFINE flow == ResolveFlow(pack, request.flow, request.entrypoint)
<1>1. /\ flow # CompileError => flow \in IdsOf(pack.flows) /\ flow # KeyError
      /\ AsksForDeclared => flow # CompileError
  BY FlowIsResolved DEF Resolve
<1>2. CASE flow = CompileError
  <2>1. /\ exit' = "rejected" /\ phase' = "ended"
        /\ UNCHANGED <<file, pack, request, chosen, plan, out>>
    BY <1>2 DEF Resolve, CompileError, KeyError
  <2>2. ~AsksForDeclared /\ request.command = "compile" /\ plan = {}
    BY <1>1, <1>2 DEF Resolve
  <2> HIDE DEF flow
  <2> QED BY <2>1, <2>2 DEF Resolve
<1>3. CASE flow # CompileError
  <2>1. flow \in IdsOf(pack.flows) /\ flow # KeyError
    BY <1>1, <1>3
  <2>2. chosen' = flow /\ phase' = "compile" /\ UNCHANGED <<call, plan, exit, out>>
    BY <1>3, <2>1 DEF Resolve
  <2>3. request.command = "compile" /\ phase = "accepted"
    BY DEF Resolve
  <2> HIDE DEF flow
  <2> QED BY <2>1, <2>2, <2>3
<1> QED BY <1>2, <1>3

LEMMA CompileStep ==
  ASSUME IInv, Compile
  PROVE  IInv'
<1> DEFINE flow == Get(pack.flows, chosen)
           compiled == {CompileStage(pack, s) : s \in Items(flow.stages)}
<1>1. pack \in Packs /\ SemanticallySound(pack) /\ Conforms(pack) /\ flow \in Items(pack.flows)
  BY AcceptedFinds DEF IInv, Established, Compiling, Compile
<1>2. NeedsCanBeOrdered(flow) /\ \A s \in Items(flow.stages) : LookupsSucceed(pack, s)
  BY <1>1, SoundStage DEF SemanticallySound
<1>3. compiled # {}
  <2>1. flow.stages # <<>> /\ flow.stages \in Collections(pack)
    BY <1>1, PartsAreCollections DEF Conforms
  <2>2. flow.stages \in Seq(Items(flow.stages))
    BY <1>1, <2>1, PackAssumption
  <2>3. Len(flow.stages) \in Nat \ {0} /\ DOMAIN flow.stages = 1..Len(flow.stages)
    BY <2>1, <2>2
  <2>4. CompileStage(pack, flow.stages[1]) \in compiled
    BY <2>3 DEF Items
  <2> QED BY <2>4
<1>4. plan' = compiled /\ phase' = "emit" /\ UNCHANGED <<call, chosen, exit, out>>
  BY <1>2 DEF Compile
<1> HIDE DEF flow
<1>5. chosen \in IdsOf(pack.flows) /\ file = "yaml" /\ request.command = "compile"
  BY DEF IInv, Established, Compiling, Compile
<1>6. Compiling'
  BY <1>1, <1>3, <1>4, <1>5 DEF Compiling, Accepted, call, flow
<1>7. exit = "none" /\ out = Older /\ Older # Torn
  BY DEF IInv, Phased, Written, Compile, Older, Torn, Holding
<1>8. Written'
  BY <1>4, <1>7 DEF Written
<1> QED
  BY <1>1, <1>4, <1>5, <1>6, <1>7, <1>8
  DEF IInv, Phased, Phases, Established, AcceptedCompiles, Accepted, AsksForDeclared, call

\* The plan becomes text before any file is opened.
LEMMA SerializeStep ==
  ASSUME IInv, Serialize
  PROVE  IInv'
<1>1. /\ UNCHANGED <<file, pack, request, chosen, plan, out>>
      /\ IF HasJson /\ request.out # "none"
         THEN phase' = "open" /\ exit' = exit
         ELSE phase' = "ended" /\ exit' = IF HasJson THEN "ok" ELSE "escaped"
  BY DEF Serialize, End, call
<1>2. HasJson' = HasJson
  BY <1>1 DEF HasJson
<1>3. /\ plan # {} /\ Accepted /\ request.command = "compile" /\ chosen \in IdsOf(pack.flows)
      /\ plan = {CompileStage(pack, s) : s \in Items(Get(pack.flows, chosen).stages)}
      /\ phase = "emit" /\ exit = "none" /\ out = Older /\ Older # Torn
  BY DEF IInv, Phased, Compiling, Written, Serialize, Older, Torn, Holding
<1>4. Established' /\ Phased'
  BY <1>1, <1>3 DEF IInv, Established, Phased, Phases, Accepted
<1>5. Compiling'
  BY <1>1, <1>2, <1>3 DEF Compiling, Accepted
<1>6. Written'
  BY <1>1, <1>2, <1>3 DEF Written
<1>7. AcceptedCompiles'
  BY <1>1, <1>2, <1>3 DEF AcceptedCompiles
<1> QED BY <1>4, <1>5, <1>6, <1>7 DEF IInv

\* _write opens the file, fills it, or fails at either.
LEMMA WriteStep ==
  ASSUME IInv, Open \/ OpenFails \/ Write \/ WriteFails
  PROVE  IInv'
<1>1. /\ UNCHANGED <<file, pack, request, chosen, plan>>
      /\ phase \in {"open", "write"} /\ exit = "none" /\ request.out # "none"
      /\ IF request.command = "schema" THEN plan = {} ELSE plan # {} /\ HasJson
  BY DEF IInv, Phased, Compiling, Open, OpenFails, Write, WriteFails, End, call
<1>2. HasJson' = HasJson
  BY <1>1 DEF HasJson
<1>3. \/ phase = "open" /\ phase' = "write" /\ exit' = exit /\ out' = Torn
      \/ phase' = "ended" /\ exit' = "escaped" /\ out' = out
      \/ phase' = "ended" /\ exit' = "ok" /\ out' \in {Holding("plan", plan), Holding("schema", plan)}
  BY DEF Open, OpenFails, Write, WriteFails, End
<1>4. Established' /\ Phased'
  BY <1>1, <1>3 DEF IInv, Established, Phased, Phases
<1>5. Compiling'
  BY <1>1, <1>2, <1>3 DEF IInv, Compiling, Accepted
<1>6. Written'
  BY <1>1, <1>2, <1>3 DEF IInv, Written, Older, Torn, Holding
<1>7. AcceptedCompiles'
  BY <1>1, <1>2, <1>3 DEF IInv, AcceptedCompiles, Accepted, AsksForDeclared
<1> QED BY <1>4, <1>5, <1>6, <1>7 DEF IInv

LEMMA KillStep ==
  ASSUME IInv, Kill
  PROVE  IInv'
<1>1. /\ UNCHANGED <<file, pack, request, chosen, plan, out>>
      /\ phase' = "ended" /\ exit' = "killed"
  BY DEF Kill, End, call
<1>2. HasJson' = HasJson
  BY <1>1 DEF HasJson
<1> QED
  BY <1>1, <1>2
  DEF IInv, Phased, Phases, Established, Compiling, Written, AcceptedCompiles, Accepted, AsksForDeclared

LEMMA IInvStep == IInv /\ [Next]_vars => IInv'
<1> SUFFICES ASSUME IInv, [Next]_vars PROVE IInv'
  OBVIOUS
<1>1. CASE UNCHANGED vars
  BY <1>1 DEF vars, IInv, Phased, Established, Compiling, Written, AcceptedCompiles, Accepted,
              AsksForDeclared, HasJson
<1>2. CASE Next
  BY <1>2, LoaderStep, ReportStep, ResolveStep, CompileStep, SerializeStep, WriteStep, KillStep
  DEF Next
<1> QED BY <1>1, <1>2

THEOREM ContractsInductive == Spec => []IInv
<1> QED BY IInvInit, IInvStep, PTL DEF Spec

(***************************************************************************)
(* The properties.                                                         *)
(***************************************************************************)
\* Whatever the packs and the requests are, an accepted pack compiles.
THEOREM AcceptedPacksCompile == Spec => []AcceptedCompiles
<1>1. IInv => AcceptedCompiles
  BY DEF IInv
<1> QED BY <1>1, ContractsInductive, PTL

\* A stage of a plan comes from a sound stage of the chosen flow.
LEMMA PlanStages ==
  ASSUME IInv, NEW c \in plan
  PROVE  /\ pack \in Packs /\ SemanticallySound(pack) /\ Conforms(pack)
         /\ Get(pack.flows, chosen) \in Items(pack.flows)
         /\ \E s \in Items(Get(pack.flows, chosen).stages) : c = CompileStage(pack, s)
         /\ {t.id : t \in plan} = IdsOf(Get(pack.flows, chosen).stages)
<1>1. /\ Accepted /\ chosen \in IdsOf(pack.flows) /\ pack \in Packs
      /\ plan = {CompileStage(pack, s) : s \in Items(Get(pack.flows, chosen).stages)}
  BY DEF IInv, Compiling, Established
<1> QED BY <1>1, AcceptedFinds, PlanIds DEF Accepted

\* Every compiled plan, of every pack, is one the kernel can trust.
THEOREM PlansAreGoverned == Spec => []PlanIsGoverned
<1>1. IInv => PlanIsGoverned
  <2> SUFFICES ASSUME IInv, NEW c \in plan
               PROVE  /\ c.policy.evidenceRequired => c.evidence # {}
                      /\ \A e \in c.evidence :
                           e.schema # "invalid" /\ (e.kind = "json-schema" => e.schema # "none")
                      /\ c.capability.schema # "invalid"
                      /\ c.capability.kind = "agent" => c.role # {}
                      /\ \A r \in c.role : c.capability.id \in r.capabilities
                      /\ c.needs \subseteq {t.id : t \in plan} \ {c.id}
    BY DEF PlanIsGoverned
  <2>1. PICK s \in Items(Get(pack.flows, chosen).stages) : c = CompileStage(pack, s)
    BY PlanStages
  <2>2. c.needs = s.needs /\ c.id = s.id
    BY <2>1 DEF CompileStage
  <2>3. c.needs \subseteq {t.id : t \in plan} \ {c.id}
    BY <2>2, PlanStages, NeedsStayWithin
  <2> QED BY <2>1, <2>3, PlanStages, StageIsGoverned
<1> QED BY <1>1, ContractsInductive, PTL

\* Phases, outcomes, and attempts that can be counted down.
THEOREM ContractsTypeCorrect == Spec => []TypeOK
<1>1. IInv => TypeOK
  <2> SUFFICES ASSUME IInv PROVE TypeOK
    OBVIOUS
  <2>1. ASSUME NEW c \in plan
        PROVE  c.policy.maxAttempts \in 1..100
    BY PlanStages, StageIsGoverned
  <2> QED BY <2>1 DEF TypeOK, IInv, Phased, Phases
<1> QED BY <1>1, ContractsInductive, PTL

\* The file of --out is opened for a whole plan only, and a call that succeeds
\* leaves that plan in it; less is left only where the write itself was cut short.
THEOREM OutIsOverwrittenLast == Spec => []OutIsOlderOrWhole
<1>1. IInv => OutIsOlderOrWhole
  <2> SUFFICES ASSUME IInv PROVE OutIsOlderOrWhole
    OBVIOUS
  <2>1. out # Older /\ request.command = "compile" => Accepted /\ plan # {} /\ HasJson
    BY DEF IInv, Written, Compiling
  <2>2. ASSUME exit = "ok", request.command = "compile", request.out # "none"
        PROVE  {s.id : s \in out.plan} = IdsOf(Get(pack.flows, chosen).stages)
    <3>1. out.plan = plan /\ plan # {}
      BY <2>2 DEF IInv, Written
    <3> QED BY <3>1, PlanStages
  <2>3. out = Torn => phase = "write" \/ exit \in {"escaped", "killed"}
    BY DEF IInv, Written
  <2> QED BY <2>1, <2>2, <2>3 DEF OutIsOlderOrWhole
<1> QED BY <1>1, ContractsInductive, PTL

=============================================================================
