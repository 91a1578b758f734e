--------------------------- MODULE PackContracts ---------------------------
(***************************************************************************)
(* From a file with a DomainPack to a compiled plan: load_domain_pack      *)
(* checks the file against the JSON Schema and then the references between *)
(* its parts; compile_plan chooses a flow and copies into each stage the   *)
(* contracts it refers to, by lookups that are not checked again; the      *)
(* command line prints the plan or writes it over an older one, in a file  *)
(* that it empties first.                                                  *)
(*                                                                         *)
(* The collections of a pack are sequences of records, as ids may occur    *)
(* twice.  Texts are left out.  An embedded JSON Schema is "none", "valid" *)
(* or "invalid"; what is carried along without being looked at (binding    *)
(* configuration, annotations in schemas) is "json", or "yaml" when it     *)
(* holds something that YAML has and JSON has not, such as a date.  The    *)
(* order of the stages is FlowOrder's: _cycle_nodes finds a cycle where    *)
(* Entangled does, and what has none is ordered.  What the schema library  *)
(* itself raises on YAML that is no tree, and a failure to print, are left *)
(* out.                                                                    *)
(***************************************************************************)
EXTENDS Naturals, Sequences

CONSTANTS
  Packs,      \* what a file may hold
  Requests    \* calls of the command line or of compile_plan

VARIABLES
  file,     \* the file with the pack: see Files
  pack,     \* what it holds, if it is YAML
  request,  \* [command, flow, entrypoint, out]; all but the command may be "none"
  phase,    \* where the call is
  chosen,   \* the flow that is compiled
  plan,     \* the compiled stages, as a set
  out,      \* the file named by --out: what it holds ("older" is what it held
            \* before the call), and which plan
  exit      \* how the call ended: "none", "ok", "rejected", "escaped" or "killed"

vars == <<file, pack, request, phase, chosen, plan, out, exit>>

call == <<file, pack, request>>

\* What load_domain_pack reports as an invalid pack, and what it does not
\* catch: text that is not UTF-8, a file that cannot be read, and a ValueError
\* from the construction of a YAML value, such as the date 2024-13-01.
Reported == {"missing", "not-yaml"}
Uncaught == {"not-utf8", "unreadable", "bad-value"}
Files == {"yaml"} \cup Reported \cup Uncaught

\* "torn" is a file that was emptied and holds what has been written so far.
Holding(what, stages) == [holds |-> what, plan |-> stages]
Older == Holding("older", {})
Torn == Holding("torn", {})

Init ==
  /\ file \in Files
  /\ pack \in Packs
  /\ request \in Requests
  /\ phase = "load"
  /\ chosen = "none"
  /\ plan = {}
  /\ out = Older
  /\ exit = "none"

(***************************************************************************)
(* The maps of DomainPack: id to item, the last one of several.            *)
(***************************************************************************)
Items(s) == {s[i] : i \in DOMAIN s}

IdsOf(s) == {s[i].id : i \in DOMAIN s}

Get(s, id) ==
  s[CHOOSE i \in DOMAIN s :
      s[i].id = id /\ \A j \in DOMAIN s : s[j].id = id => j <= i]

\* What identifies a missing reference and the errors of a lookup is no id.
CompileError == "CompileError"
KeyError == "KeyError"

Collections(p) ==
  {p.capabilities, p.roles, p.evidence, p.policies, p.flows, p.entrypoints}
    \cup {flow.stages : flow \in Items(p.flows)}

ASSUME PackAssumption ==
  \A p \in Packs : \A s \in Collections(p) :
    /\ s \in Seq(Items(s))
    /\ IdsOf(s) \cap {"none", CompileError, KeyError} = {}

\* stage.policy or self.default_policy
PolicyId(p, stage) ==
  IF stage.policy = "none" THEN p.defaultPolicy ELSE stage.policy

(***************************************************************************)
(* The JSON Schema.  What later steps rely on is spelled out; strictFields *)
(* stands for the rest: types, enumerations, required and unknown fields.  *)
(***************************************************************************)
AttemptsConform(policy) == policy.maxAttempts \in 1..100

Conforms(p) ==
  /\ \A part \in {p.capabilities, p.evidence, p.policies, p.flows, p.entrypoints} :
       part # <<>>
  /\ \A flow \in Items(p.flows) : flow.stages # <<>>
  /\ \A policy \in Items(p.policies) : AttemptsConform(policy)
  /\ p.strictFields

(***************************************************************************)
(* semantic_issues                                                         *)
(***************************************************************************)
Unique(s) == \A i, j \in DOMAIN s : s[i].id = s[j].id => i = j

NoDuplicates(p) ==
  /\ \A part \in {p.capabilities, p.roles, p.evidence, p.policies,
                  p.flows, p.entrypoints} : Unique(part)
  /\ \A flow \in Items(p.flows) : Unique(flow.stages)

SchemasAreValid(p) ==
  /\ \A c \in Items(p.capabilities) : c.schema # "invalid"
  /\ \A f \in Items(p.flows) : f.schema # "invalid"
  /\ \A e \in Items(p.evidence) :
       e.schema # "invalid" /\ (e.kind = "json-schema" => e.schema # "none")

\* The default is not looked up.
PackReferences_NoDefault(p) ==
  /\ \A r \in Items(p.roles) : r.capabilities \subseteq IdsOf(p.capabilities)
  /\ \A e \in Items(p.entrypoints) : e.flow \in IdsOf(p.flows)

PackReferences(p) ==
  /\ p.defaultPolicy \in IdsOf(p.policies)
  /\ \A r \in Items(p.roles) : r.capabilities \subseteq IdsOf(p.capabilities)
  /\ \A e \in Items(p.entrypoints) : e.flow \in IdsOf(p.flows)

StageReferences(p, stage) ==
  /\ stage.capability \in IdsOf(p.capabilities)
  /\ stage.role \in {"none"} \cup IdsOf(p.roles)
  /\ stage.requiresEvidence \subseteq IdsOf(p.evidence)
  /\ stage.policy \in {"none"} \cup IdsOf(p.policies)

\* Any role will do.
RoleIsAuthorized_Any(p, stage) ==
  Get(p.capabilities, stage.capability).kind = "agent" => stage.role # "none"

RoleIsAuthorized(p, stage) ==
  IF stage.role = "none"
  THEN Get(p.capabilities, stage.capability).kind # "agent"
  ELSE stage.capability \in Get(p.roles, stage.role).capabilities

EvidenceIsDemanded(p, stage) ==
  /\ PolicyId(p, stage) \in IdsOf(p.policies)
  /\ Get(p.policies, PolicyId(p, stage)).evidenceRequired
  => stage.requiresEvidence # {}

FanoutIsDeclared(stage) == (stage.fanout = "each") <=> stage.over

StageIsSound(p, stage) ==
  /\ StageReferences(p, stage)
  /\ RoleIsAuthorized(p, stage)
  /\ EvidenceIsDemanded(p, stage)
  /\ FanoutIsDeclared(stage)
  /\ ~stage.shellCondition

\* Needs name other stages of the flow, and none is on a cycle or behind one.
NeedsCanBeOrdered(flow) ==
  LET Needs(ids) == UNION {s.needs : s \in {t \in Items(flow.stages) : t.id \in ids}} IN
  /\ Needs(IdsOf(flow.stages)) \subseteq IdsOf(flow.stages)
  /\ \A B \in SUBSET IdsOf(flow.stages) :
       B # {} => \E s \in Items(flow.stages) : s.id \in B /\ s.needs \cap B = {}

SemanticallySound(p) ==
  /\ NoDuplicates(p)
  /\ PackReferences(p)
  /\ SchemasAreValid(p)
  /\ \A flow \in Items(p.flows) :
       /\ \A stage \in Items(flow.stages) : StageIsSound(p, stage)
       /\ NeedsCanBeOrdered(flow)

(***************************************************************************)
(* The steps of a call.                                                    *)
(***************************************************************************)
End(how) ==
  /\ exit' = how
  /\ phase' = "ended"
  /\ UNCHANGED <<call, chosen, plan>>

\* load_domain_pack
ReadFile ==
  /\ phase = "load"
  /\ request.command # "schema"
  /\ UNCHANGED out
  /\ IF file = "yaml"
     THEN phase' = "structure" /\ UNCHANGED <<call, chosen, plan, exit>>
     ELSE End(IF file \in Reported THEN "rejected" ELSE "escaped")

CheckStructure ==
  /\ phase = "structure"
  /\ UNCHANGED out
  /\ IF Conforms(pack)
     THEN phase' = "semantics" /\ UNCHANGED <<call, chosen, plan, exit>>
     ELSE End("rejected")

CheckSemantics ==
  /\ phase = "semantics"
  /\ UNCHANGED out
  /\ IF SemanticallySound(pack)
     THEN phase' = "accepted" /\ UNCHANGED <<call, chosen, plan, exit>>
     ELSE End("rejected")

\* validate and inspect: they serialize ids and texts only, but inspect
\* orders every flow.
Report ==
  /\ phase = "accepted"
  /\ request.command \in {"validate", "inspect"}
  /\ UNCHANGED out
  /\ End(IF request.command = "inspect"
            /\ \E flow \in Items(pack.flows) : ~NeedsCanBeOrdered(flow)
         THEN "rejected" ELSE "ok")

(***************************************************************************)
(* compile_plan.  A lookup that finds nothing raises a KeyError, which is  *)
(* not one of the errors the caller expects.                               *)
(***************************************************************************)
FlowOf(p, entrypoint) ==
  IF entrypoint.flow \in IdsOf(p.flows) THEN entrypoint.flow ELSE KeyError

DefaultFlow(p) ==
  IF Len(p.entrypoints) = 1 THEN FlowOf(p, p.entrypoints[1])
  ELSE IF Len(p.flows) = 1 THEN p.flows[1].id
  ELSE CompileError

ResolveFlow(p, flow, entrypoint) ==
  CASE flow # "none" /\ entrypoint # "none" -> CompileError
    [] flow = "none" /\ entrypoint # "none" ->
         IF entrypoint \in IdsOf(p.entrypoints)
         THEN FlowOf(p, Get(p.entrypoints, entrypoint)) ELSE CompileError
    [] flow # "none" /\ entrypoint = "none" ->
         IF flow \in IdsOf(p.flows) THEN flow ELSE CompileError
    [] OTHER -> DefaultFlow(p)

Resolve ==
  /\ phase = "accepted"
  /\ request.command = "compile"
  /\ UNCHANGED out
  /\ LET flow == ResolveFlow(pack, request.flow, request.entrypoint) IN
     CASE flow = CompileError -> End("rejected")
       [] flow = KeyError -> End("escaped")
       [] OTHER -> /\ chosen' = flow
                   /\ phase' = "compile"
                   /\ UNCHANGED <<call, plan, exit>>

LookupsSucceed(p, stage) ==
  /\ stage.capability \in IdsOf(p.capabilities)
  /\ PolicyId(p, stage) \in IdsOf(p.policies)
  /\ stage.requiresEvidence \subseteq IdsOf(p.evidence)

\* The role is looked up by get: an unknown one has no contract.
CompileStage(p, stage) ==
  [id |-> stage.id,
   needs |-> stage.needs,
   fanout |-> stage.fanout,
   capability |-> Get(p.capabilities, stage.capability),
   role |-> IF stage.role \in IdsOf(p.roles) THEN {Get(p.roles, stage.role)} ELSE {},
   evidence |-> {Get(p.evidence, e) : e \in stage.requiresEvidence},
   policy |-> Get(p.policies, PolicyId(p, stage))]

Compile ==
  /\ phase = "compile"
  /\ UNCHANGED out
  /\ LET flow == Get(pack.flows, chosen) IN
     CASE ~NeedsCanBeOrdered(flow) -> End("rejected")
       [] \E s \in Items(flow.stages) : ~LookupsSucceed(pack, s) -> End("escaped")
       [] OTHER -> /\ plan' = {CompileStage(pack, s) : s \in Items(flow.stages)}
                   /\ phase' = "emit"
                   /\ UNCHANGED <<call, chosen, exit>>

(***************************************************************************)
(* to_json, digest and --out.                                              *)
(***************************************************************************)
HasJson ==
  /\ Get(pack.flows, chosen).carried = "json"
  /\ \A s \in plan :
       s.capability.carried = "json" /\ \A e \in s.evidence : e.carried = "json"

\* json.dump into the open file.
Serialize_OpensFirst ==
  /\ phase = "emit"
  /\ out' = IF request.out = "writable" THEN Torn ELSE out
  /\ IF HasJson /\ request.out = "writable"
     THEN phase' = "write" /\ UNCHANGED <<call, chosen, plan, exit>>
     ELSE End(IF HasJson /\ request.out = "none" THEN "ok" ELSE "escaped")

\* A value that JSON has not is a TypeError; without --out the plan is printed.
Serialize ==
  /\ phase = "emit"
  /\ UNCHANGED out
  /\ IF HasJson /\ request.out # "none"
     THEN phase' = "open" /\ UNCHANGED <<call, chosen, plan, exit>>
     ELSE End(IF HasJson THEN "ok" ELSE "escaped")

\* schema reads no file; its document is a constant.
PrintSchema ==
  /\ phase = "load"
  /\ request.command = "schema"
  /\ UNCHANGED out
  /\ IF request.out # "none"
     THEN phase' = "open" /\ UNCHANGED <<call, chosen, plan, exit>>
     ELSE End("ok")

(***************************************************************************)
(* _write, and what may go wrong on the way: write_text opens the file,    *)
(* which empties it, and then writes.  A file that cannot be opened, a     *)
(* full disk, an I/O error and text that UTF-8 has not raise; the process  *)
(* may end at any time.                                                    *)
(***************************************************************************)
Open ==
  /\ phase = "open"
  /\ request.out = "writable"
  /\ out' = Torn
  /\ phase' = "write"
  /\ UNCHANGED <<call, chosen, plan, exit>>

OpenFails ==
  /\ phase = "open"
  /\ UNCHANGED out
  /\ End("escaped")

Write ==
  /\ phase = "write"
  /\ out' = Holding(IF request.command = "schema" THEN "schema" ELSE "plan", plan)
  /\ End("ok")

WriteFails ==
  /\ phase = "write"
  /\ UNCHANGED out
  /\ End("escaped")

Kill ==
  /\ phase # "ended"
  /\ UNCHANGED out
  /\ End("killed")

Next ==
  \/ ReadFile \/ CheckStructure \/ CheckSemantics
  \/ Report \/ Resolve \/ Compile
  \/ Serialize \/ PrintSchema
  \/ Open \/ OpenFails \/ Write \/ WriteFails
  \/ Kill

Spec == Init /\ [][Next]_vars

-----------------------------------------------------------------------------
\* Types; a compiled stage has a number of attempts the kernel can count down.
TypeOK ==
  /\ phase \in {"load", "structure", "semantics", "accepted", "compile", "emit",
                "open", "write", "ended"}
  /\ exit \in {"none", "ok", "rejected", "escaped", "killed"}
  /\ phase = "ended" <=> exit # "none"
  /\ \A s \in plan : s.policy.maxAttempts \in 1..100

Accepted ==
  file = "yaml" /\ Conforms(pack) /\ SemanticallySound(pack)

\* The call compiles a flow or an entrypoint that the pack declares.
AsksForDeclared ==
  /\ request.command = "compile"
  /\ \/ request.flow \in IdsOf(pack.flows) /\ request.entrypoint = "none"
     \/ request.flow = "none" /\ request.entrypoint \in IdsOf(pack.entrypoints)

(***************************************************************************)
(* What the loader has accepted compiles: no declared flow is refused, nor *)
(* is inspect, and no lookup of compile_plan fails, whatever the selector. *)
(* Once a pack is accepted, the only exceptions left to escape main are    *)
(* those of a plan that JSON cannot express and of the file of --out.      *)
(***************************************************************************)
AcceptedCompiles ==
  Accepted =>
    /\ AsksForDeclared \/ request.command = "inspect" => exit # "rejected"
    /\ exit = "escaped" /\ request.command # "schema" =>
         plan # {} /\ (HasJson => request.out # "none")

(***************************************************************************)
(* The kernel trusts its plan.  Every stage of a compiled plan has what    *)
(* its contracts demand: gates where its policy, its own or the default,   *)
(* requires evidence, a schema for each structured receipt, schemas that   *)
(* can be used, a role that declares the capability of an agent stage, and *)
(* needs within the plan.                                                  *)
(***************************************************************************)
PlanIsGoverned ==
  \A s \in plan :
    /\ s.policy.evidenceRequired => s.evidence # {}
    /\ \A e \in s.evidence :
         e.schema # "invalid" /\ (e.kind = "json-schema" => e.schema # "none")
    /\ s.capability.schema # "invalid"
    /\ s.capability.kind = "agent" => s.role # {}
    /\ \A r \in s.role : s.capability.id \in r.capabilities
    /\ s.needs \subseteq {t.id : t \in plan} \ {s.id}

(***************************************************************************)
(* The file of --out.  What is refused, and what JSON cannot express,      *)
(* leaves the older file: it is opened only for a plan of an accepted pack *)
(* that is already text (to_json comes before _write).  A call that        *)
(* succeeds leaves every stage of the chosen flow.  Only a write that      *)
(* failed or was cut short leaves less, in place of the older file.        *)
(***************************************************************************)
OutIsOlderOrWhole ==
  /\ out # Older /\ request.command = "compile" => Accepted /\ plan # {} /\ HasJson
  /\ exit = "ok" /\ request.command = "compile" /\ request.out # "none" =>
       {s.id : s \in out.plan} = IdsOf(Get(pack.flows, chosen).stages)
  /\ out = Torn => phase = "write" \/ exit \in {"escaped", "killed"}

=============================================================================
