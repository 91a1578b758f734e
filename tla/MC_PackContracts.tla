--------------------------- MODULE MC_PackContracts ---------------------------
(***************************************************************************)
(* One pack, Base, and all that differ from it in the parts one check      *)
(* relates: a stage with its policies, a stage with its capability, role   *)
(* and evidence, and the flows with the entrypoints.  "zz" is declared     *)
(* nowhere.                                                                *)
(***************************************************************************)
EXTENDS PackContracts

Cap(id, kind, schema, carried) == [id |-> id, kind |-> kind, schema |-> schema, carried |-> carried]
Ev(id, kind, schema, carried) == [id |-> id, kind |-> kind, schema |-> schema, carried |-> carried]
Role(id, caps) == [id |-> id, capabilities |-> caps]
Policy(id, required, attempts) == [id |-> id, evidenceRequired |-> required, maxAttempts |-> attempts]
Flow(id, stages) == [id |-> id, schema |-> "valid", carried |-> "json", stages |-> stages]
Entry(id, flow) == [id |-> id, flow |-> flow]

Tool == Cap("tool", "deterministic", "valid", "json")
Draft == Cap("draft", "agent", "valid", "json")
Verdict == Ev("verdict", "json-schema", "valid", "json")

First ==
  [id |-> "s1", capability |-> "tool", role |-> "none", needs |-> {}, fanout |-> "singleton",
   over |-> FALSE, requiresEvidence |-> {}, policy |-> "none", shellCondition |-> FALSE]
Second == [First EXCEPT !.id = "s2", !.needs = {"s1"}]

Base ==
  [strictFields |-> TRUE,
   defaultPolicy |-> "free",
   capabilities |-> <<Tool, Draft>>,
   roles |-> <<Role("writer", {"draft"})>>,
   evidence |-> <<Verdict>>,
   policies |-> <<Policy("free", FALSE, 1), Policy("strict", TRUE, 2)>>,
   flows |-> <<Flow("f1", <<First, Second>>)>>,
   entrypoints |-> <<Entry("e1", "f1")>>]

WithStage(p, s) == [p EXCEPT !.flows = <<Flow("f1", <<First, s>>)>>]

\* What a policy demands of a stage.
PolicyPacks ==
  {WithStage([Base EXCEPT !.defaultPolicy = d, !.policies = p],
             [Second EXCEPT !.policy = q, !.requiresEvidence = e]) :
     d \in {"free", "strict", "zz"},
     p \in {Base.policies, <<Policy("free", TRUE, 1), Policy("strict", FALSE, 0)>>,
            <<Policy("free", FALSE, 1), Policy("strict", TRUE, 2), Policy("free", TRUE, 1)>>},
     q \in {"none", "free", "strict", "zz"},
     e \in {{}, {"verdict"}, {"zz"}, {"verdict", "zz"}}}

\* What a stage does, who does it and what proves it.
WorkPacks ==
  {WithStage([Base EXCEPT !.capabilities = c, !.roles = r, !.evidence = v],
             [Second EXCEPT !.capability = k, !.role = o, !.requiresEvidence = e]) :
     c \in {<<Tool, Draft>>, <<Tool, Draft, Tool>>, <<Tool, Cap("draft", "agent", "invalid", "json")>>,
            <<Tool, Cap("draft", "agent", "valid", "yaml")>>},
     r \in {<<>>, <<Role("writer", {"draft"})>>, <<Role("writer", {"tool"})>>,
            <<Role("writer", {"draft", "zz"})>>},
     v \in {<<Verdict>>, <<Ev("verdict", "json-schema", "none", "json")>>,
            <<Ev("verdict", "artifact", "none", "json")>>, <<Ev("verdict", "artifact", "valid", "yaml")>>,
            <<Verdict, Ev("verdict", "artifact", "none", "json")>>},
     k \in {"tool", "draft", "zz"},
     o \in {"none", "writer", "zz"},
     e \in {{}, {"verdict"}}}

\* Which stages there are and how they are reached.
FlowPacks ==
  {[Base EXCEPT !.flows = f, !.entrypoints = e, !.strictFields = b] :
     f \in {Base.flows, <<Flow("f1", <<First>>), Flow("f2", <<First, Second>>)>>,
            <<Flow("f1", <<First>>), Flow("f1", <<First, Second>>)>>,
            <<[Flow("f1", <<First>>) EXCEPT !.carried = "yaml"]>>,
            <<Flow("f1", <<>>)>>,
            <<Flow("f1", <<First, [Second EXCEPT !.id = "s1"]>>)>>}
           \cup {<<Flow("f1", <<[First EXCEPT !.needs = n], [Second EXCEPT !.fanout = m, !.over = o]>>)>> :
                   n \in SUBSET {"s1", "s2", "zz"}, m \in {"singleton", "each"}, o \in BOOLEAN},
     e \in {<<>>, Base.entrypoints, <<Entry("e1", "f1"), Entry("e2", "f1")>>, <<Entry("e1", "f2")>>,
            <<Entry("e1", "f1"), Entry("e1", "f2")>>},
     b \in BOOLEAN}

MCPacks == PolicyPacks \cup WorkPacks \cup FlowPacks

Request(c, f, e, o) == [command |-> c, flow |-> f, entrypoint |-> e, out |-> o]

MCRequests ==
  {Request(c, "none", "none", "none") : c \in {"validate", "inspect"}}
  \cup {Request("schema", "none", "none", o) : o \in {"none", "writable", "unwritable"}}
  \cup {Request("compile", f, e, "none") : f \in {"none", "f1", "f2"}, e \in {"none", "e1"}}
  \cup {Request("compile", "f1", "none", o) : o \in {"writable", "unwritable"}}

=============================================================================
