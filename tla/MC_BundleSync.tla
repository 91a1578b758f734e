---------------------------- MODULE MC_BundleSync ----------------------------
(***************************************************************************)
(* Five commits.  r1 is release v1, which lists its only role contract     *)
(* twice; r2 is release v2, with another manifest.  r3 carries a local tag *)
(* v2 that the remote does not have.  r4 is release v3: r1 and a second    *)
(* plan.  r5 is release v4, whose lock lists one role contract.  A         *)
(* developer may break or reformat lock.json, or give it a wrong digest.   *)
(***************************************************************************)
EXTENDS BundleSync

MCRevisions == {"r1", "r2", "r3", "r4", "r5"}

MCPaths == {"role", "short", "more"}

Files(v, l, m, r, s, x) ==
  [version |-> v, lock |-> l, manifest |-> m, role |-> r, short |-> s, more |-> x]

MCTree ==
  [r1 |-> Files("v1", "l1", "m1", "a1", "p1", "absent"),
   r2 |-> Files("v2", "l2", "m2", "a1", "p2", "absent"),
   r3 |-> Files("v2", "l3", "m2", "a1", "p3", "absent"),
   r4 |-> Files("v3", "l4", "m1", "a1", "p1", "q1"),
   r5 |-> Files("v4", "l5", "m1", "a1", "p1", "absent")]

Entry(path, kind, sha, digest) == [path |-> path, kind |-> kind, sha |-> sha, digest |-> digest]

Manifest(m) == Entry("manifest", "manifest", m, "none")
Role(r, sha) == Entry(r, "role", sha, "none")
Short(p, digest) == Entry("short", "shorts", p, digest)

L1 == <<Manifest("m1"), Role("role", "a1"), Role("role", "a1"), Short("p1", "d1")>>

MCLocks ==
  [l1 |-> L1,
   l1x |-> L1,
   l1d |-> [L1 EXCEPT ![4].digest = "d2"],
   l2 |-> <<Manifest("m2"), Role("role", "a1"), Role("role", "a1"), Short("p2", "d2")>>,
   l3 |-> <<Manifest("m2"), Role("role", "a1"), Role("role", "a1"), Short("p3", "d2")>>,
   l4 |-> Append(L1, Entry("more", "plan", "q1", "d3")),
   l5 |-> <<Manifest("m1"), Role("role", "a1"), Short("p1", "d1")>>]

\* p2 and p3 are two formats of one plan.
MCCompiled == [m1 |-> "j1", m2 |-> "j2"]
MCMeaning == [p1 |-> "j1", p2 |-> "j2", p3 |-> "j2", q1 |-> "j3"]
MCDigest == [j1 |-> "d1", j2 |-> "d2", j3 |-> "d3"]

MCTagged == {"r1", "r2", "r3", "r4", "r5"}
MCPublished == [v1 |-> "r1", v2 |-> "r2", v3 |-> "r4", v4 |-> "r5"]

MCEdits == {<<"lock", "broken">>, <<"lock", "l1x">>, <<"lock", "l1d">>}

=============================================================================
