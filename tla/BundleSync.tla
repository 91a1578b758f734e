----------------------------- MODULE BundleSync -----------------------------
(***************************************************************************)
(* scripts/sync_openclip_pack.py: it verifies the bundle in an OpenClip    *)
(* checkout against the bundle's own lock, describes where the checkout    *)
(* stands, and then deletes and writes files in this repository one after  *)
(* another: pack, fixture, lock.json, the other files of the bundle in the *)
(* order of the lock, SOURCE.lock.json.  With --check it only compares.    *)
(* The script may die between two writes or in one, and be started again;  *)
(* the checkout belongs to its developers, who edit it and move it to      *)
(* other commits.                                                          *)
(*                                                                         *)
(* The content of a file is a name; its SHA-256 is the content itself.     *)
(* Locks gives the entries of a lock.json in the order of the script (the  *)
(* manifest, roleContracts, compiledPlans; a path may come twice), Compiled *)
(* what the loader and the compiler make of a manifest, Meaning the JSON   *)
(* value of a plan, which may be formatted in several ways.                *)
(***************************************************************************)
EXTENDS Naturals, Sequences, FiniteSets

CONSTANTS
  Revisions,       \* commits of OpenClip
  Tree,            \* [Revisions -> the content of each source file]
  Paths,           \* where role contracts and compiled plans may be
  RoleCount,       \* how many role contracts a lock must list
  Locks,           \* content of a lock -> its entries
  Compiled,        \* content of a manifest -> JSON value of its shorts plan
  Meaning,         \* content of a plan -> its JSON value
  Digest,          \* JSON value of a plan -> its planDigest, "wrong" if that is not its own
  Tagged,          \* revisions that carry the tag of their version
  Published,       \* version -> what its tag on the remote resolves to, or "none"
  RequireRelease,  \* --require-release
  Edits,           \* <<file, content>>: uncommitted changes
  Moves,           \* the checkout may change while the script reads it
  Faults           \* subset of {"crash", "tear"}

Bundle == {"lock", "manifest"} \cup Paths
SourceFiles == Bundle \cup {"version"}
DestFiles == Bundle \cup {"pack", "fixture"}
Pending == DestFiles \cup {"source-lock"}

\* A plan of the flow and the entrypoint shorts is of kind "shorts".
Kinds == {"manifest", "role", "plan", "shorts"}

ASSUME SyncAssumption ==
  /\ \A r \in Revisions : DOMAIN Tree[r] = SourceFiles
  /\ Paths \cap {"lock", "manifest", "version", "pack", "fixture", "source-lock"} = {}
  /\ \A l \in DOMAIN Locks :
       /\ Locks[l] \in Seq([path : {"manifest"} \cup Paths, kind : Kinds,
                            sha : {Locks[l][i].sha : i \in DOMAIN Locks[l]},
                            digest : {Locks[l][i].digest : i \in DOMAIN Locks[l]}])
       /\ Locks[l] # << >> /\ Locks[l][1].path = "manifest"
       /\ \A i \in DOMAIN Locks[l] : Locks[l][i].sha # "absent"
  /\ "absent" \notin DOMAIN Locks /\ "torn" \notin DOMAIN Locks
  /\ Tagged \subseteq Revisions
  /\ RequireRelease \in BOOLEAN /\ Moves \in BOOLEAN
  /\ Faults \subseteq {"crash", "tear"}

VARIABLES
  head,       \* the commit the checkout is at
  tree,       \* its working tree
  phase,      \* where the script is
  checking,   \* it was called with --check
  lock,       \* lock.json as _verified_bundle has parsed it
  count,      \* how many of its entries have been read
  resources,  \* the bytes read so far, by path
  shorts,     \* the bytes of the last shorts plan read, or "none"
  compiled,   \* the shorts plan as compiled from the manifest
  source,     \* provenance: version, commit and release
  pending,    \* what sync has still to delete or to write
  dest,       \* the files of the bundle in this repository, pack and fixture
  pinned,     \* SOURCE.lock.json
  result      \* how the last call ended

read == <<lock, count, resources, shorts, compiled, source>>
checkout == <<head, tree>>
installed == <<dest, pinned>>

vars == <<head, tree, phase, checking, lock, count, resources, shorts, compiled, source,
          pending, dest, pinned, result>>

NoFile == [commit |-> "absent"]
TornFile == [commit |-> "torn"]

NoResources == [f \in {} |-> "none"]
Unknown == [version |-> "none", commit |-> "none"]

Init ==
  /\ head \in Revisions
  /\ tree = Tree[head]
  /\ phase = "idle"
  /\ checking = FALSE
  /\ lock = "none" /\ count = 0 /\ resources = NoResources
  /\ shorts = "none" /\ compiled = "none" /\ source = Unknown
  /\ pending = {}
  /\ dest = [f \in DestFiles |-> "absent"]
  /\ pinned = NoFile
  /\ result = "none"

(***************************************************************************)
(* The checkout and its developers.                                        *)
(***************************************************************************)
MayMove == phase = "idle" \/ Moves

\* A new call forgets the result of the last one, and so does the checkout.
Moved == result' = IF phase = "idle" THEN "none" ELSE result

Checkout(r) ==
  /\ MayMove
  /\ head' = r
  /\ tree' = Tree[r]
  /\ Moved
  /\ UNCHANGED <<phase, checking, read, pending, installed>>

\* Bound: one uncommitted change at a time.
Edit(e) ==
  /\ MayMove
  /\ tree = Tree[head]
  /\ tree' = [tree EXCEPT ![e[1]] = e[2]]
  /\ Moved
  /\ UNCHANGED <<head, phase, checking, read, pending, installed>>

(***************************************************************************)
(* The end of a call.                                                      *)
(***************************************************************************)
Finish(outcome) ==
  /\ result' = outcome
  /\ phase' = "idle"
  /\ checking' = FALSE
  /\ lock' = "none" /\ count' = 0 /\ resources' = NoResources
  /\ shorts' = "none" /\ compiled' = "none" /\ source' = Unknown
  /\ pending' = {}
  /\ UNCHANGED checkout

\* An exception leaves the script before it has written anything.
Reject == Finish("error") /\ UNCHANGED installed

Proceed(to) == phase' = to /\ UNCHANGED <<checking, lock, pending, checkout, installed, result>>

(***************************************************************************)
(* _verified_bundle                                                        *)
(***************************************************************************)
\* lock.json is read and parsed.
Begin(check) ==
  /\ phase = "idle"
  /\ IF tree["lock"] \in DOMAIN Locks
     THEN /\ lock' = tree["lock"]
          /\ checking' = check
          /\ phase' = "parsed"
          /\ result' = "none"
          /\ UNCHANGED <<count, resources, shorts, compiled, source, pending, checkout, installed>>
     ELSE Reject

\* The bytes of lock.json that are installed are those of a second read.
StoreLock ==
  /\ phase = "parsed"
  /\ resources' = [f \in {"lock"} |-> tree["lock"]]
  /\ Proceed("reading")
  /\ UNCHANGED <<count, shorts, compiled, source>>

Locked(l) == {Locks[l][i].path : i \in DOMAIN Locks[l]}

RoleEntries(l) == {i \in DOMAIN Locks[l] : Locks[l][i].kind = "role"}

\* Does not count the role contracts.
LockIsComplete_AnyRoles(l) == \E i \in DOMAIN Locks[l] : Locks[l][i].kind \in {"plan", "shorts"}

\* The list of role contracts has its length, that of plans is not empty.
LockIsComplete(l) ==
  /\ Cardinality(RoleEntries(l)) = RoleCount
  /\ \E i \in DOMAIN Locks[l] : Locks[l][i].kind \in {"plan", "shorts"}

\* add: the resource is there and has the SHA-256 of the lock.  A plan carries
\* the digest of its body and of the lock.
Accepts(e) ==
  /\ tree[e.path] = e.sha
  /\ e.kind \in {"plan", "shorts"} =>
       /\ e.sha \in DOMAIN Meaning
       /\ Digest[Meaning[e.sha]] = e.digest /\ e.digest # "wrong"

\* An entry after the other; what the script asks of the lists is asked here
\* of each entry, an exception being the same wherever it is raised.
ReadResource ==
  /\ phase = "reading"
  /\ count < Len(Locks[lock])
  /\ LET e == Locks[lock][count + 1] IN
     IF LockIsComplete(lock) /\ Accepts(e)
     THEN /\ count' = count + 1
          /\ resources' = [f \in DOMAIN resources \cup {e.path} |->
                             IF f = e.path THEN tree[f] ELSE resources[f]]
          /\ shorts' = IF e.kind = "shorts" THEN tree[e.path] ELSE shorts
          /\ Proceed("reading")
          /\ UNCHANGED <<compiled, source>>
     ELSE Reject

PlanIsFresh(manifest) ==
  /\ manifest \in DOMAIN Compiled
  /\ shorts \in DOMAIN Meaning
  /\ Compiled[manifest] = Meaning[shorts]

\* There is a shorts plan.  The manifest is read once more and compiled; the
\* plan must be the one the bundle brings along.
CompilePack ==
  /\ phase = "reading"
  /\ count = Len(Locks[lock])
  /\ IF PlanIsFresh(tree["manifest"])
     THEN /\ compiled' = Compiled[tree["manifest"]]
          /\ Proceed("verified")
          /\ UNCHANGED <<count, resources, shorts, source>>
     ELSE Reject

(***************************************************************************)
(* _source_provenance                                                      *)
(***************************************************************************)
\* git status, and the version of the working tree.
CheckClean ==
  /\ phase = "verified"
  /\ IF tree = Tree[head]
     THEN /\ source' = [source EXCEPT !.version = tree["version"]]
          /\ Proceed("clean")
          /\ UNCHANGED <<count, resources, shorts, compiled>>
     ELSE Reject

\* git rev-parse HEAD
ReadCommit ==
  /\ phase = "clean"
  /\ source' = [source EXCEPT !.commit = head]
  /\ Proceed("located")
  /\ UNCHANGED <<count, resources, shorts, compiled>>

IsRelease(version) == head \in Tagged /\ Tree[head]["version"] = version

\* Trusts the local tag.
MayInstall_LocalTag(version, commit) == RequireRelease => IsRelease(version)

\* --require-release: HEAD has the tag of the version, and the tag on the
\* remote resolves to the commit.
MayInstall(version, commit) ==
  RequireRelease =>
    /\ IsRelease(version)
    /\ Published[version] = commit

(***************************************************************************)
(* sync                                                                    *)
(***************************************************************************)
\* What is wanted in each place.
Desired(f) ==
  CASE f = "pack" -> resources["manifest"]
    [] f = "fixture" -> compiled
    [] f \in DOMAIN resources -> resources[f]
    [] OTHER -> "absent"

Wanted == {"pack", "fixture"} \cup DOMAIN resources

EntryPaths == [i \in DOMAIN Locks[lock] |-> Locks[lock][i].path]

\* lock.json goes last.
Order_LockLast == <<"pack", "fixture">> \o EntryPaths \o <<"lock">>

\* The order of desired, a dict: of a path that comes twice the first counts.
Order == <<"pack", "fixture", "lock">> \o EntryPaths

Earlier(f, g) ==
  \E i \in DOMAIN Order : Order[i] = f /\ \A j \in 1..i : Order[j] # g

\* _source_lock; the release is a function of version and commit.
SourceLock ==
  [commit |-> source.commit,
   pack |-> Locks[lock][1].sha,
   bundleLock |-> resources["lock"],
   roles |-> [i \in RoleEntries(lock) |-> Locks[lock][i]],
   fixture |-> compiled]

Extra == {f \in Bundle \ Wanted : dest[f] # "absent"}

UpToDate == pinned = SourceLock /\ \A f \in Wanted : dest[f] = Desired(f)

\* The end of _source_provenance (git tag, ls-remote) and the comparison.
Compare ==
  /\ phase = "located"
  /\ IF ~MayInstall(source.version, source.commit)
     THEN Reject
     ELSE IF checking
     THEN /\ Finish(IF UpToDate /\ Extra = {} THEN "synced" ELSE "stale")
          /\ UNCHANGED installed
     ELSE /\ phase' = "deleting"
          /\ pending' = Extra
          /\ UNCHANGED <<checking, read, checkout, installed, result>>

Delete(f) ==
  /\ phase = "deleting"
  /\ f \in pending
  /\ dest' = [dest EXCEPT ![f] = "absent"]
  /\ pending' = pending \ {f}
  /\ UNCHANGED <<phase, checking, read, checkout, pinned, result>>

BeginWrites ==
  /\ phase = "deleting"
  /\ pending = {}
  /\ pending' = Wanted \cup {"source-lock"}
  /\ phase' = "writing"
  /\ UNCHANGED <<checking, read, checkout, installed, result>>

\* A file that is there is taken to be right.
Put_IfAbsent(f) == IF dest[f] = "absent" THEN Desired(f) ELSE dest[f]

Put(f) == Desired(f)

IsNext(f) ==
  /\ f \in pending \ {"source-lock"}
  /\ \A g \in pending \ {f, "source-lock"} : Earlier(f, g)

Write(f) ==
  /\ phase = "writing"
  /\ IsNext(f)
  /\ dest' = [dest EXCEPT ![f] = Put(f)]
  /\ pending' = pending \ {f}
  /\ UNCHANGED <<phase, checking, read, checkout, pinned, result>>

WriteSourceLock ==
  /\ phase = "writing"
  /\ pending = {"source-lock"}
  /\ pinned' = SourceLock
  /\ Finish("synced")
  /\ UNCHANGED dest

\* The script dies between two steps, or in a write, which begins by
\* emptying the file.
Crash ==
  /\ "crash" \in Faults
  /\ phase \in {"deleting", "writing"}
  /\ Finish("crashed")
  /\ UNCHANGED installed

Tear ==
  /\ "tear" \in Faults
  /\ phase = "writing"
  /\ \/ /\ \E f \in DestFiles : IsNext(f) /\ dest' = [dest EXCEPT ![f] = "torn"]
        /\ UNCHANGED pinned
     \/ /\ pending = {"source-lock"}
        /\ pinned' = TornFile
        /\ UNCHANGED dest
  /\ Finish("crashed")

Step ==
  \/ \E check \in BOOLEAN : Begin(check)
  \/ StoreLock \/ ReadResource \/ CompilePack
  \/ CheckClean \/ ReadCommit \/ Compare
  \/ \E f \in Bundle : Delete(f)
  \/ BeginWrites
  \/ \E f \in DestFiles : Write(f)
  \/ WriteSourceLock

Next ==
  \/ Step
  \/ \E r \in Revisions : Checkout(r)
  \/ \E e \in Edits : Edit(e)
  \/ Crash \/ Tear

Spec == Init /\ [][Next]_vars

-----------------------------------------------------------------------------
Contents == (UNION {{Tree[r][f] : f \in SourceFiles} : r \in Revisions})
              \cup {e[2] : e \in Edits} \cup {Compiled[m] : m \in DOMAIN Compiled}
              \cup {"absent", "torn"}

FilesOf(l) == {"lock"} \cup Locked(l)

\* Types; a source lock pins the full number of role contracts, and the
\* provenance is known before anything is deleted.
TypeOK ==
  /\ head \in Revisions
  /\ DOMAIN tree = SourceFiles
  /\ phase \in {"idle", "parsed", "reading", "verified", "clean", "located",
                "deleting", "writing"}
  /\ DOMAIN resources \subseteq Bundle
  /\ pending \subseteq Pending
  /\ phase \in {"deleting", "writing"} =>
       /\ source.commit \in Revisions
       /\ ~checking
       /\ DOMAIN resources = FilesOf(lock)
  /\ dest \in [DestFiles -> Contents]
  /\ \/ pinned \in {NoFile, TornFile}
     \/ pinned.commit \in Revisions /\ Cardinality(DOMAIN pinned.roles) = RoleCount
  /\ result \in {"none", "synced", "stale", "error", "crashed"}

\* What the bundle of revision r has in each place that it fills: its files,
\* the mirror of its manifest, and its plan in canonical form.
Content(r, f) ==
  CASE f = "pack" -> Tree[r]["manifest"]
    [] f = "fixture" -> Compiled[Tree[r]["manifest"]]
    [] OTHER -> Tree[r][f]

\* That bundle is installed, each file its lock names and no other one.
IsBundleOf(r) ==
  \A f \in DestFiles :
    dest[f] = IF f \in {"pack", "fixture"} \cup FilesOf(Tree[r]["lock"])
              THEN Content(r, f) ELSE "absent"

(***************************************************************************)
(* When a call reports that the bundle is synced, be it after writing or   *)
(* with --check, then what is installed is the whole bundle of the commit  *)
(* that SOURCE.lock.json names, whatever earlier calls have left behind.   *)
(***************************************************************************)
SyncedIsWhole == result = "synced" => IsBundleOf(pinned.commit)

\* tests/test_openclip_domain_pack.py, of the files as they are.
ConformanceTestsPass ==
  /\ pinned \notin {NoFile, TornFile}
  /\ dest["lock"] \in DOMAIN Locks
  /\ pinned.bundleLock = dest["lock"]
  /\ pinned.pack = dest["pack"] /\ dest["manifest"] = dest["pack"]
  /\ Cardinality(RoleEntries(dest["lock"])) = RoleCount
  /\ Cardinality(DOMAIN pinned.roles) = RoleCount
  /\ \A i \in DOMAIN Locks[dest["lock"]] :
       dest[Locks[dest["lock"]][i].path] = Locks[dest["lock"]][i].sha
  /\ dest["pack"] \in DOMAIN Compiled
  /\ dest["fixture"] = Compiled[dest["pack"]] /\ pinned.fixture = dest["fixture"]

(***************************************************************************)
(* A mixture of two bundles never passes for a bundle: whenever the tests  *)
(* of the repository accept the files, during the writes and after a crash *)
(* too, the files are the whole bundle of the commit that is pinned.  The  *)
(* tests do not look for files that should not be there.  What makes up    *)
(* for it is the order of sync: it deletes first, and lock.json is the     *)
(* first file of the bundle that it writes.                                *)
(***************************************************************************)
MixturesAreDetected == ConformanceTestsPass => IsBundleOf(pinned.commit)

(***************************************************************************)
(* With --require-release nothing reaches this repository, not even for a  *)
(* moment, but the contents of revisions that carry a published tag, and   *)
(* what is compiled from them.                                             *)
(***************************************************************************)
Released == {r \in Revisions : r \in Tagged /\ Published[Tree[r]["version"]] = r}

OnlyReleasedFiles ==
  RequireRelease =>
    /\ \A f \in DestFiles :
         dest[f] \in {"absent", "torn"} \/ \E r \in Released : dest[f] = Content(r, f)
    /\ pinned \notin {NoFile, TornFile} => pinned.commit \in Released

=============================================================================
