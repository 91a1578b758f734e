-------------------------- MODULE BundleSyncProofs --------------------------
(***************************************************************************)
(* Proofs about BundleSync.                                                *)
(*                                                                         *)
(* BaseInv holds whatever the developers of the checkout do, and implies   *)
(* the types.  The other properties need that nobody moves the checkout    *)
(* during a call (~Moves), which the script does not enforce.  Then        *)
(* SteadyInv says that the bytes a call holds are those of one commit, and *)
(* WritesInv what it has already written; both together give SyncedIsWhole *)
(* at the end of a call.  MixturesAreDetected is not inductive: after a    *)
(* crash among the writes the next call may start from any mixture.  Two   *)
(* things tell it from a bundle.  PinnedInv: SOURCE.lock.json describes a  *)
(* commit whose lock is true.  NothingForeign: no file of the bundle is    *)
(* installed that the installed lock.json does not name, which is what the *)
(* tests fail to ask.  It follows from the order of the script: files that *)
(* the new lock does not name are deleted while the old lock is there, and *)
(* lock.json is the first file of the bundle that is written.              *)
(***************************************************************************)
EXTENDS BundleSync, TLAPS

(***************************************************************************)
(* The phases of a call: what it has done by then.                         *)
(***************************************************************************)
Installing == {"deleting", "writing"}
Located == {"located"} \cup Installing
Clean == {"clean"} \cup Located
Verified == {"verified"} \cup Clean
Reading == {"reading"} \cup Verified
Phases == {"idle", "parsed"} \cup Reading

(***************************************************************************)
(* What holds whether or not the checkout moves during a call: the types,  *)
(* and what they need.                                                     *)
(***************************************************************************)
CheckoutOK ==
  /\ head \in Revisions
  /\ DOMAIN tree = SourceFiles
  /\ \A f \in SourceFiles : tree[f] \in Contents

\* The script has read the entries of the lock one after another, and all of
\* them once the bundle is verified; the lock is complete then.
ReadOK ==
  /\ DOMAIN resources \subseteq Bundle
  /\ \A f \in DOMAIN resources : resources[f] \in Contents
  /\ phase # "idle" => lock \in DOMAIN Locks
  /\ phase \notin Reading => count = 0
  /\ phase \in Reading =>
       /\ count \in 0..Len(Locks[lock])
       /\ DOMAIN resources = {"lock"} \cup {Locks[lock][i].path : i \in 1..count}
       /\ count > 0 => LockIsComplete(lock)
  /\ phase \in Verified =>
       /\ count = Len(Locks[lock])
       /\ compiled \in Contents
  /\ source = [version |-> source.version, commit |-> source.commit]
  /\ phase \in Located => source.commit \in Revisions

\* Only a call that writes has something to write, and no call has a result
\* before its end.
PlanOK ==
  /\ phase \in Phases
  /\ phase \in Installing => ~checking
  /\ phase \notin Installing => pending = {}
  /\ phase = "deleting" => pending \subseteq Bundle \ Wanted
  /\ phase = "writing" => pending \subseteq Wanted \cup {"source-lock"}
  /\ result \in {"none", "synced", "stale", "error", "crashed"}
  /\ phase # "idle" => result = "none"

\* What is installed.
InstalledOK ==
  /\ dest \in [DestFiles -> Contents]
  /\ \/ pinned \in {NoFile, TornFile}
     \/ pinned.commit \in Revisions /\ Cardinality(DOMAIN pinned.roles) = RoleCount

BaseInv == CheckoutOK /\ ReadOK /\ PlanOK /\ InstalledOK

(***************************************************************************)
(* What holds when nobody moves the checkout during a call.                *)
(***************************************************************************)
\* What has been read is what is there, and the lock says so.  From the check
\* of git status on, it is what the commit has.
SteadyInv ==
  /\ phase # "idle" => lock = tree["lock"]
  /\ phase \in Reading =>
       /\ \A f \in DOMAIN resources : resources[f] = tree[f]
       /\ \A i \in 1..count : tree[Locks[lock][i].path] = Locks[lock][i].sha
  /\ phase \in Verified => compiled = Compiled[tree["manifest"]]
  /\ phase \in Clean => tree = Tree[head] /\ source.version = tree["version"]
  /\ phase \in Located => source.commit = head
  /\ phase \in Installing => MayInstall(source.version, source.commit)

\* The deletions are done before the first write.
WritesInv ==
  /\ phase = "deleting" => \A f \in Bundle \ Wanted : dest[f] # "absent" => f \in pending
  /\ phase = "writing" =>
       /\ "source-lock" \in pending
       /\ \A f \in Bundle \ Wanted : dest[f] = "absent"
       /\ \A f \in Wanted \ pending : dest[f] = Desired(f)

\* SOURCE.lock.json describes a commit whose lock is true.
PinsACommit ==
  /\ pinned.commit \in Revisions
  /\ pinned.bundleLock = Tree[pinned.commit]["lock"]
  /\ pinned.pack = Tree[pinned.commit]["manifest"]
  /\ pinned.bundleLock \in DOMAIN Locks
  /\ \A i \in DOMAIN Locks[pinned.bundleLock] :
       Tree[pinned.commit][Locks[pinned.bundleLock][i].path] = Locks[pinned.bundleLock][i].sha

PinnedInv == pinned \in {NoFile, TornFile} \/ PinsACommit

\* What lock.json does not name is not there.
NothingForeign ==
  dest["lock"] \in DOMAIN Locks =>
    \A f \in Bundle \ FilesOf(dest["lock"]) : dest[f] = "absent"

SyncInv ==
  /\ BaseInv /\ SteadyInv /\ WritesInv /\ PinnedInv /\ NothingForeign
  /\ SyncedIsWhole /\ OnlyReleasedFiles

(***************************************************************************)
(* What the names mean.                                                    *)
(***************************************************************************)
\* The files of a bundle are files of a checkout and of this repository; the
\* pack, the fixture, the version and SOURCE.lock.json are none of them.
LEMMA BundleNames ==
  /\ {"lock", "manifest"} \subseteq Bundle
  /\ Bundle \subseteq SourceFiles /\ Bundle \subseteq DestFiles
  /\ {"pack", "fixture"} \subseteq DestFiles
  /\ "version" \in SourceFiles
  /\ Bundle \cap {"pack", "fixture", "version", "source-lock"} = {}
  /\ "source-lock" \notin DestFiles
BY SyncAssumption DEF SyncAssumption, Bundle, SourceFiles, DestFiles

\* A lock is a list of entries that begins with the manifest and names files
\* of the bundle, itself not among them.
LEMMA LockEntries ==
  ASSUME NEW l \in DOMAIN Locks
  PROVE  /\ Len(Locks[l]) \in Nat \ {0}
         /\ DOMAIN Locks[l] = 1..Len(Locks[l])
         /\ \A i \in DOMAIN Locks[l] :
              /\ Locks[l][i].path \in Bundle \ {"lock"}
              /\ Locks[l][i].sha # "absent"
         /\ Locks[l][1].path = "manifest"
         /\ Locked(l) \subseteq Bundle \ {"lock"} /\ "manifest" \in Locked(l)
<1> DEFINE E == [path : {"manifest"} \cup Paths, kind : Kinds,
                 sha : {Locks[l][i].sha : i \in DOMAIN Locks[l]},
                 digest : {Locks[l][i].digest : i \in DOMAIN Locks[l]}]
<1>1. /\ Locks[l] \in Seq(E) /\ Locks[l] # << >> /\ Locks[l][1].path = "manifest"
      /\ \A i \in DOMAIN Locks[l] : Locks[l][i].sha # "absent"
      /\ "lock" \notin Paths
  BY SyncAssumption DEF SyncAssumption
<1>2. /\ Len(Locks[l]) \in Nat \ {0} /\ DOMAIN Locks[l] = 1..Len(Locks[l])
      /\ \A i \in DOMAIN Locks[l] : Locks[l][i] \in E
  <2> HIDE DEF E
  <2> QED
    BY <1>1
<1>3. \A i \in DOMAIN Locks[l] : Locks[l][i].path \in Bundle \ {"lock"}
  BY <1>1, <1>2 DEF Bundle
<1>4. 1 \in DOMAIN Locks[l]
  BY <1>2
<1> QED
  BY <1>1, <1>2, <1>3, <1>4 DEF Locked

\* Contents has what the commits, the edits and the plans have.
LEMMA ContentsHas ==
  /\ \A r \in Revisions : \A f \in SourceFiles : Tree[r][f] \in Contents
  /\ \A e \in Edits : e[2] \in Contents
  /\ \A m \in DOMAIN Compiled : Compiled[m] \in Contents
  /\ "absent" \in Contents /\ "torn" \in Contents
BY DEF Contents

\* What sync wants in place of each file.
LEMMA DesiredIs ==
  ASSUME DOMAIN resources \subseteq Bundle
  PROVE  /\ \A f \in DOMAIN resources : Desired(f) = resources[f]
         /\ Desired("pack") = resources["manifest"]
         /\ Desired("fixture") = compiled
         /\ \A f \in Wanted : f \in DOMAIN resources \/ f = "pack" \/ f = "fixture"
BY BundleNames DEF Desired, Wanted

\* Once the bundle is verified, all that its lock names has been read, and
\* whatever sync wants has a content.
LEMMA VerifiedHas ==
  ASSUME ReadOK, phase \in Verified
  PROVE  /\ lock \in DOMAIN Locks /\ LockIsComplete(lock)
         /\ DOMAIN resources = FilesOf(lock) /\ "manifest" \in DOMAIN resources
         /\ Wanted = {"pack", "fixture"} \cup FilesOf(lock)
         /\ \A f \in Wanted : f \in DestFiles /\ Desired(f) \in Contents
<1>1. /\ DOMAIN resources \subseteq Bundle /\ lock \in DOMAIN Locks
      /\ count = Len(Locks[lock]) /\ compiled \in Contents
      /\ DOMAIN resources = {"lock"} \cup {Locks[lock][i].path : i \in 1..count}
      /\ count > 0 => LockIsComplete(lock)
  BY DEF ReadOK, Reading, Verified, Clean, Located, Installing
<1>2. LockIsComplete(lock) /\ DOMAIN resources = FilesOf(lock)
  BY <1>1, LockEntries DEF FilesOf, Locked
<1>3. "manifest" \in DOMAIN resources
  BY <1>1, <1>2, LockEntries DEF FilesOf
<1>4. \A f \in DOMAIN resources : resources[f] \in Contents
  BY DEF ReadOK
<1>5. \A f \in Wanted : f \in DestFiles /\ Desired(f) \in Contents
  BY <1>1, <1>3, <1>4, DesiredIs, BundleNames
<1> QED
  BY <1>1, <1>2, <1>3, <1>5 DEF Wanted

(***************************************************************************)
(* BaseInv is inductive.  One lemma per group of actions.                  *)
(***************************************************************************)
\* Before the first call nothing is read, wanted or installed.
LEMMA BaseInit == Init => BaseInv
<1> SUFFICES ASSUME Init PROVE BaseInv
  OBVIOUS
<1> USE DEF Init, Phases, Reading, Verified, Clean, Located, Installing
<1>1. CheckoutOK
  BY SyncAssumption, ContentsHas DEF CheckoutOK, SyncAssumption
<1>2. ReadOK
  BY DEF ReadOK, Unknown, NoResources
<1>3. PlanOK
  BY DEF PlanOK
<1>4. InstalledOK
  BY ContentsHas DEF InstalledOK
<1> QED
  BY <1>1, <1>2, <1>3, <1>4 DEF BaseInv

\* The checkout is moved, or edited.
LEMMA BaseMoved ==
  ASSUME BaseInv,
         (\E r \in Revisions : Checkout(r)) \/ (\E e \in Edits : Edit(e))
  PROVE  BaseInv'
<1> USE DEF read, installed, Moved
<1>1. CheckoutOK'
  <2>1. ASSUME NEW r \in Revisions, Checkout(r)  PROVE CheckoutOK'
    BY <2>1, SyncAssumption, ContentsHas DEF Checkout, CheckoutOK, SyncAssumption
  <2>2. ASSUME NEW e \in Edits, Edit(e)  PROVE CheckoutOK'
    BY <2>2, ContentsHas DEF Edit, BaseInv, CheckoutOK
  <2> QED
    BY <2>1, <2>2
<1>2. UNCHANGED <<phase, checking, read, pending, installed>>
      /\ result' = (IF phase = "idle" THEN "none" ELSE result)
  BY DEF Checkout, Edit
<1>3. ReadOK'
  BY <1>2 DEF BaseInv, ReadOK
<1>4. PlanOK'
  BY <1>2 DEF BaseInv, PlanOK, Wanted
<1>5. InstalledOK'
  BY <1>2 DEF BaseInv, InstalledOK
<1> QED
  BY <1>1, <1>3, <1>4, <1>5 DEF BaseInv

\* A call ends: it forgets what it has read.
LEMMA BaseForget ==
  ASSUME BaseInv, InstalledOK',
         NEW outcome \in {"synced", "stale", "error", "crashed"}, Finish(outcome)
  PROVE  BaseInv'
<1> USE DEF Finish, Phases, Reading, Verified, Clean, Located, Installing
<1>1. CheckoutOK'
  BY DEF checkout, BaseInv, CheckoutOK
<1>2. ReadOK'
  BY DEF ReadOK, Unknown, NoResources
<1>3. PlanOK'
  BY DEF PlanOK
<1> QED
  BY <1>1, <1>2, <1>3 DEF BaseInv

\* A call that fails leaves what is installed.
LEMMA BaseReject ==
  ASSUME BaseInv, Reject
  PROVE  BaseInv'
BY BaseForget DEF Reject, installed, BaseInv, InstalledOK

\* A step that reads goes on to a phase and leaves the rest alone.
LEMMA BaseProceed ==
  ASSUME BaseInv, NEW to, Proceed(to), ReadOK',
         to \in Phases \ ({"idle"} \cup Installing),
         phase \notin {"idle"} \cup Installing
  PROVE  BaseInv'
<1> USE DEF Proceed, checkout, installed
<1>1. CheckoutOK'
  BY DEF BaseInv, CheckoutOK
<1>2. PlanOK'
  BY DEF BaseInv, PlanOK, Installing
<1>3. InstalledOK'
  BY DEF BaseInv, InstalledOK
<1> QED
  BY <1>1, <1>2, <1>3 DEF BaseInv

\* The steps of _verified_bundle.
LEMMA BaseVerify ==
  ASSUME BaseInv,
         \/ \E check \in BOOLEAN : Begin(check)
         \/ StoreLock \/ ReadResource \/ CompilePack
  PROVE  BaseInv'
<1> USE DEF Phases, Reading, Verified, Clean, Located, Installing
<1>1. ASSUME NEW check \in BOOLEAN, Begin(check), tree["lock"] \in DOMAIN Locks
      PROVE  BaseInv'
  <2> USE <1>1 DEF Begin, checkout, installed
  <2>1. CheckoutOK'
    BY DEF BaseInv, CheckoutOK
  <2>2. ReadOK'
    BY DEF BaseInv, ReadOK
  <2>3. PlanOK'
    BY DEF BaseInv, PlanOK
  <2>4. InstalledOK'
    BY DEF BaseInv, InstalledOK
  <2> QED
    BY <2>1, <2>2, <2>3, <2>4 DEF BaseInv
<1>2. ASSUME StoreLock  PROVE BaseInv'
  <2>1. tree["lock"] \in Contents
    BY BundleNames DEF BaseInv, CheckoutOK
  <2>2. /\ phase = "parsed" /\ phase' = "reading" /\ UNCHANGED <<lock, count, source>>
        /\ DOMAIN resources' = {"lock"} /\ resources'["lock"] = tree["lock"]
    BY <1>2 DEF StoreLock, Proceed
  <2>3. lock \in DOMAIN Locks /\ count = 0 /\ 1..count = {}
    BY <2>2 DEF BaseInv, ReadOK
  <2>4. Len(Locks[lock]) \in Nat
    BY <2>3, LockEntries
  <2>5. ReadOK'
    BY <2>1, <2>2, <2>3, <2>4, BundleNames DEF BaseInv, ReadOK
  <2> QED
    BY <1>2, <2>5, BaseProceed DEF StoreLock
<1>3. ASSUME ReadResource  PROVE BaseInv'
  <2>1. CASE Reject
    BY <2>1, BaseReject
  <2> DEFINE e == Locks[lock][count + 1]
  <2>2. CASE /\ phase = "reading" /\ count < Len(Locks[lock]) /\ LockIsComplete(lock)
             /\ count' = count + 1 /\ Proceed("reading") /\ UNCHANGED <<compiled, source>>
             /\ resources' = [f \in DOMAIN resources \cup {e.path} |->
                                IF f = e.path THEN tree[f] ELSE resources[f]]
    <3>1. /\ lock \in DOMAIN Locks /\ count \in 0..Len(Locks[lock])
          /\ Len(Locks[lock]) \in Nat /\ DOMAIN Locks[lock] = 1..Len(Locks[lock])
      BY <2>2, LockEntries DEF BaseInv, ReadOK
    <3>2. count' \in 1..Len(Locks[lock]) /\ 1..count' = (1..count) \cup {count'}
      BY <2>2, <3>1
    <3>3. e.path \in Bundle /\ tree[e.path] \in Contents
      BY <2>2, <3>1, <3>2, LockEntries, BundleNames DEF BaseInv, CheckoutOK
    <3>4. DOMAIN resources' = {"lock"} \cup {Locks[lock][i].path : i \in 1..count'}
      BY <2>2, <3>2 DEF BaseInv, ReadOK
    <3>5. \A f \in DOMAIN resources' : f \in Bundle /\ resources'[f] \in Contents
      BY <2>2, <3>3 DEF BaseInv, ReadOK
    <3>6. lock' = lock /\ phase' = "reading" /\ source' = source
      BY <2>2 DEF Proceed
    <3>7. LockIsComplete(lock)'
      BY <2>2, <3>6 DEF LockIsComplete, RoleEntries
    <3>8. count' \in 0..Len(Locks[lock]) /\ lock \in DOMAIN Locks
      BY <3>1, <3>2
    <3>9. source = [version |-> source.version, commit |-> source.commit]
      BY DEF BaseInv, ReadOK
    <3>10. ReadOK'
      BY <3>4, <3>5, <3>6, <3>7, <3>8, <3>9 DEF ReadOK
    <3> QED
      BY <2>2, <3>10, BaseProceed
  <2> QED
    BY <1>3, <2>1, <2>2 DEF ReadResource
<1>4. ASSUME CompilePack  PROVE BaseInv'
  <2>1. CASE PlanIsFresh(tree["manifest"])
    <3>1. /\ phase = "reading" /\ phase' = "verified" /\ count = Len(Locks[lock])
          /\ UNCHANGED <<lock, count, resources, source>>
          /\ compiled' \in Contents
      BY <1>4, <2>1, ContentsHas DEF CompilePack, Proceed, PlanIsFresh
    <3>2. ReadOK'
      BY <3>1 DEF BaseInv, ReadOK, LockIsComplete, RoleEntries
    <3> QED
      BY <1>4, <2>1, <3>2, BaseProceed DEF CompilePack
  <2>2. CASE ~PlanIsFresh(tree["manifest"])
    BY <1>4, <2>2, BaseReject DEF CompilePack
  <2> QED
    BY <2>1, <2>2
<1>5. ASSUME NEW check \in BOOLEAN, Begin(check), tree["lock"] \notin DOMAIN Locks
      PROVE  BaseInv'
  BY <1>5, BaseReject DEF Begin
<1> QED
  BY <1>1, <1>2, <1>3, <1>4, <1>5

\* The steps of _source_provenance, and the comparison.
LEMMA BaseLocate ==
  ASSUME BaseInv, CheckClean \/ ReadCommit \/ Compare
  PROVE  BaseInv'
<1> USE DEF Phases, Reading, Verified, Clean, Located, Installing
<1>1. ASSUME CheckClean  PROVE BaseInv'
  <2>1. CASE tree = Tree[head]
    <3>1. ReadOK'
      BY <1>1, <2>1 DEF CheckClean, Proceed, BaseInv, ReadOK, LockIsComplete, Locked
    <3> QED
      BY <1>1, <2>1, <3>1, BaseProceed DEF CheckClean
  <2>2. CASE tree # Tree[head]
    BY <1>1, <2>2, BaseReject DEF CheckClean
  <2> QED
    BY <2>1, <2>2
<1>2. ASSUME ReadCommit  PROVE BaseInv'
  <2>1. ReadOK'
    BY <1>2 DEF ReadCommit, Proceed, BaseInv, CheckoutOK, ReadOK, LockIsComplete, Locked
  <2> QED
    BY <1>2, <2>1, BaseProceed DEF ReadCommit
<1>3. ASSUME Compare  PROVE BaseInv'
  <2>1. CASE Reject
    BY <2>1, BaseReject
  <2>2. CASE /\ Finish(IF UpToDate /\ Extra = {} THEN "synced" ELSE "stale")
             /\ UNCHANGED installed
    BY <2>2, BaseForget DEF installed, BaseInv, InstalledOK
  <2>3. CASE /\ phase = "located" /\ ~checking /\ phase' = "deleting" /\ pending' = Extra
             /\ UNCHANGED <<checking, read, checkout, installed, result>>
    <3> USE <2>3 DEF read, checkout, installed
    <3>1. CheckoutOK'
      BY DEF BaseInv, CheckoutOK
    <3>2. ReadOK'
      BY DEF BaseInv, ReadOK
    <3>3. PlanOK'
      BY DEF BaseInv, PlanOK, Extra, Wanted
    <3>4. InstalledOK'
      BY DEF BaseInv, InstalledOK
    <3> QED
      BY <3>1, <3>2, <3>3, <3>4 DEF BaseInv
  <2> QED
    BY <1>3, <2>1, <2>2, <2>3 DEF Compare
<1> QED
  BY <1>1, <1>2, <1>3

\* The deletions and the writes.
LEMMA BaseInstall ==
  ASSUME BaseInv,
         \/ \E f \in Bundle : Delete(f)
         \/ BeginWrites
         \/ \E f \in DestFiles : Write(f)
         \/ WriteSourceLock
  PROVE  BaseInv'
<1> USE DEF Phases, Reading, Verified, Clean, Located, Installing
<1>1. ASSUME NEW f \in DestFiles, NEW c \in Contents,
             phase \in Installing, phase' = phase,
             dest' = [dest EXCEPT ![f] = c], pending' = pending \ {f},
             UNCHANGED <<checking, read, checkout, pinned, result>>
      PROVE  BaseInv'
  <2> USE <1>1 DEF read, checkout
  <2>1. CheckoutOK'
    BY DEF BaseInv, CheckoutOK
  <2>2. ReadOK'
    BY DEF BaseInv, ReadOK
  <2>3. PlanOK'
    BY DEF BaseInv, PlanOK, Wanted
  <2>4. InstalledOK'
    BY DEF BaseInv, InstalledOK
  <2> QED
    BY <2>1, <2>2, <2>3, <2>4 DEF BaseInv
<1>2. ASSUME NEW f \in Bundle, Delete(f)  PROVE BaseInv'
  BY <1>1, <1>2, BundleNames, ContentsHas DEF Delete
<1>3. ASSUME BeginWrites  PROVE BaseInv'
  <2> USE <1>3 DEF BeginWrites, read, checkout, installed
  <2>1. CheckoutOK'
    BY DEF BaseInv, CheckoutOK
  <2>2. ReadOK'
    BY DEF BaseInv, ReadOK
  <2>3. PlanOK'
    BY DEF BaseInv, PlanOK, Wanted
  <2>4. InstalledOK'
    BY DEF BaseInv, InstalledOK
  <2> QED
    BY <2>1, <2>2, <2>3, <2>4 DEF BaseInv
<1>4. ASSUME NEW f \in DestFiles, Write(f)  PROVE BaseInv'
  <2>1. phase = "writing" /\ f \in pending \ {"source-lock"}
    BY <1>4 DEF Write, IsNext
  <2>2. f \in Wanted
    BY <2>1 DEF BaseInv, PlanOK
  <2>3. Put(f) \in Contents
    BY <2>1, <2>2, VerifiedHas DEF Put, BaseInv
  <2> QED
    BY <1>1, <1>4, <2>1, <2>3 DEF Write
<1>5. ASSUME WriteSourceLock  PROVE BaseInv'
  <2>1. phase = "writing" /\ pinned' = SourceLock /\ dest' = dest
    BY <1>5 DEF WriteSourceLock
  <2>2. LockIsComplete(lock) /\ source.commit \in Revisions
    BY <2>1, VerifiedHas DEF BaseInv, ReadOK
  <2>3. SourceLock.commit = source.commit /\ DOMAIN SourceLock.roles = RoleEntries(lock)
    BY DEF SourceLock
  <2>4. InstalledOK'
    BY <2>1, <2>2, <2>3 DEF BaseInv, InstalledOK, LockIsComplete
  <2> QED
    BY <1>5, <2>4, BaseForget DEF WriteSourceLock
<1> QED
  BY <1>2, <1>3, <1>4, <1>5

\* The script dies.
\* A file that is half written is torn, which is a content too.
LEMMA BaseDies ==
  ASSUME BaseInv, Crash \/ Tear
  PROVE  BaseInv'
<1>1. InstalledOK'
  BY ContentsHas DEF Crash, Tear, installed, BaseInv, InstalledOK
<1> QED
  BY <1>1, BaseForget DEF Crash, Tear

\* Nothing happens.
LEMMA BaseStutter ==
  ASSUME BaseInv, UNCHANGED vars
  PROVE  BaseInv'
BY DEF vars, read, checkout, installed, BaseInv, CheckoutOK, ReadOK, PlanOK, InstalledOK,
       Wanted

\* All steps together.
LEMMA BaseStep == BaseInv /\ [Next]_vars => BaseInv'
BY BaseMoved, BaseVerify, BaseLocate, BaseInstall, BaseDies, BaseStutter DEF Next, Step

\* Whatever the checkout does: a call has read the files its lock names, all of
\* them once the bundle is verified, and writes nothing else.
THEOREM BaseInductive == Spec => []BaseInv
<1>1. Init => BaseInv
  BY BaseInit
<1>2. BaseInv /\ [Next]_vars => BaseInv'
  BY BaseStep
<1> QED
  BY <1>1, <1>2, PTL DEF Spec

(***************************************************************************)
(* Types: whatever happens to the checkout during a call.                  *)
(***************************************************************************)
\* The type invariant follows.
LEMMA BaseIsTyped == BaseInv => TypeOK
<1> SUFFICES ASSUME BaseInv PROVE TypeOK
  OBVIOUS
<1>1. pending \subseteq Pending
  BY BundleNames
  DEF BaseInv, PlanOK, ReadOK, Wanted, Pending, DestFiles, Installing, Phases
<1>2. phase \in Installing => DOMAIN resources = FilesOf(lock)
  BY VerifiedHas DEF BaseInv, Verified, Clean, Located
<1> QED
  BY <1>1, <1>2 DEF BaseInv, CheckoutOK, ReadOK, PlanOK, InstalledOK, TypeOK,
              Phases, Reading, Verified, Clean, Located, Installing

\* No step leaves the types, and nothing is deleted before the provenance is
\* known, even when the checkout moves while the script reads it.
THEOREM BundleSyncTypeCorrect == Spec => []TypeOK
BY BaseInductive, BaseIsTyped, PTL

(***************************************************************************)
(* When the checkout stays put: what has been read is what the commit has. *)
(***************************************************************************)
\* A call that reads while the checkout rests keeps SteadyInv.
LEMMA SteadyStep ==
  ASSUME ~Moves, BaseInv, SteadyInv, [Next]_vars
  PROVE  SteadyInv'
<1> USE DEF Phases, Reading, Verified, Clean, Located, Installing
<1>1. ASSUME phase' = "idle"  PROVE SteadyInv'
  BY <1>1 DEF SteadyInv
<1>2. ASSUME (\E r \in Revisions : Checkout(r)) \/ (\E e \in Edits : Edit(e))
      PROVE  SteadyInv'
  BY <1>1, <1>2 DEF Checkout, Edit, MayMove
<1>3. ASSUME Reject \/ Crash \/ Tear  PROVE SteadyInv'
  BY <1>1, <1>3 DEF Reject, Crash, Tear, Finish
<1>4. ASSUME UNCHANGED <<read, checkout>>,
             phase' \in {phase, "deleting", "writing"},
             phase' \in Installing =>
               phase \in Located /\ MayInstall(source.version, source.commit)
      PROVE  SteadyInv'
  BY <1>4 DEF SteadyInv, read, checkout, MayInstall, IsRelease
<1>5. ASSUME NEW check \in BOOLEAN, Begin(check)  PROVE SteadyInv'
  BY <1>3, <1>5 DEF Begin, checkout, SteadyInv
<1>6. ASSUME StoreLock  PROVE SteadyInv'
  <2>1. count' = 0 /\ 1..count' = {}
    BY <1>6 DEF StoreLock, BaseInv, ReadOK
  <2> QED
    BY <1>6, <2>1 DEF StoreLock, Proceed, checkout, SteadyInv
<1>7. ASSUME ReadResource  PROVE SteadyInv'
  <2>1. CASE Reject
    BY <1>3, <2>1
  <2> DEFINE e == Locks[lock][count + 1]
  <2>2. CASE /\ phase = "reading" /\ count' = count + 1 /\ Proceed("reading") /\ Accepts(e)
             /\ resources' = [f \in DOMAIN resources \cup {e.path} |->
                                IF f = e.path THEN tree[f] ELSE resources[f]]
    <3>1. 1..count' = (1..count) \cup {count + 1}
      BY <2>2, LockEntries DEF BaseInv, ReadOK
    <3>2. lock' = lock /\ phase' = "reading" /\ tree' = tree
      BY <2>2 DEF Proceed, checkout
    <3>3. \A f \in DOMAIN resources' : resources'[f] = tree[f]
      BY <2>2 DEF SteadyInv
    <3>4. \A i \in 1..count' : tree[Locks[lock][i].path] = Locks[lock][i].sha
      BY <2>2, <3>1 DEF SteadyInv, Accepts
    <3>5. lock = tree["lock"]
      BY <2>2 DEF SteadyInv
    <3> QED
      BY <3>2, <3>3, <3>4, <3>5 DEF SteadyInv
  <2> QED
    BY <1>7, <2>1, <2>2 DEF ReadResource
<1>8. ASSUME CompilePack  PROVE SteadyInv'
  <2>1. CASE Reject
    BY <1>3, <2>1
  <2>2. CASE /\ phase = "reading" /\ phase' = "verified"
             /\ UNCHANGED <<lock, count, resources, tree>>
             /\ compiled' = Compiled[tree["manifest"]]
    BY <2>2 DEF SteadyInv
  <2> QED
    BY <1>8, <2>1, <2>2 DEF CompilePack, Proceed, checkout
<1>9. ASSUME CheckClean  PROVE SteadyInv'
  <2>1. CASE tree = Tree[head]
    <3>1. /\ phase = "verified" /\ phase' = "clean"
          /\ UNCHANGED <<lock, count, resources, compiled, head, tree>>
          /\ source'.version = tree["version"]
      BY <1>9, <2>1 DEF CheckClean, Proceed, checkout, BaseInv, ReadOK
    <3> QED
      BY <2>1, <3>1 DEF SteadyInv
  <2>2. CASE tree # Tree[head]
    BY <1>3, <1>9, <2>2 DEF CheckClean
  <2> QED
    BY <2>1, <2>2
<1>10. ASSUME ReadCommit  PROVE SteadyInv'
  <2>1. /\ phase = "clean" /\ phase' = "located"
        /\ UNCHANGED <<lock, count, resources, compiled, head, tree>>
        /\ source'.commit = head /\ source'.version = source.version
    BY <1>10 DEF ReadCommit, Proceed, checkout, BaseInv, ReadOK
  <2> QED
    BY <2>1 DEF SteadyInv
<1>11. ASSUME Compare  PROVE SteadyInv'
  BY <1>1, <1>4, <1>11 DEF Compare, Reject, Finish
<1>12. ASSUME \/ \E f \in Bundle : Delete(f)
              \/ BeginWrites
              \/ \E f \in DestFiles : Write(f)
       PROVE  SteadyInv'
  <2>1. phase \in Installing /\ phase' \in Installing /\ UNCHANGED <<read, checkout>>
    BY <1>12 DEF Delete, BeginWrites, Write
  <2> QED
    BY <1>4, <2>1 DEF SteadyInv
<1>13. ASSUME WriteSourceLock  PROVE SteadyInv'
  BY <1>1, <1>13 DEF WriteSourceLock, Finish
<1>14. ASSUME UNCHANGED vars  PROVE SteadyInv'
  BY <1>4, <1>14 DEF vars, read, checkout, SteadyInv
<1> QED
  BY <1>2, <1>3, <1>5, <1>6, <1>7, <1>8, <1>9, <1>10, <1>11, <1>12, <1>13, <1>14
  DEF Next, Step

(***************************************************************************)
(* The deletions come before the writes, and SOURCE.lock.json after them.  *)
(***************************************************************************)
\* Each step of sync takes one file off the list, and that file is done.
LEMMA WritesStep ==
  ASSUME BaseInv, WritesInv, [Next]_vars
  PROVE  WritesInv'
<1> USE DEF Phases, Reading, Verified, Clean, Located, Installing
<1>1. ASSUME phase' \notin Installing  PROVE WritesInv'
  BY <1>1 DEF WritesInv
<1>2. ASSUME UNCHANGED <<phase, read, pending, dest>>  PROVE WritesInv'
  BY <1>2 DEF WritesInv, Wanted, Desired, read
<1>3. ASSUME \/ \E r \in Revisions : Checkout(r)
             \/ \E e \in Edits : Edit(e)
             \/ UNCHANGED vars
      PROVE  WritesInv'
  BY <1>2, <1>3 DEF Checkout, Edit, vars, read, installed
<1>4. ASSUME Reject \/ Crash \/ Tear \/ WriteSourceLock  PROVE WritesInv'
  BY <1>1, <1>4 DEF Reject, Crash, Tear, WriteSourceLock, Finish
<1>5. ASSUME \/ \E check \in BOOLEAN : Begin(check)
             \/ StoreLock \/ ReadResource \/ CompilePack
             \/ CheckClean \/ ReadCommit
      PROVE  WritesInv'
  BY <1>1, <1>4, <1>5
  DEF Begin, StoreLock, ReadResource, CompilePack, CheckClean,
      ReadCommit, Proceed
<1>6. ASSUME Compare  PROVE WritesInv'
  <2>1. CASE phase' = "idle"
    BY <1>1, <2>1
  <2>2. CASE phase' = "deleting" /\ pending' = Extra /\ UNCHANGED <<read, installed>>
    BY <2>2 DEF WritesInv, Extra, Wanted, read, installed
  <2> QED
    BY <1>6, <2>1, <2>2 DEF Compare, Reject, Finish
<1>7. ASSUME NEW f \in Bundle, Delete(f)  PROVE WritesInv'
  <2>1. /\ phase = "deleting" /\ phase' = "deleting" /\ resources' = resources
        /\ pending' = pending \ {f}
        /\ \A g \in DestFiles : dest'[g] = IF g = f THEN "absent" ELSE dest[g]
    BY <1>7 DEF Delete, read, BaseInv, InstalledOK
  <2> QED
    BY <2>1, BundleNames DEF WritesInv, Wanted
<1>8. ASSUME BeginWrites  PROVE WritesInv'
  BY <1>8 DEF BeginWrites, WritesInv, Wanted, read, installed
<1>9. ASSUME NEW f \in DestFiles, Write(f)  PROVE WritesInv'
  <2>1. /\ phase = "writing" /\ phase' = "writing" /\ UNCHANGED <<read, pinned>>
        /\ pending' = pending \ {f} /\ f \in pending \ {"source-lock"}
        /\ \A g \in DestFiles : dest'[g] = IF g = f THEN Desired(f) ELSE dest[g]
    BY <1>9 DEF Write, IsNext, Put, BaseInv, InstalledOK
  <2>2. f \in Wanted
    BY <2>1 DEF BaseInv, PlanOK
  <2>3. Wanted' = Wanted /\ \A g : Desired(g)' = Desired(g)
    BY <2>1 DEF Wanted, Desired, read
  <2>4. \A g \in Wanted : g \in DestFiles
    BY <2>1, VerifiedHas DEF BaseInv
  <2> QED
    BY <2>1, <2>2, <2>3, <2>4, BundleNames DEF WritesInv
<1> QED
  BY <1>3, <1>4, <1>5, <1>6, <1>7, <1>8, <1>9 DEF Next, Step

(***************************************************************************)
(* The files of a bundle are written after the lock that names them.       *)
(***************************************************************************)
\* While lock.json is still to be written, no other file of the bundle is next.
LEMMA LockComesFirst ==
  ASSUME BaseInv, phase = "writing", NEW f \in Bundle \ {"lock"}, IsNext(f)
  PROVE  "lock" \notin pending
<1> SUFFICES ASSUME "lock" \in pending PROVE FALSE
  OBVIOUS
<1>1. Earlier(f, "lock")
  BY BundleNames DEF IsNext
<1>2. PICK i \in DOMAIN Order : Order[i] = f /\ \A j \in 1..i : Order[j] # "lock"
  BY <1>1 DEF Earlier
<1> DEFINE n == Len(Locks[lock])
           P == {Locks[lock][k].path : k \in 1..n}
<1>3. EntryPaths \in Seq(P)
  <2>1. n \in Nat /\ DOMAIN Locks[lock] = 1..n
    BY LockEntries DEF BaseInv, ReadOK
  <2> QED
    BY <2>1 DEF EntryPaths
<1>4. /\ DOMAIN Order \subseteq Nat \ {0}
      /\ Order[1] = "pack" /\ Order[2] = "fixture" /\ Order[3] = "lock"
  <2> HIDE DEF P
  <2> QED
    BY <1>3 DEF Order
<1>5. i \in 1..2
  BY <1>2, <1>4
<1> QED
  BY <1>2, <1>4, <1>5, BundleNames

\* A file is written, or torn: the lock, when no file is left that it does not
\* name, or another one, when the lock that names it is there.
LEMMA ForeignWrite ==
  ASSUME BaseInv, SteadyInv, WritesInv, NothingForeign, phase = "writing",
         NEW f \in DestFiles, IsNext(f),
         NEW c \in {Desired(f), "torn"}, dest' = [dest EXCEPT ![f] = c]
  PROVE  NothingForeign'
<1> USE DEF Phases, Reading, Verified, Clean, Located, Installing
<1>1. /\ lock \in DOMAIN Locks /\ Wanted = {"pack", "fixture"} \cup FilesOf(lock)
      /\ DOMAIN resources = FilesOf(lock)
  BY VerifiedHas DEF BaseInv
<1>2. \A g \in Bundle : dest'[g] = IF g = f THEN c ELSE dest[g]
  BY BundleNames DEF BaseInv, InstalledOK
<1>3. Desired("lock") = lock
  BY <1>1, BundleNames DEF SteadyInv, Desired, FilesOf
<1>4. \A g \in Bundle \ FilesOf(lock) : dest[g] = "absent"
  BY <1>1, BundleNames DEF WritesInv
<1>5. CASE f \notin Bundle
  BY <1>2, <1>5, BundleNames DEF NothingForeign, FilesOf, Locked
<1>6. CASE f = "lock" /\ c = "torn"
  BY <1>2, <1>6, SyncAssumption, BundleNames DEF NothingForeign, SyncAssumption
<1>7. CASE f = "lock" /\ c = Desired(f)
  <2>1. dest'["lock"] = lock
    BY <1>2, <1>3, <1>7, BundleNames
  <2>2. \A g \in Bundle \ FilesOf(lock) : g # "lock"
    BY DEF FilesOf
  <2> QED
    BY <1>2, <1>4, <1>7, <2>1, <2>2 DEF NothingForeign, FilesOf, Locked
<1>8. CASE f \in Bundle \ {"lock"}
  <2>1. "lock" \notin pending /\ f \in Wanted
    BY <1>8, LockComesFirst, BundleNames DEF IsNext, BaseInv, PlanOK
  <2>2. dest["lock"] = lock
    BY <1>1, <1>3, <2>1 DEF WritesInv, FilesOf
  <2>3. dest'["lock"] = lock
    BY <1>2, <1>8, <2>2, BundleNames
  <2>4. f \in FilesOf(lock)
    BY <1>1, <1>8, <2>1, BundleNames
  <2> QED
    BY <1>2, <1>4, <2>3, <2>4 DEF NothingForeign, FilesOf, Locked
<1> QED
  BY <1>5, <1>6, <1>7, <1>8

\* No step brings a file that the lock beside it does not name.
LEMMA ForeignStep ==
  ASSUME BaseInv, SteadyInv, WritesInv, NothingForeign, [Next]_vars
  PROVE  NothingForeign'
<1> USE DEF Phases, Reading, Verified, Clean, Located, Installing
<1>1. CASE dest' = dest
  BY <1>1 DEF NothingForeign, FilesOf, Locked
<1>2. ASSUME NEW f \in Bundle, Delete(f)  PROVE NothingForeign'
  <2>1. phase = "deleting" /\ f \notin Wanted
    BY <1>2 DEF Delete, BaseInv, PlanOK
  <2>2. f # "lock"
    BY <2>1, VerifiedHas DEF BaseInv, FilesOf
  <2>3. \A g \in Bundle : dest'[g] = IF g = f THEN "absent" ELSE dest[g]
    BY <1>2, BundleNames DEF Delete, BaseInv, InstalledOK
  <2> QED
    BY <2>2, <2>3, BundleNames DEF NothingForeign, FilesOf, Locked
<1>3. ASSUME NEW f \in DestFiles, Write(f)  PROVE NothingForeign'
  BY <1>3, ForeignWrite DEF Write, Put
<1>4. ASSUME Tear  PROVE NothingForeign'
  BY <1>1, <1>4, ForeignWrite DEF Tear
<1>5. \/ dest' = dest \/ Tear
      \/ \E f \in Bundle : Delete(f)
      \/ \E f \in DestFiles : Write(f)
  BY DEF Next, Step, vars, installed, Begin, StoreLock, ReadResource,
         CompilePack, CheckClean, ReadCommit, Compare, BeginWrites, WriteSourceLock,
         Checkout, Edit, Crash, Reject, Proceed, Finish
<1> QED
  BY <1>1, <1>2, <1>3, <1>4, <1>5

\* What is wanted in each place is what the bundle of HEAD has there.
LEMMA DesiredIsOfHead ==
  ASSUME BaseInv, SteadyInv, phase \in Located
  PROVE  /\ Wanted = {"pack", "fixture"} \cup FilesOf(Tree[head]["lock"])
         /\ \A f \in Wanted : Desired(f) = Content(head, f)
<1> USE DEF Phases, Reading, Verified, Clean, Located, Installing
<1>1. /\ Wanted = {"pack", "fixture"} \cup FilesOf(lock)
      /\ DOMAIN resources = FilesOf(lock) /\ "manifest" \in DOMAIN resources
      /\ DOMAIN resources \subseteq Bundle
  BY VerifiedHas DEF BaseInv, ReadOK
<1>2. /\ tree = Tree[head] /\ lock = Tree[head]["lock"]
      /\ \A f \in DOMAIN resources : resources[f] = Tree[head][f]
      /\ compiled = Compiled[Tree[head]["manifest"]]
  BY DEF SteadyInv
<1>3. \A f \in DOMAIN resources : Desired(f) = Content(head, f)
  BY <1>1, <1>2, DesiredIs, BundleNames DEF Content
<1>4. Desired("pack") = Content(head, "pack") /\ Desired("fixture") = Content(head, "fixture")
  BY <1>1, <1>2, DesiredIs DEF Content
<1> QED
  BY <1>1, <1>2, <1>3, <1>4

\* When the wanted files are there, and no other, they are the bundle of HEAD.
LEMMA WhatIsWantedIsWhole ==
  ASSUME BaseInv, SteadyInv, phase \in Located,
         \A f \in Wanted : dest[f] = Desired(f),
         \A f \in Bundle \ Wanted : dest[f] = "absent"
  PROVE  IsBundleOf(head)
BY DesiredIsOfHead, BundleNames DEF IsBundleOf, DestFiles

\* The source lock describes HEAD, and its lock is true.
LEMMA SourceLockPinsHead ==
  ASSUME BaseInv, SteadyInv, phase \in Located
  PROVE  /\ SourceLock.commit = head
         /\ SourceLock.bundleLock = Tree[head]["lock"]
         /\ SourceLock.bundleLock = lock
         /\ SourceLock.pack = Tree[head]["manifest"]
         /\ lock \in DOMAIN Locks
         /\ \A i \in DOMAIN Locks[lock] :
              Tree[head][Locks[lock][i].path] = Locks[lock][i].sha
<1> USE DEF Phases, Reading, Verified, Clean, Located, Installing
<1>1. /\ SourceLock.commit = source.commit
      /\ SourceLock.bundleLock = resources["lock"]
      /\ SourceLock.pack = Locks[lock][1].sha
  BY DEF SourceLock
<1>2. /\ lock \in DOMAIN Locks /\ "lock" \in DOMAIN resources
      /\ 1..count = DOMAIN Locks[lock] /\ 1 \in DOMAIN Locks[lock]
      /\ Locks[lock][1].path = "manifest"
  <2>1. lock \in DOMAIN Locks /\ count = Len(Locks[lock]) /\ "lock" \in DOMAIN resources
    BY VerifiedHas DEF BaseInv, ReadOK, FilesOf
  <2>2. Len(Locks[lock]) \in Nat \ {0} /\ DOMAIN Locks[lock] = 1..Len(Locks[lock])
    BY <2>1, LockEntries
  <2>3. 1 \in DOMAIN Locks[lock]
    BY <2>2
  <2> QED
    BY <2>1, <2>2, <2>3, LockEntries
<1>3. /\ tree = Tree[head] /\ source.commit = head /\ lock = tree["lock"]
      /\ \A f \in DOMAIN resources : resources[f] = tree[f]
      /\ \A i \in 1..count : tree[Locks[lock][i].path] = Locks[lock][i].sha
  BY DEF SteadyInv
<1>4. Tree[head][Locks[lock][1].path] = Locks[lock][1].sha
  BY <1>2, <1>3
<1>5. \A i \in DOMAIN Locks[lock] : Tree[head][Locks[lock][i].path] = Locks[lock][i].sha
  BY <1>2, <1>3
<1>6. SourceLock.commit = head /\ SourceLock.bundleLock = Tree[head]["lock"]
      /\ SourceLock.bundleLock = lock
  BY <1>1, <1>2, <1>3
<1> QED
  BY <1>1, <1>2, <1>4, <1>5, <1>6

(***************************************************************************)
(* SyncInv is inductive.                                                   *)
(***************************************************************************)
\* What is pinned is a commit whose lock has been checked.
LEMMA PinnedStep ==
  ASSUME BaseInv, SteadyInv, PinnedInv, [Next]_vars
  PROVE  PinnedInv'
<1> USE DEF Phases, Reading, Verified, Clean, Located, Installing
<1>1. CASE pinned' = pinned
  BY <1>1 DEF PinnedInv, PinsACommit
<1>2. CASE WriteSourceLock
  <2>1. phase = "writing" /\ pinned' = SourceLock
    BY <1>2 DEF WriteSourceLock
  <2>2. PinsACommit'
    BY <2>1, SourceLockPinsHead DEF BaseInv, CheckoutOK, PinsACommit
  <2> QED
    BY <2>2 DEF PinnedInv
<1>3. CASE pinned' = TornFile
  BY <1>3 DEF PinnedInv
<1>4. pinned' = pinned \/ WriteSourceLock \/ pinned' = TornFile
  BY DEF Next, Step, vars, installed, Begin, StoreLock, ReadResource,
         CompilePack, CheckClean, ReadCommit, Compare, Delete, BeginWrites, Write,
         Checkout, Edit, Crash, Tear, Reject, Proceed, Finish
<1> QED
  BY <1>1, <1>2, <1>3, <1>4

\* A call ends in "synced" only by Compare and WriteSourceLock.
LEMMA SyncedStep ==
  ASSUME ~Moves, BaseInv, BaseInv', SteadyInv, WritesInv, SyncedIsWhole, [Next]_vars
  PROVE  SyncedIsWhole'
<1> USE DEF Phases, Reading, Verified, Clean, Located, Installing
<1> SUFFICES ASSUME result' = "synced"  PROVE (IsBundleOf(pinned.commit))'
  BY DEF SyncedIsWhole
<1>1. phase' = "idle"
  BY DEF BaseInv, PlanOK
<1>2. CASE UNCHANGED vars
  BY <1>2 DEF vars, installed, SyncedIsWhole, IsBundleOf, Content, FilesOf, Locked
<1>3. CASE Compare
  <2>1. /\ phase = "located" /\ UpToDate /\ Extra = {} /\ UNCHANGED installed
    BY <1>1, <1>3 DEF Compare, Reject, Finish
  <2>2. \A f \in Bundle \ Wanted : dest[f] = "absent"
    BY <2>1 DEF Extra
  <2>3. IsBundleOf(head)
    BY <2>1, <2>2, WhatIsWantedIsWhole DEF UpToDate
  <2>4. pinned.commit = head
    BY <2>1, SourceLockPinsHead DEF UpToDate
  <2> QED
    BY <2>1, <2>3, <2>4 DEF installed, IsBundleOf, Content, FilesOf, Locked
<1>4. CASE WriteSourceLock
  <2>1. /\ phase = "writing" /\ pending = {"source-lock"}
        /\ pinned' = SourceLock /\ dest' = dest
    BY <1>4 DEF WriteSourceLock
  <2>2. "source-lock" \notin Wanted
    BY BundleNames DEF BaseInv, ReadOK, Wanted
  <2>3. IsBundleOf(head)
    BY <2>1, <2>2, WhatIsWantedIsWhole DEF WritesInv
  <2>4. pinned'.commit = head
    BY <2>1, SourceLockPinsHead
  <2> QED
    BY <2>1, <2>3, <2>4 DEF IsBundleOf, Content, FilesOf, Locked
<1>5. UNCHANGED vars \/ Compare \/ WriteSourceLock
  <2>1. ASSUME (\E r \in Revisions : Checkout(r)) \/ (\E e \in Edits : Edit(e))  PROVE FALSE
    BY <2>1 DEF Checkout, Edit, MayMove, Moved
  <2>2. ASSUME Reject \/ Crash \/ Tear  PROVE FALSE
    BY <2>2 DEF Reject, Crash, Tear, Finish
  <2>3. ASSUME \/ \E check \in BOOLEAN : Begin(check)
               \/ StoreLock \/ ReadResource \/ CompilePack
               \/ CheckClean \/ ReadCommit
        PROVE  FALSE
    BY <1>1, <2>2, <2>3
    DEF Begin, StoreLock, ReadResource, CompilePack, CheckClean,
      ReadCommit, Proceed
  <2>4. ASSUME \/ \E f \in Bundle : Delete(f)
               \/ BeginWrites
               \/ \E f \in DestFiles : Write(f)
        PROVE  FALSE
    BY <1>1, <2>4 DEF Delete, BeginWrites, Write
  <2> QED
    BY <2>1, <2>2, <2>3, <2>4 DEF Next, Step
<1> QED
  BY <1>2, <1>3, <1>4, <1>5

\* With --require-release a call that writes is at a published release.
LEMMA HeadIsReleased ==
  ASSUME RequireRelease, BaseInv, SteadyInv, phase \in Installing
  PROVE  head \in Released
BY DEF BaseInv, CheckoutOK, SteadyInv, MayInstall, IsRelease, Released,
       Clean, Located, Installing

\* Only Write and WriteSourceLock bring contents, and those are of HEAD.
LEMMA ReleasedStep ==
  ASSUME BaseInv, SteadyInv, OnlyReleasedFiles, [Next]_vars
  PROVE  OnlyReleasedFiles'
<1> USE DEF Phases, Reading, Verified, Clean, Located, Installing
<1> SUFFICES ASSUME RequireRelease
             PROVE  OnlyReleasedFiles'
  BY DEF OnlyReleasedFiles
<1>1. CASE UNCHANGED installed
  BY <1>1 DEF installed, OnlyReleasedFiles
<1>2. ASSUME NEW f, NEW c, dest' = [dest EXCEPT ![f] = c], pinned' = pinned,
             c \in {"absent", "torn"} \/ \E r \in Released : c = Content(r, f)
      PROVE  OnlyReleasedFiles'
  <2>1. \A g \in DestFiles : dest'[g] = IF g = f THEN c ELSE dest[g]
    BY <1>2 DEF BaseInv, InstalledOK
  <2> QED
    BY <1>2, <2>1 DEF OnlyReleasedFiles, Content
<1>3. CASE \E f \in Bundle : Delete(f)
  BY <1>2, <1>3 DEF Delete
<1>4. ASSUME NEW f \in DestFiles, Write(f)  PROVE OnlyReleasedFiles'
  <2>1. /\ phase = "writing" /\ f \in Wanted
        /\ dest' = [dest EXCEPT ![f] = Desired(f)] /\ pinned' = pinned
    BY <1>4 DEF Write, IsNext, Put, BaseInv, PlanOK
  <2>2. Desired(f) = Content(head, f)
    BY <2>1, DesiredIsOfHead
  <2> QED
    BY <1>2, <2>1, <2>2, HeadIsReleased
<1>5. CASE Tear
  <2>1. CASE \E f \in DestFiles :
               dest' = [dest EXCEPT ![f] = "torn"] /\ pinned' = pinned
    BY <1>2, <2>1
  <2>2. CASE pinned' = TornFile /\ dest' = dest
    BY <2>2 DEF OnlyReleasedFiles
  <2> QED
    BY <1>5, <2>1, <2>2 DEF Tear
<1>6. CASE WriteSourceLock
  BY <1>6, HeadIsReleased, SourceLockPinsHead DEF WriteSourceLock, OnlyReleasedFiles
<1>7. \/ UNCHANGED installed \/ Tear \/ WriteSourceLock
      \/ \E f \in Bundle : Delete(f)
      \/ \E f \in DestFiles : Write(f)
  BY DEF Next, Step, vars, installed, Begin, StoreLock, ReadResource,
         CompilePack, CheckClean, ReadCommit, Compare, BeginWrites,
         Checkout, Edit, Crash, Reject, Proceed, Finish
<1> QED
  BY <1>1, <1>3, <1>4, <1>5, <1>6, <1>7

\* Nothing is pinned before the first call.
LEMMA SyncInit == Init => SyncInv
<1> SUFFICES ASSUME Init PROVE SyncInv
  OBVIOUS
<1>1. BaseInv
  BY BaseInit
<1>2. SteadyInv /\ WritesInv /\ PinnedInv /\ NothingForeign /\ SyncedIsWhole
  BY BundleNames DEF Init, SteadyInv, WritesInv, PinnedInv, NothingForeign, SyncedIsWhole,
         Phases, Reading, Verified, Clean, Located, Installing
<1>3. OnlyReleasedFiles
  BY BundleNames DEF Init, OnlyReleasedFiles
<1> QED
  BY <1>1, <1>2, <1>3 DEF SyncInv

\* All parts together.
LEMMA SyncStep == ~Moves /\ SyncInv /\ [Next]_vars => SyncInv'
<1> SUFFICES ASSUME ~Moves, SyncInv, [Next]_vars
             PROVE  SyncInv'
  OBVIOUS
<1>1. BaseInv'
  BY BaseStep DEF SyncInv
<1>2. WritesInv'
  BY WritesStep DEF SyncInv
<1> QED
  BY <1>1, <1>2, SteadyStep, PinnedStep, ForeignStep, SyncedStep, ReleasedStep DEF SyncInv

\* As long as nobody moves the checkout during a call, what a call has read is
\* what the commit has, and SOURCE.lock.json describes a commit.
THEOREM SyncInductive == ~Moves => (Spec => []SyncInv)
<1> SUFFICES ASSUME ~Moves PROVE Spec => []SyncInv
  OBVIOUS
<1>1. Init => SyncInv
  BY SyncInit
<1>2. SyncInv /\ [Next]_vars => SyncInv'
  BY SyncStep
<1> QED
  BY <1>1, <1>2, PTL DEF Spec

\* Whatever earlier calls have left behind, a call that reports success leaves
\* the whole bundle of the commit it pins.
THEOREM SyncedBundleIsWhole == ~Moves => (Spec => []SyncedIsWhole)
<1> SUFFICES ASSUME ~Moves PROVE Spec => []SyncedIsWhole
  OBVIOUS
<1>1. SyncInv => SyncedIsWhole
  BY DEF SyncInv
<1> QED
  BY <1>1, SyncInductive, PTL

\* With --require-release only contents of published releases are written.
THEOREM OnlyReleasesAreInstalled == ~Moves => (Spec => []OnlyReleasedFiles)
<1> SUFFICES ASSUME ~Moves PROVE Spec => []OnlyReleasedFiles
  OBVIOUS
<1>1. SyncInv => OnlyReleasedFiles
  BY DEF SyncInv
<1> QED
  BY <1>1, SyncInductive, PTL

\* A file that is missing, or torn, does not have the content its lock names.
LEMMA TestsFindMixtures == SyncInv => MixturesAreDetected
<1> SUFFICES ASSUME SyncInv, ConformanceTestsPass
             PROVE  IsBundleOf(pinned.commit)
  BY DEF MixturesAreDetected
<1> DEFINE l == dest["lock"]
<1>1. /\ l \in DOMAIN Locks /\ pinned.bundleLock = l
      /\ pinned.pack = dest["pack"]
      /\ \A i \in DOMAIN Locks[l] : dest[Locks[l][i].path] = Locks[l][i].sha
      /\ dest["fixture"] = Compiled[dest["pack"]]
  BY DEF ConformanceTestsPass
<1>2. PinsACommit
  BY DEF SyncInv, PinnedInv, ConformanceTestsPass
<1>3. \A f \in Bundle \ FilesOf(l) : dest[f] = "absent"
  BY <1>1 DEF SyncInv, NothingForeign
<1>4. /\ l = Tree[pinned.commit]["lock"]
      /\ dest["pack"] = Tree[pinned.commit]["manifest"]
      /\ \A i \in DOMAIN Locks[l] : Tree[pinned.commit][Locks[l][i].path] = Locks[l][i].sha
  <2>1. pinned.bundleLock = l /\ pinned.pack = dest["pack"]
    BY <1>1
  <2>2. /\ pinned.bundleLock = Tree[pinned.commit]["lock"]
        /\ pinned.pack = Tree[pinned.commit]["manifest"]
    BY <1>2 DEF PinsACommit
  <2>3. \A i \in DOMAIN Locks[pinned.bundleLock] :
          Tree[pinned.commit][Locks[pinned.bundleLock][i].path] = Locks[pinned.bundleLock][i].sha
    BY <1>2 DEF PinsACommit
  <2> QED
    BY <2>1, <2>2, <2>3
<1>5. \A f \in Locked(l) : dest[f] = Tree[pinned.commit][f]
  BY <1>1, <1>4 DEF Locked
<1>6. \A f \in FilesOf(l) : f \in Bundle /\ dest[f] = Content(pinned.commit, f)
  BY <1>1, <1>4, <1>5, LockEntries, BundleNames DEF FilesOf, Content
<1>7. /\ dest["pack"] = Content(pinned.commit, "pack")
      /\ dest["fixture"] = Content(pinned.commit, "fixture")
  BY <1>1, <1>4 DEF Content
<1> QED
  BY <1>3, <1>4, <1>6, <1>7 DEF IsBundleOf, DestFiles

\* During the writes and after a crash, however many calls it takes, the tests
\* of the repository accept no mixture of two bundles.
THEOREM TestsDetectMixtures == ~Moves => (Spec => []MixturesAreDetected)
<1> SUFFICES ASSUME ~Moves PROVE Spec => []MixturesAreDetected
  OBVIOUS
<1> QED
  BY TestsFindMixtures, SyncInductive, PTL

=============================================================================
