------------------------ MODULE LoggedMachineProofs ------------------------
(***************************************************************************)
(* The composition of API and file, for every plan, through crashes, late  *)
(* errors, torn lines and power failures.                                  *)
(*                                                                         *)
(* Whatever the deployment: machines and lines are sound (Sound), which is *)
(* what the other parts build on.  With one machine at a time: the start   *)
(* of a worker is counted in every memory and in every line that may be    *)
(* replayed (BudgetInv).  With a machine that is dropped when a call       *)
(* raises, too: the file replays to the memory (IInv), and a completion    *)
(* that was told is in every line from the last durable one on (Kept).     *)
(* Last, again whatever the deployment: with the event under way taken as  *)
(* applied, every step is one of ExecutionMachine.                         *)
(***************************************************************************)
EXTENDS LoggedMachine, KernelEventsProofs, SequenceTheorems

(***************************************************************************)
(* Whatever the deployment and the faults are: machines and lines are      *)
(* sound.  What the calls have left to do are tasks.                       *)
(***************************************************************************)
\* The events of the API are those of the kernel.
LEMMA SameEvents == API!Events = Events /\ API!UnitRefs = UnitRefs
<1>1. API!UnitRefs = UnitRefs
  BY DEF API!UnitRefs, UnitRefs
<1>2. API!ExecutionEvents = ExecutionEvents /\ API!SealEvents = SealEvents
  BY DEF API!ExecutionEvents, ExecutionEvents, API!SealEvents, SealEvents
<1>3. API!PlainUnitEvents = PlainUnitEvents /\ API!ReasonEvents = ReasonEvents
  BY <1>1 DEF API!PlainUnitEvents, PlainUnitEvents, API!ReasonEvents, ReasonEvents,
    API!Reasons, Reasons
<1>4. API!DispatchEvents = DispatchEvents /\ API!DecisionEvents = DecisionEvents
  BY <1>1 DEF API!DispatchEvents, DispatchEvents, API!DecisionEvents, DecisionEvents
<1>5. API!ClaimEvents = ClaimEvents /\ API!EvidenceEvents = EvidenceEvents
  BY <1>1 DEF API!ClaimEvents, ClaimEvents, API!EvidenceEvents, EvidenceEvents,
    API!Outputs, Outputs
<1> QED
  BY <1>1, <1>2, <1>3, <1>4, <1>5 DEF API!Events, Events, API!UnitEvents, UnitEvents

\* A task is an event or a scan, and the kernel knows its events.
LEMMA TaskKinds ==
  /\ \A t \in API!Tasks : API!IsEvent(t) => t \in Events
  /\ Events \subseteq API!Tasks
  /\ API!Materialize \in API!Tasks /\ [type |-> "finish"] \in API!Tasks
BY SameEvents DEF API!Tasks, API!IsEvent, API!Materialize

\* The events that the methods queue.
LEMMA ExecutionTasks ==
  /\ [type |-> "execution.started"] \in API!Tasks
  /\ [type |-> "execution.succeeded"] \in API!Tasks
  /\ [type |-> "execution.cancelled"] \in API!Tasks
  /\ \A s \in Stages : [type |-> "stage.sealed", stage |-> s] \in API!Tasks
<1>1. ExecutionEvents \cup SealEvents \subseteq API!Tasks
  BY TaskKinds DEF Events
<1>2. [type |-> "execution.started"] \in ExecutionEvents
  BY DEF ExecutionEvents
<1>3. [type |-> "execution.succeeded"] \in ExecutionEvents
  BY DEF ExecutionEvents
<1>4. [type |-> "execution.cancelled"] \in ExecutionEvents
  BY DEF ExecutionEvents
<1>5. \A s \in Stages : [type |-> "stage.sealed", stage |-> s] \in SealEvents
  BY DEF SealEvents
<1> QED
  BY <1>1, <1>2, <1>3, <1>4, <1>5

\* The events about a unit are tasks.
LEMMA UnitTasks ==
  ASSUME NEW r \in UnitRefs
  PROVE  /\ [type |-> "unit.registered", unit |-> r] \in API!Tasks
         /\ [type |-> "unit.started", unit |-> r] \in API!Tasks
         /\ [type |-> "unit.awaiting-evidence", unit |-> r] \in API!Tasks
         /\ [type |-> "unit.completed", unit |-> r] \in API!Tasks
         /\ \A reason \in Reasons :
              /\ [type |-> "execution.failed", unit |-> r, reason |-> reason] \in API!Tasks
              /\ [type |-> "unit.failed", unit |-> r, reason |-> reason] \in API!Tasks
              /\ [type |-> "unit.skipped", unit |-> r, reason |-> reason] \in API!Tasks
         /\ \A b \in BOOLEAN :
              /\ API!DispatchTask(r, b) \in API!Tasks
              /\ [type |-> "authorization.decided", unit |-> r, approved |-> b] \in API!Tasks
         /\ [type |-> "unit.claimed", unit |-> r, outputs |-> "conforming"] \in API!Tasks
         /\ \A c \in Evidence, a, b \in BOOLEAN :
              [type |-> "evidence.recorded", unit |-> r, evidence |-> c,
               accepted |-> a, matches |-> b] \in API!Tasks
<1>0. UnitEvents \subseteq API!Tasks
  BY TaskKinds DEF Events
<1>1. /\ [type |-> "unit.registered", unit |-> r] \in PlainUnitEvents
      /\ [type |-> "unit.started", unit |-> r] \in PlainUnitEvents
      /\ [type |-> "unit.awaiting-evidence", unit |-> r] \in PlainUnitEvents
      /\ [type |-> "unit.completed", unit |-> r] \in PlainUnitEvents
  BY DEF PlainUnitEvents
<1>2. \A reason \in Reasons :
        /\ [type |-> "execution.failed", unit |-> r, reason |-> reason] \in ReasonEvents
        /\ [type |-> "unit.failed", unit |-> r, reason |-> reason] \in ReasonEvents
        /\ [type |-> "unit.skipped", unit |-> r, reason |-> reason] \in ReasonEvents
  BY DEF ReasonEvents
<1>3. \A b \in BOOLEAN :
        /\ API!DispatchTask(r, b) \in DispatchEvents
        /\ [type |-> "authorization.decided", unit |-> r, approved |-> b] \in DecisionEvents
  BY DEF API!DispatchTask, DispatchEvents, DecisionEvents
<1>4. [type |-> "unit.claimed", unit |-> r, outputs |-> "conforming"] \in ClaimEvents
  BY DEF ClaimEvents, Outputs
<1>5. \A c \in Evidence, a, b \in BOOLEAN :
        [type |-> "evidence.recorded", unit |-> r, evidence |-> c,
         accepted |-> a, matches |-> b] \in EvidenceEvents
  BY DEF EvidenceEvents
<1> QED
  BY <1>0, <1>1, <1>2, <1>3, <1>4, <1>5 DEF UnitEvents

\* Calls are put together from short sequences.
LEMMA TaskSequences ==
  /\ <<>> \in Seq(API!Tasks)
  /\ \A a \in API!Tasks : <<a>> \in Seq(API!Tasks)
  /\ \A a, b \in API!Tasks : <<a, b>> \in Seq(API!Tasks)
  /\ \A a, b, c \in API!Tasks : <<a, b, c>> \in Seq(API!Tasks)
  /\ \A s, t \in Seq(API!Tasks) : s \o t \in Seq(API!Tasks)
<1>1. \A s, t \in Seq(API!Tasks) : s \o t \in Seq(API!Tasks)
  BY ConcatProperties
<1> QED
  BY <1>1

\* So are the parts that several methods queue.
LEMMA TaskParts ==
  /\ API!UnlockOrFinish \in Seq(API!Tasks)
  /\ \A r \in UnitRefs : API!CompleteUnit(r) \in Seq(API!Tasks)
  /\ \A r \in UnitRefs : API!FailForGood(r) \in Seq(API!Tasks)
<1>1. API!UnlockOrFinish \in Seq(API!Tasks)
  BY TaskKinds, TaskSequences DEF API!UnlockOrFinish
<1>2. ASSUME NEW r \in UnitRefs PROVE API!CompleteUnit(r) \in Seq(API!Tasks)
  BY <1>1, UnitTasks, TaskSequences DEF API!CompleteUnit
<1>3. ASSUME NEW r \in UnitRefs PROVE API!FailForGood(r) \in Seq(API!Tasks)
  BY UnitTasks, TaskSequences DEF API!FailForGood, Reasons
<1> QED
  BY <1>1, <1>2, <1>3

\* A method that is entered queues tasks and changes nothing else.
Queues(p) == \E tasks \in Seq(API!Tasks) : API!Call(p, tasks)

\* The methods for a unit.
LEMMA UnitCallsQueue ==
  ASSUME NEW p \in Procs, NEW r \in UnitRefs
  PROVE  /\ API!RegisterUnit(p, r) => Queues(p)
         /\ API!Approve(p, r) => Queues(p)
         /\ \A reason : API!Deny(p, r, reason) => Queues(p)
         /\ API!StartUnit(p, r) => Queues(p)
         /\ API!ClaimUnit(p, r) => Queues(p)
         /\ \A c \in Evidence, a, b \in BOOLEAN :
              API!RecordEvidence(p, r, c, a, b) => Queues(p)
         /\ API!SkipUnit(p, r) => Queues(p)
         /\ \A retry \in BOOLEAN : API!FailUnit(p, r, retry) => Queues(p)
<1> USE DEF Queues
<1>1. API!RegisterUnit(p, r) => Queues(p)
  <2>1. <<[type |-> "unit.registered", unit |-> r], API!DispatchTask(r, FALSE)>>
          \in Seq(API!Tasks)
    BY UnitTasks, TaskSequences
  <2> QED
    BY <2>1 DEF API!RegisterUnit
<1>2. API!Approve(p, r) => Queues(p)
  <2>1. <<[type |-> "authorization.decided", unit |-> r, approved |-> TRUE]>>
          \in Seq(API!Tasks)
    BY UnitTasks, TaskSequences
  <2> QED
    BY <2>1 DEF API!Approve
<1>3. ASSUME NEW reason, API!Deny(p, r, reason) PROVE Queues(p)
  <2> DEFINE why == IF reason = "blank" THEN "blank" ELSE "given"
  <2>1. why \in Reasons
    BY DEF Reasons
  <2> HIDE DEF why
  <2>2. <<[type |-> "authorization.decided", unit |-> r, approved |-> FALSE],
          [type |-> "execution.failed", unit |-> r, reason |-> why]>> \in Seq(API!Tasks)
    BY <2>1, UnitTasks, TaskSequences
  <2> QED
    BY <1>3, <2>2 DEF API!Deny, why
<1>4. API!StartUnit(p, r) => Queues(p)
  <2>1. <<[type |-> "unit.started", unit |-> r]>> \in Seq(API!Tasks)
    BY UnitTasks, TaskSequences
  <2> QED
    BY <2>1 DEF API!StartUnit
<1>5. API!ClaimUnit(p, r) => Queues(p)
  <2> DEFINE rest == IF RequiresEvidence[API!StageOf(r)] # {}
                     THEN <<[type |-> "unit.awaiting-evidence", unit |-> r]>>
                     ELSE API!CompleteUnit(r)
             claim == <<[type |-> "unit.claimed", unit |-> r, outputs |-> "conforming"]>>
  <2>1. rest \in Seq(API!Tasks) /\ claim \in Seq(API!Tasks)
    BY UnitTasks, TaskSequences, TaskParts
  <2>2. claim \o rest \in Seq(API!Tasks)
    BY <2>1, TaskSequences
  <2> QED
    BY <2>2 DEF API!ClaimUnit
<1>6. ASSUME NEW c \in Evidence, NEW a \in BOOLEAN, NEW b \in BOOLEAN,
             API!RecordEvidence(p, r, c, a, b)
      PROVE  Queues(p)
  <2> DEFINE rest == IF ~a THEN API!FailForGood(r)
                     ELSE IF RequiresEvidence[API!StageOf(r)]
                               \subseteq mem[p].unit[r].accepted \cup {c}
                     THEN API!CompleteUnit(r) ELSE <<>>
             receipt == <<[type |-> "evidence.recorded", unit |-> r, evidence |-> c,
                           accepted |-> a, matches |-> b]>>
  <2>1. rest \in Seq(API!Tasks) /\ receipt \in Seq(API!Tasks)
    BY UnitTasks, TaskSequences, TaskParts
  <2>2. receipt \o rest \in Seq(API!Tasks)
    BY <2>1, TaskSequences
  <2> QED
    BY <1>6, <2>2 DEF API!RecordEvidence
<1>7. API!SkipUnit(p, r) => Queues(p)
  <2>1. <<[type |-> "unit.skipped", unit |-> r, reason |-> "given"]>> \o API!UnlockOrFinish
          \in Seq(API!Tasks)
    BY UnitTasks, TaskSequences, TaskParts DEF Reasons
  <2> QED
    BY <2>1 DEF API!SkipUnit
<1>8. ASSUME NEW retry \in BOOLEAN, API!FailUnit(p, r, retry) PROVE Queues(p)
  <2>1. <<[type |-> "unit.failed", unit |-> r, reason |-> "given"], API!DispatchTask(r, TRUE)>>
          \in Seq(API!Tasks)
    BY UnitTasks, TaskSequences DEF Reasons
  <2> QED
    BY <1>8, <2>1, TaskParts DEF API!FailUnit
<1> QED
  BY <1>1, <1>2, <1>3, <1>4, <1>5, <1>6, <1>7, <1>8

\* Every method.
LEMMA CallsQueue ==
  ASSUME NEW p \in Procs, API!Work(p) \/ API!Cancel(p)
  PROVE  Queues(p)
<1>1. CASE API!Start(p)
  <2>1. <<[type |-> "execution.started"], API!Materialize>> \in Seq(API!Tasks)
    BY ExecutionTasks, TaskKinds, TaskSequences
  <2> QED
    BY <1>1, <2>1 DEF API!Start, Queues
<1>2. ASSUME NEW s \in Stages, API!SealStage(p, s) PROVE Queues(p)
  <2>1. <<[type |-> "stage.sealed", stage |-> s]>> \o API!UnlockOrFinish \in Seq(API!Tasks)
    BY ExecutionTasks, TaskSequences, TaskParts
  <2> QED
    BY <1>2, <2>1 DEF API!SealStage, Queues
<1>3. CASE API!Cancel(p)
  <2>1. <<[type |-> "execution.cancelled"]>> \in Seq(API!Tasks)
    BY ExecutionTasks, TaskSequences
  <2> QED
    BY <1>3, <2>1 DEF API!Cancel, Queues
<1> QED
  BY <1>1, <1>2, <1>3, SameEvents, UnitCallsQueue DEF API!Work

\* What a process has, what it does, and what it has still to do.
Called(p) ==
  /\ KernelInv(mem[p])
  /\ p \notin live => todo[p] = <<>>
  /\ step[p] # "none" =>
       p \in live /\ API!Emitting(p) /\ ValidateEvent(mem[p], Head(todo[p]))

ProcsOK ==
  /\ live \subseteq Procs
  /\ mem \in [Procs -> Machine]
  /\ todo \in [Procs -> Seq(API!Tasks)]
  /\ step \in [Procs -> {"none", "flushed", "synced"}]
  /\ \A p \in Procs : Called(p)

\* Every line is a machine of an execution that has been created.  Without one
\* there is no machine.
Line == [ok : BOOLEAN, state : Machine]

FileOK ==
  /\ file \in Seq(Line)
  /\ \A i \in DOMAIN file : KernelInv(file[i].state) /\ file[i].state.created
  /\ synced \in 0..Len(file)
  /\ file = <<>> => live = {}

CountsOK ==
  /\ end \in {"newline", "bare", "damaged"}
  /\ losses \in 0..MaxLosses
  /\ started \in [UnitRefs -> Nat]
  /\ confirmed \subseteq UnitRefs

Sound == ProcsOK /\ FileOK /\ CountsOK

\* Between fsync and the return all lines are durable.
AllDurable == \A p \in Procs : step[p] = "synced" => synced = Len(file)

\* The type invariant is a part of it.
LEMMA SoundTyped ==
  Sound /\ interrupted \in BOOLEAN /\ (Exclusive /\ ~lossy => AllDurable) => TypeOK
BY DEF Sound, ProcsOK, FileOK, CountsOK, Called, Line, TypeOK, AllDurable

\* What the file replays to.
LEMMA HistorySound ==
  ASSUME FileOK
  PROVE  /\ History \in Line /\ KernelInv(History.state)
         /\ file # <<>> => History.state.created /\ Len(file) \in DOMAIN file
                           /\ History = file[Len(file)]
         /\ file = <<>> => History.state = NewMachine /\ History.ok
<1>1. CASE file = <<>>
  BY <1>1, KernelInvNew, NewMachineTyped DEF History, Line
<1>2. CASE file # <<>>
  <2>1. Len(file) \in DOMAIN file
    BY <1>2 DEF FileOK
  <2> QED
    BY <1>2, <2>1 DEF FileOK, History
<1> QED
  BY <1>1, <1>2

\* One more line.
LEMMA LineSound ==
  ASSUME FileOK, NEW e \in Events
  PROVE  LET line == ReplayEvent(History, e) IN
         /\ line \in Line /\ KernelInv(line.state)
         /\ History.state.created => line.state.created
         /\ line.ok => /\ History.ok /\ ValidateEvent(History.state, e)
                       /\ line.state = ApplyEvent(History.state, e)
<1> DEFINE line == ReplayEvent(History, e)
           m == History.state
           legal == History.ok /\ ValidateEvent(m, e)
           n == IF legal THEN ApplyEvent(m, e) ELSE m
<1>0. KernelInv(m) /\ m \in Machine /\ History.ok \in BOOLEAN
  BY HistorySound DEF Line
<1>1. line = [ok |-> legal, state |-> n]
  BY DEF ReplayEvent
<1>2. KernelInv(n) /\ (m.created => n.created)
  BY <1>0, KernelInvStep, CreatedStays
<1>3. n \in Machine
  BY <1>2 DEF KernelInv
<1>4. legal \in BOOLEAN
  OBVIOUS
<1>5. legal => History.ok /\ ValidateEvent(m, e) /\ n = ApplyEvent(m, e)
  OBVIOUS
<1> HIDE DEF line, m, legal, n
<1>6. line.ok = legal /\ line.state = n /\ line \in Line
  BY <1>1, <1>3, <1>4 DEF Line
<1>7. line.ok => History.ok /\ ValidateEvent(m, e) /\ line.state = ApplyEvent(m, e)
  BY <1>5, <1>6
<1> QED
  BY <1>2, <1>6, <1>7 DEF line, m

\* The lines with one more, as an append leaves them.
LEMMA AppendedSound ==
  ASSUME FileOK, file # <<>>, NEW e \in Events, file' = Appended(e)
  PROVE  /\ file' \in Seq(Line) /\ file' # <<>> /\ Len(file') = Len(file) + 1
         /\ DOMAIN file = 1..Len(file) /\ DOMAIN file' = 1..Len(file) + 1
         /\ \A i \in DOMAIN file : file'[i] = file[i]
         /\ file'[Len(file) + 1] = ReplayEvent(History, e)
         /\ \A i \in DOMAIN file' : KernelInv(file'[i].state) /\ file'[i].state.created
<1> DEFINE line == ReplayEvent(History, e)
<1>1. line \in Line /\ KernelInv(line.state) /\ line.state.created
  BY LineSound, HistorySound
<1>2. file' = Append(file, line)
  BY DEF Appended
<1> HIDE DEF line
<1>3. /\ file' \in Seq(Line) /\ file' # <<>> /\ Len(file') = Len(file) + 1
      /\ DOMAIN file = 1..Len(file) /\ DOMAIN file' = 1..Len(file) + 1
      /\ \A i \in DOMAIN file : file'[i] = file[i]
      /\ file'[Len(file) + 1] = line
  BY <1>1, <1>2 DEF FileOK
<1>4. ASSUME NEW i \in DOMAIN file' PROVE KernelInv(file'[i].state) /\ file'[i].state.created
  <2>1. i \in DOMAIN file \/ i = Len(file) + 1
    BY <1>3
  <2> QED
    BY <1>1, <1>3, <2>1 DEF FileOK
<1> QED
  BY <1>3, <1>4 DEF line

\* The lines that a power failure leaves.
LEMMA PrefixSound ==
  ASSUME FileOK, NEW n \in synced..Len(file), file' = SubSeq(file, 1, n)
  PROVE  /\ file' \in Seq(Line) /\ Len(file') = n /\ DOMAIN file' = 1..n
         /\ \A i \in DOMAIN file' : i \in DOMAIN file /\ file'[i] = file[i]
         /\ synced \in 0..Len(file')
<1>1. file \in Seq(Line) /\ synced \in Nat /\ synced <= Len(file) /\ Len(file) \in Nat
  BY DEF FileOK
<1>2. n \in 0..Len(file)
  BY <1>1
<1>3. file' \in Seq(Line) /\ Len(file') = n
  BY <1>1, <1>2
<1>4. \A i \in DOMAIN file' : i \in DOMAIN file /\ file'[i] = file[i]
  BY <1>1, <1>2
<1> QED
  BY <1>1, <1>2, <1>3, <1>4

(***************************************************************************)
(* The processes, whatever becomes of the file.                            *)
(***************************************************************************)
\* Nobody but p does anything.
LEMMA OthersCalled ==
  ASSUME ProcsOK, NEW p \in Procs, NEW q \in Procs, q # p,
         mem'[q] = mem[q], todo'[q] = todo[q], step'[q] = step[q],
         q \in live' <=> q \in live
  PROVE  Called(q)'
BY DEF ProcsOK, Called, API!Emitting

\* A process loses its machine.
LEMMA LoseProcs ==
  ASSUME ProcsOK, NEW p \in Procs, Lose(p)
  PROVE  ProcsOK' /\ live' = live \ {p}
<1>1. /\ live' = live \ {p}
      /\ mem' = [mem EXCEPT ![p] = NewMachine]
      /\ todo' = [todo EXCEPT ![p] = <<>>]
      /\ step' = [step EXCEPT ![p] = "none"]
  BY DEF Lose
<1>2. <<>> \in Seq(API!Tasks)
  OBVIOUS
<1>3. /\ mem' \in [Procs -> Machine] /\ todo' \in [Procs -> Seq(API!Tasks)]
      /\ step' \in [Procs -> {"none", "flushed", "synced"}] /\ live' \subseteq Procs
      /\ mem'[p] = NewMachine /\ todo'[p] = <<>> /\ step'[p] = "none"
      /\ \A q \in Procs : q # p =>
           mem'[q] = mem[q] /\ todo'[q] = todo[q] /\ step'[q] = step[q]
  BY <1>1, <1>2, NewMachineTyped DEF ProcsOK
<1>4. Called(p)'
  BY <1>3, KernelInvNew DEF Called
<1>5. \A q \in Procs : q # p => Called(q)'
  BY <1>1, <1>3, OthersCalled
<1> QED
  BY <1>1, <1>3, <1>4, <1>5 DEF ProcsOK

\* What a call has left changes while its process is not in an append.
LEMMA RetaskProcs ==
  ASSUME ProcsOK, NEW p \in Procs, NEW tasks \in Seq(API!Tasks),
         tasks # <<>> => p \in live,
         todo' = [todo EXCEPT ![p] = tasks], step' = [step EXCEPT ![p] = "none"],
         UNCHANGED <<live, mem>>
  PROVE  ProcsOK'
<1>1. /\ todo' \in [Procs -> Seq(API!Tasks)] /\ todo'[p] = tasks
      /\ step' \in [Procs -> {"none", "flushed", "synced"}] /\ step'[p] = "none"
      /\ \A q \in Procs : q # p => todo'[q] = todo[q] /\ step'[q] = step[q]
  BY DEF ProcsOK
<1>2. Called(p)'
  BY <1>1 DEF ProcsOK, Called
<1>3. \A q \in Procs : q # p => Called(q)'
  BY <1>1, OthersCalled
<1> QED
  BY <1>1, <1>2, <1>3 DEF ProcsOK

\* A call raises.
LEMMA RaiseProcs ==
  ASSUME ProcsOK, NEW p \in Procs, Raise(p)
  PROVE  ProcsOK' /\ live' \subseteq live /\ UNCHANGED <<started, confirmed>>
<1>1. CASE Discards
  BY <1>1, LoseProcs DEF Raise, Lose
<1>2. CASE ~Discards
  <2>1. <<>> \in Seq(API!Tasks)
    OBVIOUS
  <2>2. /\ todo' = [todo EXCEPT ![p] = <<>>] /\ step' = [step EXCEPT ![p] = "none"]
        /\ UNCHANGED <<live, mem, started, confirmed>>
    BY <1>2 DEF Raise
  <2> QED
    BY <2>1, <2>2, RetaskProcs
<1> QED
  BY <1>1, <1>2

\* A process gets a machine.
LEMMA OpenProcs ==
  ASSUME ProcsOK, NEW p \in Procs, p \notin live, live' = live \cup {p},
         NEW m, KernelInv(m), mem' = [mem EXCEPT ![p] = m], UNCHANGED <<todo, step>>
  PROVE  ProcsOK'
<1>1. m \in Machine
  BY DEF KernelInv
<1>2. /\ mem' \in [Procs -> Machine] /\ mem'[p] = m
      /\ \A q \in Procs : q # p => mem'[q] = mem[q]
  BY <1>1 DEF ProcsOK
<1>3. Called(p)'
  BY <1>2 DEF ProcsOK, Called
<1>4. \A q \in Procs : q # p => Called(q)'
  BY <1>2, OthersCalled
<1> QED
  BY <1>2, <1>3, <1>4 DEF ProcsOK

(***************************************************************************)
(* The steps keep machines and lines sound.                                *)
(***************************************************************************)
\* The lines stay as they are.
LEMMA SameFile ==
  ASSUME FileOK, UNCHANGED <<file, synced>>,
         live' \subseteq live \/ file # <<>>
  PROVE  FileOK'
BY DEF FileOK

\* Nothing is counted.
LEMMA SameCounts ==
  ASSUME CountsOK, UNCHANGED <<end, losses, started, confirmed>>
  PROVE  CountsOK'
BY DEF CountsOK

\* The first line.
LEMMA FirstLineSound ==
  ASSUME FileOK, file = <<>>, file' = <<ReplayEvent(History, Created)>>,
         synced' = 1 \/ synced' = synced
  PROVE  FileOK'
<1> DEFINE line == ReplayEvent(History, Created)
<1>1. Created \in Events
  BY DEF Created, Events, ExecutionEvents
<1>2. ValidateEvent(NewMachine, Created) /\ ApplyEvent(NewMachine, Created).created
  BY DEF ValidateEvent, Created, NewMachine, ApplyEvent
<1>3. line \in Line /\ KernelInv(line.state)
  BY <1>1, LineSound
<1>4. line.state.created
  BY <1>2 DEF History, ReplayEvent
<1> HIDE DEF line
<1>5. file' \in Seq(Line) /\ DOMAIN file' = {1} /\ file'[1] = line /\ Len(file') = 1
      /\ file' # <<>>
  BY <1>3 DEF line
<1>6. synced' \in 0..1
  BY DEF FileOK
<1> QED
  BY <1>3, <1>4, <1>5, <1>6 DEF FileOK

\* create writes the first line, of a machine that is created.
LEMMA CreateSound ==
  ASSUME Sound, NEW p \in Procs, Create(p)
  PROVE  Sound'
<1>1. /\ file = <<>> /\ live' = live \cup {p} /\ p \notin live
      /\ mem' = [mem EXCEPT ![p] = ApplyEvent(NewMachine, Created)]
      /\ file' = <<ReplayEvent(History, Created)>>
      /\ synced' = 1 \/ synced' = synced
      /\ UNCHANGED <<todo, step, end, losses, started, confirmed>>
  BY DEF Create, API!MayOpen
<1>2. Created \in Events
  BY DEF Created, Events, ExecutionEvents
<1>3. ValidateEvent(NewMachine, Created) /\ ApplyEvent(NewMachine, Created).created
  BY DEF ValidateEvent, Created, NewMachine, ApplyEvent
<1>4. KernelInv(ApplyEvent(NewMachine, Created))
  BY <1>2, <1>3, KernelInvNew, KernelInvStep
<1>5. ProcsOK'
  BY <1>1, <1>4, OpenProcs DEF Sound
<1>6. FileOK'
  BY <1>1, FirstLineSound DEF Sound
<1> QED
  BY <1>1, <1>5, <1>6, SameCounts DEF Sound

\* A creation that fails opens no machine.
LEMMA CreateFailsSound ==
  ASSUME Sound, NEW p \in Procs, CreateFails(p)
  PROVE  Sound'
<1>1. /\ file' = file \/ (file = <<>> /\ file' = <<ReplayEvent(History, Created)>>)
      /\ end' \in {end, "bare", "damaged"}
      /\ UNCHANGED <<live, mem, todo, step, synced, losses, started, confirmed>>
  BY DEF CreateFails, machineVars
<1>2. ProcsOK'
  BY <1>1 DEF Sound, ProcsOK, Called, API!Emitting
<1>3. FileOK'
  BY <1>1, SameFile, FirstLineSound DEF Sound
<1>4. CountsOK'
  BY <1>1 DEF Sound, CountsOK
<1> QED
  BY <1>2, <1>3, <1>4 DEF Sound

\* replay makes a machine of the last line.
LEMMA ReplaySound ==
  ASSUME Sound, NEW p \in Procs, Replay(p)
  PROVE  Sound'
<1>1. /\ file # <<>> /\ live' = live \cup {p} /\ p \notin live
      /\ mem' = [mem EXCEPT ![p] = History.state]
      /\ UNCHANGED <<todo, step, file, synced, end, losses, started, confirmed>>
  BY DEF Replay, Replayed, API!MayOpen, ledgerVars
<1>2. ProcsOK'
  BY <1>1, HistorySound, OpenProcs DEF Sound
<1> QED
  BY <1>1, <1>2, SameFile, SameCounts DEF Sound

\* Exit, Crash and an exception that leaves the file alone.
LEMMA LeaveSound ==
  ASSUME Sound, NEW p \in Procs, Lose(p) \/ Raise(p), UNCHANGED ledgerVars
  PROVE  Sound'
<1>1. ProcsOK' /\ live' \subseteq live /\ UNCHANGED <<started, confirmed>>
  BY LoseProcs, RaiseProcs DEF Sound, Lose
<1>2. UNCHANGED <<file, synced, end, losses>>
  BY DEF ledgerVars
<1> QED
  BY <1>1, <1>2, SameFile, SameCounts DEF Sound

\* A method queues its tasks.
LEMMA WorkSound ==
  ASSUME Sound, NEW p \in Procs, Work(p)
  PROVE  Sound'
<1>1. PICK tasks \in Seq(API!Tasks) : API!Call(p, tasks)
  BY CallsQueue DEF Work, Queues
<1>2. /\ p \in live /\ todo[p] = <<>> /\ todo' = [todo EXCEPT ![p] = tasks]
      /\ UNCHANGED <<live, mem, step, file, synced, end, losses, started, confirmed>>
  BY <1>1 DEF Work, API!Call, API!Ready, ledgerVars
<1>3. step' = [step EXCEPT ![p] = "none"]
  BY <1>2 DEF Sound, ProcsOK, Called, API!Emitting
<1>4. ProcsOK'
  BY <1>2, <1>3, RetaskProcs DEF Sound
<1> QED
  BY <1>2, <1>4, SameFile, SameCounts DEF Sound

\* The scans for what has become possible.
LEMMA ScansQueue ==
  ASSUME ProcsOK, NEW p \in Procs, Between(p)
  PROVE  /\ p \in live /\ UNCHANGED <<live, mem>>
         /\ \E tasks \in Seq(API!Tasks) : todo' = [todo EXCEPT ![p] = tasks]
<1>0. todo[p] \in Seq(API!Tasks) /\ (todo[p] # <<>> => p \in live)
  BY DEF ProcsOK, Called
<1>1. ASSUME NEW s \in Stages, API!MaterializeStage(p, s)
      PROVE  /\ todo[p] # <<>> /\ UNCHANGED <<live, mem>>
             /\ \E tasks \in Seq(API!Tasks) : todo' = [todo EXCEPT ![p] = tasks]
  <2> DEFINE r == <<s, DefaultKey>>
             unit == <<[type |-> "unit.registered", unit |-> r], API!DispatchTask(r, FALSE),
                       [type |-> "stage.sealed", stage |-> s]>>
  <2>1. r \in UnitRefs
    BY RefsOfStage
  <2> HIDE DEF r
  <2>2. unit \in Seq(API!Tasks)
    BY <2>1, UnitTasks, ExecutionTasks, TaskSequences
  <2>3. unit \o todo[p] \in Seq(API!Tasks)
    BY <1>0, <2>2, TaskSequences
  <2>4. /\ todo[p] # <<>> /\ UNCHANGED <<live, mem>>
        /\ todo' = [todo EXCEPT ![p] = unit \o todo[p]]
    BY <1>1 DEF API!MaterializeStage, API!Active, r
  <2> HIDE DEF unit
  <2> QED
    BY <2>3, <2>4
<1>2. ASSUME API!MaterializedAll(p)
      PROVE  /\ todo[p] # <<>> /\ UNCHANGED <<live, mem>>
             /\ \E tasks \in Seq(API!Tasks) : todo' = [todo EXCEPT ![p] = tasks]
  <2>1. /\ todo[p] # <<>> /\ UNCHANGED <<live, mem>>
        /\ todo' = [todo EXCEPT ![p] = Tail(todo[p])]
    BY <1>2 DEF API!MaterializedAll, API!Active
  <2>2. Tail(todo[p]) \in Seq(API!Tasks)
    BY <1>0, <2>1
  <2> QED
    BY <2>1, <2>2
<1>3. ASSUME API!FinishCall(p)
      PROVE  /\ todo[p] # <<>> /\ UNCHANGED <<live, mem>>
             /\ \E tasks \in Seq(API!Tasks) : todo' = [todo EXCEPT ![p] = tasks]
  <2> DEFINE done == IF API!AllWorkSatisfied(mem[p])
                     THEN <<[type |-> "execution.succeeded"]>> ELSE <<>>
  <2>1. done \in Seq(API!Tasks)
    BY ExecutionTasks, TaskSequences
  <2>2. /\ todo[p] # <<>> /\ UNCHANGED <<live, mem>>
        /\ todo' = [todo EXCEPT ![p] = done]
    BY <1>3 DEF API!FinishCall, API!Active
  <2> HIDE DEF done
  <2> QED
    BY <2>1, <2>2
<1> QED
  BY <1>0, <1>1, <1>2, <1>3 DEF Between

\* So do the scans.
LEMMA BetweenSound ==
  ASSUME Sound, NEW p \in Procs, Between(p)
  PROVE  Sound'
<1>1. /\ step[p] = "none"
      /\ UNCHANGED <<step, file, synced, end, losses, started, confirmed>>
  BY DEF Between, ledgerVars
<1>2. PICK tasks \in Seq(API!Tasks) : todo' = [todo EXCEPT ![p] = tasks]
  BY ScansQueue DEF Sound
<1>3. p \in live /\ UNCHANGED <<live, mem>> /\ step' = [step EXCEPT ![p] = "none"]
  BY <1>1, ScansQueue DEF Sound, ProcsOK
<1>4. ProcsOK'
  BY <1>2, <1>3, RetaskProcs DEF Sound
<1> QED
  BY <1>1, <1>3, <1>4, SameFile, SameCounts DEF Sound

\* An append begins: for an event of the kernel, by a live process, so that
\* there is a line already.
LEMMA AppendingSound ==
  ASSUME Sound, NEW p \in Procs, Appending(p)
  PROVE  /\ p \in live /\ file # <<>> /\ step[p] = "none"
         /\ API!Emitting(p) /\ Head(todo[p]) \in Events
         /\ ValidateEvent(mem[p], Head(todo[p]))
<1>1. /\ API!Emitting(p) /\ step[p] = "none" /\ ValidateEvent(mem[p], Head(todo[p]))
      /\ todo[p] # <<>>
  BY DEF Appending, API!Emitting
<1>2. p \in live /\ file # <<>>
  BY <1>1 DEF Sound, ProcsOK, FileOK, Called
<1>3. Head(todo[p]) \in API!Tasks
  BY <1>1 DEF Sound, ProcsOK
<1> QED
  BY <1>1, <1>2, <1>3, TaskKinds DEF API!Emitting

\* The lines after an append: no result is told yet.
LEMMA LongerFile ==
  ASSUME Sound, file # <<>>, NEW e \in Events, file' = Appended(e),
         UNCHANGED <<synced, started, confirmed>>
  PROVE  FileOK'
<1>1. /\ file' \in Seq(Line) /\ file' # <<>> /\ Len(file') = Len(file) + 1
      /\ \A i \in DOMAIN file' : KernelInv(file'[i].state) /\ file'[i].state.created
  BY AppendedSound DEF Sound
<1>2. synced \in Nat /\ synced <= Len(file) /\ Len(file) \in Nat
  BY DEF Sound, FileOK
<1>3. synced' \in 0..Len(file')
  BY <1>1, <1>2
<1> QED
  BY <1>1, <1>2, <1>3 DEF FileOK

\* The line is written.
LEMMA FlushSound ==
  ASSUME Sound, NEW p \in Procs, Flush(p)
  PROVE  Sound'
<1>1. /\ p \in live /\ file # <<>> /\ API!Emitting(p) /\ Head(todo[p]) \in Events
      /\ ValidateEvent(mem[p], Head(todo[p]))
  BY AppendingSound DEF Flush
<1>2. /\ file' = Appended(Head(todo[p])) /\ end' \in {end, "damaged"}
      /\ step' = [step EXCEPT ![p] = "flushed"]
      /\ UNCHANGED <<live, mem, todo, synced, losses, started, confirmed>>
  BY DEF Flush, machineVars
<1>3. FileOK'
  BY <1>1, <1>2, LongerFile
<1>4. /\ step' \in [Procs -> {"none", "flushed", "synced"}] /\ step'[p] = "flushed"
      /\ \A q \in Procs : q # p => step'[q] = step[q]
  BY <1>2 DEF Sound, ProcsOK
<1>5. Called(p)'
  BY <1>1, <1>2 DEF Sound, ProcsOK, Called, API!Emitting
<1>6. \A q \in Procs : q # p => Called(q)'
  BY <1>2, <1>4, OthersCalled DEF Sound
<1>7. ProcsOK'
  BY <1>2, <1>4, <1>5, <1>6 DEF Sound, ProcsOK
<1>8. CountsOK'
  BY <1>2 DEF Sound, CountsOK
<1> QED
  BY <1>3, <1>7, <1>8 DEF Sound

\* fsync.
LEMMA SyncSound ==
  ASSUME Sound, NEW p \in Procs, Sync(p)
  PROVE  Sound'
<1>1. /\ step[p] = "flushed" /\ step' = [step EXCEPT ![p] = "synced"]
      /\ synced' = Len(file) \/ synced' = synced
      /\ UNCHANGED <<live, mem, todo, file, end, losses, started, confirmed>>
  BY DEF Sync, machineVars, Durable
<1>2. /\ step' \in [Procs -> {"none", "flushed", "synced"}] /\ step'[p] = "synced"
      /\ \A q \in Procs : q # p => step'[q] = step[q]
  BY <1>1 DEF Sound, ProcsOK
<1>3. Called(p)'
  BY <1>1 DEF Sound, ProcsOK, Called, API!Emitting
<1>4. \A q \in Procs : q # p => Called(q)'
  BY <1>1, <1>2, OthersCalled DEF Sound
<1>5. ProcsOK'
  BY <1>1, <1>2, <1>3, <1>4 DEF Sound, ProcsOK
<1>6. FileOK'
  <2>1. file \in Seq(Line) /\ synced \in 0..Len(file)
    BY DEF Sound, FileOK
  <2>2. synced' \in 0..Len(file')
    BY <1>1, <2>1
  <2> QED
    BY <1>1, <2>2 DEF Sound, FileOK
<1> QED
  BY <1>1, <1>5, <1>6, SameCounts DEF Sound

\* The event that is applied is the one whose line is in the file.
LEMMA ApplyingSound ==
  ASSUME Sound, NEW p \in Procs, step[p] # "none"
  PROVE  /\ p \in live /\ todo[p] # <<>> /\ file # <<>>
         /\ Head(todo[p]) \in Events /\ Tail(todo[p]) \in Seq(API!Tasks)
         /\ ValidateEvent(mem[p], Head(todo[p]))
         /\ KernelInv(mem[p]) /\ KernelInv(ApplyEvent(mem[p], Head(todo[p])))
<1>1. /\ p \in live /\ API!Emitting(p) /\ ValidateEvent(mem[p], Head(todo[p]))
      /\ KernelInv(mem[p]) /\ todo[p] \in Seq(API!Tasks)
  BY DEF Sound, ProcsOK, Called
<1>2. todo[p] # <<>> /\ file # <<>>
  BY <1>1 DEF Sound, FileOK, API!Emitting
<1>3. Head(todo[p]) \in API!Tasks /\ Tail(todo[p]) \in Seq(API!Tasks)
  BY <1>1, <1>2
<1>4. Head(todo[p]) \in Events
  BY <1>1, <1>3, TaskKinds DEF API!Emitting
<1>5. KernelInv(ApplyEvent(mem[p], Head(todo[p])))
  BY <1>1, <1>4, KernelInvStep
<1> QED
  BY <1>1, <1>2, <1>3, <1>4, <1>5

\* The unit of an event about a unit is one.
LEMMA EventUnit ==
  ASSUME NEW e \in Events, e.type \in {"unit.started", "unit.completed"}
  PROVE  e.unit \in UnitRefs
BY DEF Events, ExecutionEvents, SealEvents, UnitEvents, PlainUnitEvents, ReasonEvents,
  DispatchEvents, DecisionEvents, ClaimEvents, EvidenceEvents

\* append returns, and the event is applied and its result told.
LEMMA ApplySound ==
  ASSUME Sound, NEW p \in Procs, Apply(p)
  PROVE  Sound'
<1> DEFINE e == Head(todo[p])
           m == ApplyEvent(mem[p], e)
<1>1. /\ step[p] = "synced" /\ step' = [step EXCEPT ![p] = "none"]
      /\ mem' = [mem EXCEPT ![p] = m]
      /\ todo' = [todo EXCEPT ![p] = Tail(todo[p])]
      /\ started' = IF e.type = "unit.started"
                    THEN [started EXCEPT ![e.unit] = started[e.unit] + 1] ELSE started
      /\ confirmed' = IF e.type = "unit.completed" THEN confirmed \cup {e.unit} ELSE confirmed
      /\ UNCHANGED <<live, file, synced, end, losses>>
  BY DEF Apply, ledgerVars
<1>2. /\ p \in live /\ file # <<>> /\ e \in Events /\ Tail(todo[p]) \in Seq(API!Tasks)
      /\ KernelInv(m) /\ m \in Machine
  BY <1>1, ApplyingSound DEF KernelInv
<1>3. e.type \in {"unit.started", "unit.completed"} => e.unit \in UnitRefs
  BY <1>2, EventUnit
<1> HIDE DEF e, m
<1>4. /\ mem' \in [Procs -> Machine] /\ mem'[p] = m /\ step'[p] = "none"
      /\ todo' \in [Procs -> Seq(API!Tasks)]
      /\ step' \in [Procs -> {"none", "flushed", "synced"}]
      /\ \A q \in Procs : q # p =>
           mem'[q] = mem[q] /\ todo'[q] = todo[q] /\ step'[q] = step[q]
  BY <1>1, <1>2 DEF Sound, ProcsOK
<1>5. Called(p)'
  BY <1>1, <1>2, <1>4 DEF Called
<1>6. \A q \in Procs : q # p => Called(q)'
  BY <1>1, <1>4, OthersCalled DEF Sound
<1>7. ProcsOK'
  BY <1>1, <1>4, <1>5, <1>6 DEF Sound, ProcsOK
<1>8. FileOK'
  BY <1>1, <1>2 DEF Sound, FileOK
<1>9. CountsOK'
  <2>1. confirmed' \subseteq UnitRefs
    BY <1>1, <1>3 DEF Sound, CountsOK
  <2>2. started' \in [UnitRefs -> Nat]
    <3>1. \A r \in UnitRefs : started[r] + 1 \in Nat
      BY DEF Sound, CountsOK
    <3> QED
      BY <1>1, <1>3, <3>1 DEF Sound, CountsOK
  <2> QED
    BY <1>1, <2>1, <2>2 DEF Sound, CountsOK
<1> QED
  BY <1>7, <1>8, <1>9 DEF Sound

\* The disk takes a part of the line.
LEMMA TearSound ==
  ASSUME Sound, NEW p \in Procs, Tear(p)
  PROVE  Sound'
<1>1. /\ p \in live /\ file # <<>> /\ Head(todo[p]) \in Events
  BY AppendingSound DEF Tear
<1>2. /\ Raise(p) /\ UNCHANGED <<synced, losses>>
      /\ file' = file \/ file' = Appended(Head(todo[p]))
      /\ end' \in {"bare", "damaged"}
  BY DEF Tear
<1>3. ProcsOK' /\ live' \subseteq live /\ UNCHANGED <<started, confirmed>>
  BY <1>2, RaiseProcs DEF Sound
<1>4. FileOK'
  BY <1>1, <1>2, <1>3, SameFile, LongerFile DEF Sound
<1>5. CountsOK'
  BY <1>2, <1>3 DEF Sound, CountsOK
<1> QED
  BY <1>3, <1>4, <1>5 DEF Sound

\* Every process dies, and lines are lost.
LEMMA PowerLossSound ==
  ASSUME Sound, PowerLoss
  PROVE  Sound'
<1>1. /\ losses < MaxLosses /\ losses' = losses + 1
      /\ live' = {} /\ mem' = [p \in Procs |-> NewMachine]
      /\ todo' = [p \in Procs |-> <<>>] /\ step' = [p \in Procs |-> "none"]
      /\ UNCHANGED <<synced, started, confirmed>>
  BY DEF PowerLoss
<1>2. PICK n \in synced..Len(file) :
        /\ file' = SubSeq(file, 1, n)
        /\ end' \in IF n = Len(file) THEN {end}
                    ELSE {"newline", "damaged"} \cup (IF n > synced THEN {"bare"} ELSE {})
  BY DEF PowerLoss
<1>3. /\ file' \in Seq(Line)
      /\ \A i \in DOMAIN file' : i \in DOMAIN file /\ file'[i] = file[i]
      /\ synced \in 0..Len(file')
  BY <1>2, PrefixSound DEF Sound
<1>4. FileOK'
  BY <1>1, <1>3 DEF Sound, FileOK
<1>5. CountsOK'
  <2>1. losses' \in 0..MaxLosses
    BY <1>1, LoggedAssumption DEF Sound, CountsOK
  <2>2. end' \in {"newline", "bare", "damaged"}
    BY <1>2 DEF Sound, CountsOK
  <2> QED
    BY <1>1, <2>1, <2>2 DEF Sound, CountsOK
<1>6. ProcsOK'
  <2>1. <<>> \in Seq(API!Tasks)
    OBVIOUS
  <2>2. \A p \in Procs : Called(p)'
    BY <1>1, KernelInvNew DEF Called
  <2> QED
    BY <1>1, <2>1, <2>2, NewMachineTyped DEF ProcsOK
<1> QED
  BY <1>4, <1>5, <1>6 DEF Sound

\* Nothing has happened.
LEMMA InitSound == Init => Sound
<1> SUFFICES ASSUME Init PROVE Sound
  OBVIOUS
<1>1. /\ live = {}
      /\ mem = [p \in Procs |-> API!NewMachine]
      /\ todo = [p \in Procs |-> <<>>]
  BY DEF Init, API!Init
<1>2. API!NewMachine = NewMachine
  BY SameEvents DEF API!NewMachine, NewMachine, API!FreshUnit, FreshUnit
<1>3. ProcsOK
  <2>1. <<>> \in Seq(API!Tasks)
    OBVIOUS
  <2>2. \A p \in Procs : Called(p)
    BY <1>1, <1>2, KernelInvNew DEF Called, Init
  <2> QED
    BY <1>1, <1>2, <2>1, <2>2, NewMachineTyped DEF ProcsOK, Init
<1>4. FileOK
  BY <1>1 DEF Init, FileOK
<1>5. CountsOK
  BY LoggedAssumption DEF Init, CountsOK
<1> QED
  BY <1>3, <1>4, <1>5 DEF Sound

\* Every step keeps machines and lines sound.
LEMMA NextSound ==
  ASSUME Sound, [Next]_vars
  PROVE  Sound'
<1>1. ASSUME NEW p \in Procs, Create(p) \/ CreateFails(p) \/ Replay(p) PROVE Sound'
  BY <1>1, CreateSound, CreateFailsSound, ReplaySound
<1>2. ASSUME NEW p \in Procs, Exit(p) \/ Crash(p) \/ Refuse(p) \/ FailEarly(p) \/ FailLate(p)
      PROVE  Sound'
  BY <1>2, LeaveSound DEF Exit, Crash, Refuse, FailEarly, FailLate
<1>3. ASSUME NEW p \in Procs, Work(p) \/ Between(p) PROVE Sound'
  BY <1>3, WorkSound, BetweenSound
<1>4. ASSUME NEW p \in Procs, Flush(p) \/ Sync(p) \/ Apply(p) PROVE Sound'
  BY <1>4, FlushSound, SyncSound, ApplySound
<1>5. ASSUME NEW p \in Procs, Tear(p) PROVE Sound'
  BY <1>5, TearSound
<1>6. CASE PowerLoss
  BY <1>6, PowerLossSound
<1>7. CASE UNCHANGED vars
  BY <1>7 DEF vars, machineVars, ledgerVars, Sound, ProcsOK, FileOK, CountsOK, Called,
    API!Emitting
<1> QED
  BY <1>1, <1>2, <1>3, <1>4, <1>5, <1>6, <1>7 DEF Next

\* Machines and lines are sound in every reachable state, whatever the plan,
\* the deployment and the faults are.
THEOREM SoundInductive == Spec => []Sound
<1>1. Init => Sound
  BY InitSound
<1>2. Sound /\ [Next]_vars => Sound'
  BY NextSound
<1> QED
  BY <1>1, <1>2, PTL DEF Spec

\* Until a line is durable nobody has been told anything, unless an error of
\* fsync was swallowed.
NothingYet ==
  ~lossy /\ synced = 0 =>
    /\ started = [r \in UnitRefs |-> 0] /\ confirmed = {}
    /\ \A p \in Procs : step[p] # "synced"

LEMMA NothingYetStep ==
  ASSUME Sound, NothingYet, [Next]_vars
  PROVE  NothingYet'
<1>1. ASSUME UNCHANGED <<synced, lossy, started, confirmed>>,
             \A p \in Procs : step'[p] = "synced" => step[p] = "synced"
      PROVE  NothingYet'
  BY <1>1 DEF NothingYet
<1>2. ASSUME NEW p \in Procs, Create(p) PROVE NothingYet'
  <2>1. synced' # 0 \/ lossy'
    BY <1>2 DEF Create
  <2> QED
    BY <2>1 DEF NothingYet
<1>3. ASSUME NEW p \in Procs, CreateFails(p) \/ Replay(p) \/ Work(p) \/ Between(p)
      PROVE  NothingYet'
  BY <1>1, <1>3 DEF CreateFails, Replay, Work, Between, ledgerVars
<1>4. ASSUME NEW p \in Procs, Raise(p) \/ Lose(p), UNCHANGED <<synced, lossy>>
      PROVE  NothingYet'
  <2>1. step' = [step EXCEPT ![p] = "none"] /\ UNCHANGED <<started, confirmed>>
    BY <1>4 DEF Raise, Lose
  <2>2. \A q \in Procs : step'[q] = "synced" => step[q] = "synced"
    BY <2>1 DEF Sound, ProcsOK
  <2> QED
    BY <1>1, <1>4, <2>1, <2>2
<1>5. ASSUME NEW p \in Procs,
             Exit(p) \/ Crash(p) \/ Refuse(p) \/ FailEarly(p) \/ FailLate(p) \/ Tear(p)
      PROVE  NothingYet'
  BY <1>4, <1>5 DEF Exit, Crash, Refuse, FailEarly, FailLate, Tear, ledgerVars
<1>6. ASSUME NEW p \in Procs, Flush(p) PROVE NothingYet'
  <2>1. /\ step' = [step EXCEPT ![p] = "flushed"]
        /\ UNCHANGED <<synced, lossy, started, confirmed>>
    BY <1>6 DEF Flush
  <2>2. \A q \in Procs : step'[q] = "synced" => step[q] = "synced"
    BY <2>1 DEF Sound, ProcsOK
  <2> QED
    BY <1>1, <2>1, <2>2
<1>7. ASSUME NEW p \in Procs, Sync(p) PROVE NothingYet'
  <2>1. p \in live /\ file # <<>> /\ file \in Seq(Line)
    BY <1>7 DEF Sync, Sound, ProcsOK, Called, FileOK
  <2>2. synced' # 0 \/ lossy'
    BY <1>7, <2>1 DEF Sync, Durable
  <2> QED
    BY <2>2 DEF NothingYet
<1>8. ASSUME NEW p \in Procs, Apply(p) PROVE NothingYet'
  <2>1. step[p] = "synced" /\ UNCHANGED <<synced, lossy>>
    BY <1>8 DEF Apply, ledgerVars
  <2> QED
    BY <2>1 DEF NothingYet
<1>9. CASE PowerLoss
  <2>1. UNCHANGED <<synced, lossy, started, confirmed>> /\ step' = [p \in Procs |-> "none"]
    BY <1>9 DEF PowerLoss
  <2>2. \A q \in Procs : step'[q] = "synced" => step[q] = "synced"
    BY <2>1
  <2> QED
    BY <1>1, <2>1, <2>2
<1>10. CASE UNCHANGED vars
  BY <1>1, <1>10 DEF vars, ledgerVars
<1> QED
  BY <1>2, <1>3, <1>5, <1>6, <1>7, <1>8, <1>9, <1>10 DEF Next

LEMMA NothingYetAlways == Spec => []NothingYet
<1>1. Init => NothingYet
  BY DEF Init, NothingYet
<1>2. Sound /\ NothingYet /\ [Next]_vars => NothingYet'
  BY NothingYetStep
<1> QED
  BY <1>1, <1>2, SoundInductive, PTL DEF Spec

\* The history flag is a flag.
LEMMA FlagStep ==
  ASSUME Sound, interrupted \in BOOLEAN, [Next]_vars
  PROVE  interrupted' \in BOOLEAN
<1>1. ASSUME NEW p \in Procs,
             Create(p) \/ CreateFails(p) \/ Replay(p) \/ Exit(p) \/ Crash(p)
      PROVE  interrupted' \in BOOLEAN
  BY <1>1 DEF Create, CreateFails, Replay, Exit, Crash, machineVars
<1>2. ASSUME NEW p \in Procs, Work(p) PROVE interrupted' \in BOOLEAN
  <2>1. PICK tasks \in Seq(API!Tasks) : API!Call(p, tasks)
    BY <1>2, CallsQueue DEF Work, Queues
  <2> QED
    BY <2>1 DEF API!Call
<1>3. ASSUME NEW p \in Procs, Between(p) PROVE interrupted' \in BOOLEAN
  BY <1>3 DEF Between, API!MaterializeStage, API!MaterializedAll, API!FinishCall
<1>4. ASSUME NEW p \in Procs, Refuse(p) \/ FailEarly(p) \/ FailLate(p) \/ Tear(p)
      PROVE  interrupted' \in BOOLEAN
  BY <1>4 DEF Refuse, FailEarly, FailLate, Tear, Raise
<1>5. ASSUME NEW p \in Procs, Flush(p) \/ Sync(p) \/ Apply(p) PROVE interrupted' \in BOOLEAN
  BY <1>5 DEF Flush, Sync, Apply, machineVars
<1>6. CASE PowerLoss
  BY <1>6 DEF PowerLoss
<1>7. CASE UNCHANGED vars
  BY <1>7 DEF vars, machineVars
<1> QED
  BY <1>1, <1>2, <1>3, <1>4, <1>5, <1>6, <1>7 DEF Next

(***************************************************************************)
(* With one machine at a time that is dropped when a call raises, the file *)
(* replays, and to what the machine has in memory.                         *)
(***************************************************************************)
ListOf(f) == \E S : f \in Seq(S)

(***************************************************************************)
(* The inductive invariant.                                                *)
(***************************************************************************)
\* As much of the types as the argument needs: what is in the machines and
\* in the tasks does not matter.
Shape ==
  /\ live \subseteq Procs
  /\ mem = [p \in Procs |-> mem[p]]
  /\ todo = [p \in Procs |-> todo[p]]
  /\ step = [p \in Procs |-> step[p]]
  /\ ListOf(file)
  /\ synced \in Nat

\* One process at most has a machine, and only it is in a call.
OneMachine ==
  /\ \A p, q \in live : p = q
  /\ \A p \in Procs : todo[p] # <<>> => p \in live

\* An append under way is for the next event of a call, and a legal one.
Appends ==
  \A p \in Procs : step[p] # "none" =>
    todo[p] # <<>> /\ ValidateEvent(mem[p], Head(todo[p]))

\* Every prefix replays: a power failure leaves one.
PrefixesReplay == \A i \in DOMAIN file : file[i].ok

Agreement == \A p \in live : MemoryWith(p) = History.state

IInv == Shape /\ OneMachine /\ Appends /\ PrefixesReplay /\ Agreement

(***************************************************************************)
(* Lists.                                                                  *)
(***************************************************************************)
\* A list with one more entry.
LEMMA ListAppend ==
  ASSUME NEW f, ListOf(f), NEW x
  PROVE  /\ ListOf(Append(f, x))
         /\ Len(f) \in Nat /\ DOMAIN f = 1..Len(f)
         /\ Len(Append(f, x)) = Len(f) + 1
         /\ DOMAIN Append(f, x) = 1..(Len(f) + 1)
         /\ \A i \in DOMAIN f : Append(f, x)[i] = f[i]
         /\ Append(f, x)[Len(f) + 1] = x
         /\ Append(f, x) # <<>>
<1>1. PICK S : f \in Seq(S)
  BY DEF ListOf
<1>2. f \in Seq(S \cup {x})
  BY <1>1
<1>3. Append(f, x) \in Seq(S \cup {x})
  BY <1>2
<1>4. ListOf(Append(f, x))
  BY <1>3 DEF ListOf
<1>5. Len(f) \in Nat /\ DOMAIN f = 1..Len(f)
  BY <1>2
<1>6. /\ Len(Append(f, x)) = Len(f) + 1
      /\ DOMAIN Append(f, x) = 1..(Len(f) + 1)
      /\ Append(f, x)[Len(f) + 1] = x
      /\ Append(f, x) # <<>>
  BY <1>2, <1>3
<1>7. \A i \in DOMAIN f : Append(f, x)[i] = f[i]
  BY <1>2
<1> QED BY <1>4, <1>5, <1>6, <1>7

\* A list cut off.
LEMMA ListPrefix ==
  ASSUME NEW f, ListOf(f), NEW n \in 0..Len(f)
  PROVE  /\ ListOf(SubSeq(f, 1, n))
         /\ \A i \in DOMAIN SubSeq(f, 1, n) : i \in DOMAIN f /\ SubSeq(f, 1, n)[i] = f[i]
<1>1. PICK S : f \in Seq(S)
  BY DEF ListOf
<1>2. SubSeq(f, 1, n) \in Seq(S)
  BY <1>1
<1> QED BY <1>1, <1>2 DEF ListOf

(***************************************************************************)
(* Replaying.                                                              *)
(***************************************************************************)
\* A file whose prefixes replay does.
LEMMA HistoryIsOk ==
  ASSUME Shape, PrefixesReplay
  PROVE  History.ok
<1>1. CASE file = <<>>
  BY <1>1 DEF History
<1>2. CASE file # <<>>
  <2>1. PICK S : file \in Seq(S)
    BY DEF Shape, ListOf
  <2>2. Len(file) \in DOMAIN file
    BY <1>2, <2>1
  <2> QED BY <1>2, <2>2 DEF History, PrefixesReplay
<1> QED BY <1>1, <1>2

\* A legal line is replayed, and the others are as before.
LEMMA LineReplays ==
  ASSUME Shape, PrefixesReplay, NEW e, ValidateEvent(History.state, e),
         file' = Append(file, ReplayEvent(History, e))
  PROVE  /\ ListOf(file')
         /\ PrefixesReplay'
         /\ History'.state = ApplyEvent(History.state, e)
<1> DEFINE line == ReplayEvent(History, e)
<1>1. line.ok /\ line.state = ApplyEvent(History.state, e)
  BY HistoryIsOk DEF ReplayEvent
<1>2. ListOf(file)
  BY DEF Shape
<1> HIDE DEF line
<1>3. file' = Append(file, line)
  BY DEF line
<1>4. /\ ListOf(file')
      /\ Len(file) \in Nat /\ DOMAIN file = 1..Len(file)
      /\ Len(file') = Len(file) + 1
      /\ DOMAIN file' = 1..(Len(file) + 1)
      /\ \A i \in DOMAIN file : file'[i] = file[i]
      /\ file'[Len(file) + 1] = line
      /\ file' # <<>>
  BY <1>2, <1>3, ListAppend
<1>5. PrefixesReplay'
  <2> SUFFICES ASSUME NEW i \in DOMAIN file' PROVE file'[i].ok
    BY DEF PrefixesReplay
  <2>1. i \in DOMAIN file \/ i = Len(file) + 1
    BY <1>4
  <2> QED BY <1>1, <1>4, <2>1 DEF PrefixesReplay
<1>6. History' = line
  BY <1>4 DEF History
<1> QED BY <1>1, <1>4, <1>5, <1>6

(***************************************************************************)
(* The invariant is inductive.                                             *)
(***************************************************************************)
\* No machine, no line.
LEMMA InitInv == Init => IInv
<1> SUFFICES ASSUME Init PROVE IInv
  OBVIOUS
<1>1. file = <<>> /\ file \in Seq({})
  BY DEF Init
<1>2. /\ live = {}
      /\ mem = [p \in Procs |-> API!NewMachine]
      /\ todo = [p \in Procs |-> <<>>]
  BY DEF Init, API!Init
<1>3. Shape
  BY <1>1, <1>2 DEF Init, Shape, ListOf
<1> QED
  BY <1>1, <1>2, <1>3 DEF Init, IInv, OneMachine, Appends, PrefixesReplay, Agreement

\* A machine is opened where there was none, on what the file replays to.
LEMMA OpenInv ==
  ASSUME IInv, NEW p \in Procs, live = {}, live' = live \cup {p},
         NEW m, mem' = [mem EXCEPT ![p] = m], m = History'.state,
         UNCHANGED <<todo, step>>, ListOf(file'), synced' \in Nat, PrefixesReplay'
  PROVE  IInv'
<1>1. Shape'
  BY DEF IInv, Shape
<1>2. mem'[p] = m
  BY DEF IInv, Shape
<1>3. OneMachine'
  BY DEF IInv, OneMachine
<1>4. \A q \in Procs : step[q] = "none"
  BY DEF IInv, OneMachine, Appends
<1>5. Appends'
  BY <1>4 DEF Appends
<1>6. Agreement'
  BY <1>2, <1>4 DEF Agreement, MemoryWith
<1> QED BY <1>1, <1>3, <1>5, <1>6 DEF IInv

\* The first line replays.
LEMMA FirstLineReplays ==
  ASSUME file = <<>>, file' = <<ReplayEvent(History, Created)>>
  PROVE  /\ ListOf(file') /\ PrefixesReplay'
         /\ History'.state = ApplyEvent(NewMachine, Created)
<1>1. History = [ok |-> TRUE, state |-> NewMachine]
  BY DEF History
<1>2. ValidateEvent(NewMachine, Created)
  BY DEF ValidateEvent, Created, NewMachine
<1> DEFINE line == ReplayEvent(History, Created)
<1>3. line.ok /\ line.state = ApplyEvent(NewMachine, Created)
  BY <1>1, <1>2 DEF ReplayEvent
<1> HIDE DEF line
<1>4. file' = <<line>>
  BY DEF line
<1>5. ListOf(file') /\ file' # <<>> /\ Len(file') = 1 /\ DOMAIN file' = {1} /\ file'[1] = line
  <2>1. <<line>> \in Seq({line})
    OBVIOUS
  <2>2. ListOf(file')
    BY <1>4, <2>1 DEF ListOf
  <2> QED BY <1>4, <2>2
<1>6. History' = line
  BY <1>5 DEF History
<1>7. PrefixesReplay'
  BY <1>3, <1>5 DEF PrefixesReplay
<1> QED BY <1>3, <1>5, <1>6, <1>7

\* create.
LEMMA CreateInv ==
  ASSUME Exclusive, IInv, NEW p \in Procs, Create(p)
  PROVE  IInv'
<1>1. live = {} /\ file = <<>> /\ file' = <<ReplayEvent(History, Created)>>
  BY DEF Create, API!MayOpen
<1>2. ListOf(file') /\ PrefixesReplay' /\ History'.state = ApplyEvent(NewMachine, Created)
  BY <1>1, FirstLineReplays
<1>3. /\ live' = live \cup {p}
      /\ synced' = 1 \/ synced' = synced
      /\ UNCHANGED <<todo, step>>
      /\ mem' = [mem EXCEPT ![p] = ApplyEvent(NewMachine, Created)]
  BY DEF Create
<1>4. synced' \in Nat
  BY <1>3 DEF IInv, Shape
<1> HIDE DEF IInv
<1> QED BY <1>1, <1>2, <1>3, <1>4, OpenInv

\* create fails: nobody has a machine.
LEMMA CreateFailsInv ==
  ASSUME Exclusive, IInv, NEW p \in Procs, CreateFails(p)
  PROVE  IInv'
<1>1. /\ live = {} /\ UNCHANGED <<live, mem, todo, step, synced>>
      /\ file' = file \/ (file = <<>> /\ file' = <<ReplayEvent(History, Created)>>)
  BY DEF CreateFails, API!MayOpen, machineVars
<1>2. ListOf(file') /\ PrefixesReplay'
  BY <1>1, FirstLineReplays DEF IInv, Shape, ListOf, PrefixesReplay
<1> QED
  BY <1>1, <1>2 DEF IInv, Shape, OneMachine, Appends, Agreement

\* replay.
LEMMA ReplayInv ==
  ASSUME Exclusive, IInv, NEW p \in Procs, Replay(p)
  PROVE  IInv'
<1>1. /\ live = {} /\ live' = live \cup {p}
      /\ mem' = [mem EXCEPT ![p] = History.state]
      /\ UNCHANGED <<todo, step>> /\ file' = file /\ synced' = synced
  BY DEF Replay, Replayed, API!MayOpen, ledgerVars
<1>2. History' = History
  BY <1>1 DEF History
<1>3. ListOf(file') /\ synced' \in Nat /\ PrefixesReplay'
  BY <1>1 DEF IInv, Shape, PrefixesReplay, ListOf
<1> QED BY <1>1, <1>2, <1>3, OpenInv

\* What the process that loses its machine leaves behind.
LEMMA LoseParts ==
  ASSUME IInv, NEW p \in Procs, Lose(p), ListOf(file'), synced' \in Nat
  PROVE  /\ Shape' /\ OneMachine' /\ Appends'
         /\ p \in live => live' = {}
         /\ \A q \in live' : q \in live /\ MemoryWith(q)' = MemoryWith(q)
<1>1. \A q \in Procs : q # p =>
        mem'[q] = mem[q] /\ todo'[q] = todo[q] /\ step'[q] = step[q]
  BY DEF IInv, Shape, Lose
<1>2. todo'[p] = <<>> /\ step'[p] = "none" /\ live' = live \ {p}
  BY DEF IInv, Shape, Lose
<1>3. Shape'
  BY DEF IInv, Shape, Lose
<1>4. OneMachine'
  BY <1>1, <1>2 DEF IInv, OneMachine
<1>5. Appends'
  BY <1>1, <1>2 DEF IInv, Appends
<1>6. p \in live => live' = {}
  BY <1>2 DEF IInv, OneMachine
<1>7. \A q \in live' : q \in live /\ q # p /\ q \in Procs
  BY <1>2 DEF IInv, Shape
<1>8. \A q \in live' : MemoryWith(q)' = MemoryWith(q)
  BY <1>1, <1>7 DEF MemoryWith
<1> QED BY <1>3, <1>4, <1>5, <1>6, <1>7, <1>8

\* Exit, Crash, and an exception that leaves the file alone.
LEMMA LoseInv ==
  ASSUME IInv, NEW p \in Procs, Lose(p), file' = file, synced' = synced
  PROVE  IInv'
<1>1. ListOf(file') /\ synced' \in Nat
  BY DEF IInv, Shape
<1>2. Shape' /\ OneMachine' /\ Appends'
  BY <1>1, LoseParts
<1>3. PrefixesReplay'
  BY DEF IInv, PrefixesReplay
<1>4. History' = History
  BY DEF History
<1>5. Agreement'
  BY <1>1, <1>4, LoseParts DEF IInv, Agreement
<1> QED BY <1>2, <1>3, <1>5 DEF IInv

\* An append is about to begin: the event is legal in the replayed state.
LEMMA AppendingIsLegal ==
  ASSUME IInv, NEW p \in Procs, Appending(p)
  PROVE  /\ p \in live /\ todo[p] # <<>> /\ step[p] = "none"
         /\ mem[p] = History.state
         /\ ValidateEvent(History.state, Head(todo[p]))
<1>1. todo[p] # <<>> /\ step[p] = "none" /\ ValidateEvent(mem[p], Head(todo[p]))
  BY DEF Appending, API!Emitting
<1>2. p \in live
  BY <1>1 DEF IInv, OneMachine
<1>3. mem[p] = History.state
  BY <1>1, <1>2 DEF IInv, Agreement, MemoryWith
<1> QED BY <1>1, <1>2, <1>3

\* The line is written.
LEMMA FlushInv ==
  ASSUME IInv, NEW p \in Procs, Flush(p)
  PROVE  IInv'
<1> DEFINE e == Head(todo[p])
<1>1. /\ p \in live /\ todo[p] # <<>> /\ step[p] = "none" /\ mem[p] = History.state
      /\ ValidateEvent(History.state, e)
  BY AppendingIsLegal DEF Flush
<1>2. file' = Append(file, ReplayEvent(History, e))
  BY DEF Flush, Appended
<1>3. ListOf(file') /\ PrefixesReplay' /\ History'.state = ApplyEvent(History.state, e)
  BY <1>1, <1>2, LineReplays DEF IInv
<1>4. /\ step' = [step EXCEPT ![p] = "flushed"]
      /\ live' = live /\ mem' = mem /\ todo' = todo /\ synced' = synced
  BY DEF Flush, machineVars
<1>5. Shape'
  BY <1>3, <1>4 DEF IInv, Shape
<1>6. OneMachine'
  BY <1>4 DEF IInv, OneMachine
<1>7. step'[p] = "flushed" /\ \A q \in Procs : q # p => step'[q] = step[q]
  BY <1>4 DEF IInv, Shape
<1>8. Appends'
  BY <1>1, <1>4, <1>7 DEF IInv, Appends
<1>9. \A q \in live : q = p
  BY <1>1 DEF IInv, OneMachine
<1>10. Agreement'
  BY <1>1, <1>3, <1>4, <1>7, <1>9 DEF Agreement, MemoryWith
<1> QED BY <1>3, <1>5, <1>6, <1>8, <1>10 DEF IInv

\* fsync changes neither the file nor what is in memory.
LEMMA SyncInv ==
  ASSUME IInv, NEW p \in Procs, Sync(p)
  PROVE  IInv'
<1>1. /\ step' = [step EXCEPT ![p] = "synced"] /\ step[p] = "flushed"
      /\ live' = live /\ mem' = mem /\ todo' = todo /\ file' = file
      /\ synced' = synced \/ synced' = Len(file)
  BY DEF Sync, machineVars, Durable
<1>2. Len(file) \in Nat
  BY DEF IInv, Shape, ListOf
<1>3. Shape'
  BY <1>1, <1>2 DEF IInv, Shape
<1>4. OneMachine' /\ PrefixesReplay'
  BY <1>1 DEF IInv, OneMachine, PrefixesReplay
<1>5. \A q \in Procs : step'[q] = "none" <=> step[q] = "none"
  BY <1>1 DEF IInv, Shape
<1>6. Appends'
  BY <1>1, <1>5 DEF IInv, Appends
<1>7. History' = History
  BY <1>1 DEF History
<1>8. \A q \in live : q \in Procs
  BY DEF IInv, Shape
<1>9. Agreement'
  BY <1>1, <1>5, <1>7, <1>8 DEF IInv, Agreement, MemoryWith
<1> QED BY <1>3, <1>4, <1>6, <1>9 DEF IInv

\* The event is applied.
LEMMA ApplyInv ==
  ASSUME IInv, NEW p \in Procs, Apply(p)
  PROVE  IInv'
<1> DEFINE e == Head(todo[p])
<1>1. /\ step[p] = "synced" /\ step' = [step EXCEPT ![p] = "none"]
      /\ mem' = [mem EXCEPT ![p] = ApplyEvent(mem[p], e)]
      /\ todo' = [todo EXCEPT ![p] = Tail(todo[p])]
      /\ live' = live /\ file' = file /\ synced' = synced
  BY DEF Apply, ledgerVars
<1>2. todo[p] # <<>> /\ p \in live
  BY <1>1 DEF IInv, Appends, OneMachine
<1>3. mem'[p] = ApplyEvent(mem[p], e) /\ step'[p] = "none"
  BY <1>1 DEF IInv, Shape
<1>4. \A q \in Procs : q # p => step'[q] = step[q] /\ mem'[q] = mem[q] /\ todo'[q] = todo[q]
  BY <1>1 DEF IInv, Shape
<1>5. Shape'
  BY <1>1 DEF IInv, Shape
<1>6. OneMachine' /\ PrefixesReplay'
  BY <1>1, <1>2, <1>4 DEF IInv, OneMachine, PrefixesReplay
<1>7. Appends'
  BY <1>3, <1>4 DEF IInv, Appends
<1>8. History' = History
  BY <1>1 DEF History
<1>9. MemoryWith(p) = ApplyEvent(mem[p], e) /\ MemoryWith(p) = History.state
  BY <1>1, <1>2 DEF IInv, Agreement, MemoryWith
<1>10. \A q \in live : q = p
  BY <1>2 DEF IInv, OneMachine
<1>11. Agreement'
  BY <1>1, <1>3, <1>8, <1>9, <1>10 DEF Agreement, MemoryWith
<1> QED BY <1>5, <1>6, <1>7, <1>11 DEF IInv

(***************************************************************************)
(* The calls of the API only change what is left to do.                    *)
(***************************************************************************)
Retasks(p) ==
  /\ p \in live /\ step[p] = "none"
  /\ \E tasks : todo' = [todo EXCEPT ![p] = tasks]
  /\ UNCHANGED <<live, mem, step, file, synced>>

\* Which disturbs nothing.
LEMMA RetasksInv ==
  ASSUME IInv, NEW p \in Procs, Retasks(p)
  PROVE  IInv'
<1>1. PICK tasks : todo' = [todo EXCEPT ![p] = tasks]
  BY DEF Retasks
<1>2. /\ p \in live /\ step[p] = "none"
      /\ UNCHANGED <<live, mem, step, file, synced>>
  BY DEF Retasks
<1>3. \A q \in Procs : q # p => todo'[q] = todo[q]
  BY <1>1 DEF IInv, Shape
<1>4. Shape'
  BY <1>1, <1>2 DEF IInv, Shape
<1>5. OneMachine' /\ PrefixesReplay'
  BY <1>2, <1>3 DEF IInv, OneMachine, PrefixesReplay
<1>6. Appends'
  BY <1>2, <1>3 DEF IInv, Appends
<1>7. \A q \in live : q = p
  BY <1>2 DEF IInv, OneMachine
<1>8. History' = History
  BY <1>2 DEF History
<1>9. Agreement'
  BY <1>2, <1>7, <1>8 DEF IInv, Agreement, MemoryWith
<1> QED BY <1>4, <1>5, <1>6, <1>9 DEF IInv

\* A method that is entered.
LEMMA CallRetasks ==
  ASSUME IInv, NEW p \in Procs, NEW tasks, API!Call(p, tasks), UNCHANGED <<step, file, synced>>
  PROVE  Retasks(p)
<1>1. /\ p \in live /\ todo[p] = <<>>
      /\ todo' = [todo EXCEPT ![p] = tasks]
      /\ UNCHANGED <<live, mem>>
  BY DEF API!Call, API!Ready
<1>2. step[p] = "none"
  BY <1>1 DEF IInv, Appends
<1> QED BY <1>1, <1>2 DEF Retasks

\* Every method.
LEMMA WorkRetasks ==
  ASSUME IInv, NEW p \in Procs, Work(p)
  PROVE  Retasks(p)
<1>1. UNCHANGED <<step, file, synced>>
  BY DEF Work, ledgerVars
<1>2. \E tasks : API!Call(p, tasks)
  BY CallsQueue DEF Work, Queues
<1> QED BY <1>1, <1>2, CallRetasks

\* The scans.
LEMMA BetweenRetasks ==
  ASSUME IInv, NEW p \in Procs, Between(p)
  PROVE  Retasks(p)
<1>1. step[p] = "none" /\ UNCHANGED <<step, file, synced>>
  BY DEF Between, ledgerVars
<1>2. /\ todo[p] # <<>> /\ UNCHANGED <<live, mem>>
      /\ \E tasks : todo' = [todo EXCEPT ![p] = tasks]
  <2>1. ASSUME NEW s \in Stages, API!MaterializeStage(p, s)
        PROVE  /\ todo[p] # <<>> /\ UNCHANGED <<live, mem>>
               /\ \E tasks : todo' = [todo EXCEPT ![p] = tasks]
    BY <2>1 DEF API!MaterializeStage, API!Active
  <2>2. CASE API!MaterializedAll(p)
    BY <2>2 DEF API!MaterializedAll, API!Active
  <2>3. CASE API!FinishCall(p)
    BY <2>3 DEF API!FinishCall, API!Active
  <2> QED BY <2>1, <2>2, <2>3 DEF Between
<1>3. p \in live
  BY <1>2 DEF IInv, OneMachine
<1> QED BY <1>1, <1>2, <1>3 DEF Retasks

(***************************************************************************)
(* Failures.                                                               *)
(***************************************************************************)
\* The disk takes a part of the line, or all of it.
LEMMA TearInv ==
  ASSUME Discards, IInv, NEW p \in Procs, Tear(p)
  PROVE  IInv'
<1>1. Appending(p) /\ Lose(p) /\ synced' = synced
  BY DEF Tear, Raise
<1>2. CASE file' = file
  BY <1>1, <1>2, LoseInv
<1>3. CASE file' = Appended(Head(todo[p]))
  <2>1. p \in live /\ ValidateEvent(History.state, Head(todo[p]))
    BY <1>1, AppendingIsLegal
  <2>2. ListOf(file') /\ PrefixesReplay'
    BY <1>3, <2>1, LineReplays DEF IInv, Appended
  <2>3. synced' \in Nat
    BY <1>1 DEF IInv, Shape
  <2>4. Shape' /\ OneMachine' /\ Appends' /\ live' = {}
    BY <1>1, <2>1, <2>2, <2>3, LoseParts
  <2>5. Agreement'
    BY <2>4 DEF Agreement
  <2> QED BY <2>2, <2>4, <2>5 DEF IInv
<1> QED BY <1>2, <1>3 DEF Tear

\* A prefix of the file replays, and nobody has a machine.
LEMMA PowerLossInv ==
  ASSUME IInv, PowerLoss
  PROVE  IInv'
<1>1. /\ live' = {} /\ mem' = [p \in Procs |-> NewMachine]
      /\ todo' = [p \in Procs |-> <<>>] /\ step' = [p \in Procs |-> "none"]
      /\ synced' = synced
  BY DEF PowerLoss
<1>2. PICK n \in synced..Len(file) : file' = SubSeq(file, 1, n)
  BY DEF PowerLoss
<1>3. ListOf(file) /\ synced \in Nat
  BY DEF IInv, Shape
<1>4. Len(file) \in Nat
  BY <1>3 DEF ListOf
<1>5. n \in 0..Len(file)
  BY <1>3, <1>4
<1>6. /\ ListOf(file')
      /\ \A i \in DOMAIN file' : i \in DOMAIN file /\ file'[i] = file[i]
  BY <1>2, <1>3, <1>5, ListPrefix
<1>7. Shape'
  BY <1>1, <1>3, <1>6 DEF Shape
<1>8. OneMachine' /\ Appends' /\ Agreement'
  BY <1>1 DEF OneMachine, Appends, Agreement
<1>9. PrefixesReplay'
  BY <1>6 DEF IInv, PrefixesReplay
<1> QED BY <1>7, <1>8, <1>9 DEF IInv

\* Every step keeps memory and file together.
LEMMA NextInv ==
  ASSUME Exclusive, Discards, IInv, [Next]_vars
  PROVE  IInv'
<1>1. ASSUME NEW p \in Procs, Create(p) \/ CreateFails(p) \/ Replay(p) PROVE IInv'
  BY <1>1, CreateInv, CreateFailsInv, ReplayInv
<1>2. ASSUME NEW p \in Procs, Exit(p) \/ Crash(p) \/ Refuse(p) \/ FailEarly(p) \/ FailLate(p)
      PROVE  IInv'
  <2>1. Lose(p) /\ file' = file /\ synced' = synced
    BY <1>2 DEF Exit, Crash, Refuse, FailEarly, FailLate, Raise, ledgerVars
  <2> QED BY <2>1, LoseInv
<1>3. ASSUME NEW p \in Procs, Work(p) \/ Between(p) PROVE IInv'
  BY <1>3, WorkRetasks, BetweenRetasks, RetasksInv
<1>4. ASSUME NEW p \in Procs, Flush(p) \/ Sync(p) \/ Apply(p) PROVE IInv'
  BY <1>4, FlushInv, SyncInv, ApplyInv
<1>5. ASSUME NEW p \in Procs, Tear(p) PROVE IInv'
  BY <1>5, TearInv
<1>6. CASE PowerLoss
  BY <1>6, PowerLossInv
<1>7. CASE UNCHANGED vars
  <2>1. UNCHANGED <<live, mem, todo, step, file, synced>>
    BY <1>7 DEF vars, machineVars, ledgerVars
  <2>2. History' = History
    BY <2>1 DEF History
  <2>3. Agreement'
    BY <2>1, <2>2 DEF IInv, Agreement, MemoryWith
  <2> QED BY <2>1, <2>3 DEF IInv, Shape, ListOf, OneMachine, Appends, PrefixesReplay
<1> QED BY <1>1, <1>2, <1>3, <1>4, <1>5, <1>6, <1>7 DEF Next

(***************************************************************************)
(* The results.                                                            *)
(***************************************************************************)
\* The inductive invariant holds in every reachable state.
THEOREM LoggedInductive == Exclusive /\ Discards => (Spec => []IInv)
<1> SUFFICES ASSUME Exclusive, Discards PROVE Spec => []IInv
  OBVIOUS
<1>1. Init => IInv
  BY InitInv
<1>2. IInv /\ [Next]_vars => IInv'
  BY NextInv
<1> QED BY <1>1, <1>2, PTL DEF Spec

\* With one machine at a time, dropped when a call raises, a file that decodes
\* replays to the memory of the machine, up to the event being appended.
THEOREM FileIsMemory == Spec => []MemoryIsReplay
<1>1. CASE Exclusive /\ Discards
  <2>1. IInv => MemoryIsReplay
    BY HistoryIsOk DEF IInv, Agreement, MemoryIsReplay, Replayed
  <2>2. Spec => []IInv
    BY <1>1, LoggedInductive
  <2> QED BY <2>1, <2>2, PTL
<1>2. CASE ~(Exclusive /\ Discards)
  <2>1. MemoryIsReplay
    BY <1>2 DEF MemoryIsReplay
  <2> QED BY <2>1, PTL
<1> QED BY <1>1, <1>2

(***************************************************************************)
(* The retry budget as the workers see it.  Two machines at a time could   *)
(* each send off the last worker, so there is one, and what fsync has not  *)
(* reached may be gone, so no error of it was swallowed.  That a machine   *)
(* is dropped when a call raises is not needed: a line that is refused     *)
(* sends nobody off.                                                       *)
(***************************************************************************)
Lone == \A p, q \in live : p = q

\* An append of unit.started of r is under way.
Starting(p, r) ==
  /\ step[p] # "none"
  /\ Head(todo[p]).type = "unit.started" /\ Head(todo[p]).unit = r

\* The workers sent off are attempts in every memory, and in every line from
\* the last durable one on: these are what a replay may find.  The line of a
\* start that is under way has one more.
Counted(r) ==
  /\ started[r] <= MaxAttempts[StageOf(r)]
  /\ \A p \in live : started[r] <= mem[p].unit[r].attempts
  /\ \A k \in DOMAIN file :
       k >= synced /\ file[k].ok => started[r] <= file[k].state.unit[r].attempts
  /\ \A p \in Procs :
       Starting(p, r) /\ History.ok => started[r] + 1 <= History.state.unit[r].attempts

BudgetInv == Lone /\ (~lossy => AllDurable /\ \A r \in UnitRefs : Counted(r))

\* The attempts of a unit are a number within the budget.
LEMMA AttemptsTyped ==
  ASSUME NEW m, KernelInv(m), NEW r \in UnitRefs
  PROVE  /\ m.unit[r].attempts \in Nat
         /\ MaxAttempts[StageOf(r)] \in Nat
         /\ m.unit[r].attempts <= MaxAttempts[StageOf(r)]
<1>1. m.unit[r] \in UnitState /\ UnitOK(r, m.unit[r])
  BY DEF KernelInv, UnitsOK, Machine
<1>2. MaxAttempts[StageOf(r)] \in Nat
  BY RefsOfStage, PlanAssumption
<1> QED
  BY <1>1, <1>2 DEF UnitState, UnitOK

\* Steps that neither append nor apply: machines are dropped, calls are made
\* or given up.
LEMMA QuietBudget ==
  ASSUME Sound, BudgetInv, live' \subseteq live,
         \A q \in live' : mem'[q] = mem[q],
         \A q \in Procs : step'[q] # "none" => step'[q] = step[q] /\ todo'[q] = todo[q],
         UNCHANGED <<file, synced, started, lossy>>
  PROVE  BudgetInv'
<1>1. Lone'
  BY DEF BudgetInv, Lone
<1> SUFFICES ASSUME ~lossy PROVE AllDurable' /\ \A r \in UnitRefs : Counted(r)'
  BY <1>1 DEF BudgetInv
<1>2. AllDurable'
  BY DEF BudgetInv, AllDurable
<1>3. History' = History
  BY DEF History
<1>4. ASSUME NEW r \in UnitRefs PROVE Counted(r)'
  <2>1. Counted(r)
    BY DEF BudgetInv
  <2>2. \A p \in Procs : Starting(p, r)' => Starting(p, r)
    BY DEF Starting
  <2>3. \A p \in live' : started'[r] <= mem'[p].unit[r].attempts
    BY <2>1 DEF Counted
  <2> QED
    BY <1>3, <2>1, <2>2, <2>3 DEF Counted
<1> QED
  BY <1>2, <1>4

\* Exit, Crash and exceptions that leave the file alone.
LEMMA LeaveBudget ==
  ASSUME Sound, BudgetInv, NEW p \in Procs, Lose(p) \/ Raise(p),
         UNCHANGED <<file, synced, lossy>>
  PROVE  BudgetInv'
<1>1. /\ live' \subseteq live /\ UNCHANGED started
      /\ \A q \in live' : mem'[q] = mem[q]
      /\ \A q \in Procs : step'[q] # "none" => step'[q] = step[q] /\ todo'[q] = todo[q]
  <2>1. CASE Lose(p)
    BY <2>1 DEF Lose, Sound, ProcsOK
  <2>2. CASE Raise(p) /\ ~Discards
    BY <2>2 DEF Raise, Sound, ProcsOK
  <2> QED
    BY <2>1, <2>2 DEF Raise
<1> QED
  BY <1>1, QuietBudget

\* The calls, and what they do between two appends.
LEMMA CallBudget ==
  ASSUME Sound, BudgetInv, NEW p \in Procs, Work(p) \/ Between(p)
  PROVE  BudgetInv'
<1>1. UNCHANGED <<file, synced, started, lossy, step>>
  BY DEF Work, Between, ledgerVars
<1>2. UNCHANGED <<live, mem>> /\ step[p] = "none"
      /\ \E tasks : todo' = [todo EXCEPT ![p] = tasks]
  <2>1. CASE Work(p)
    <3>1. PICK tasks \in Seq(API!Tasks) : API!Call(p, tasks)
      BY <2>1, CallsQueue DEF Work, Queues
    <3> QED
      BY <3>1 DEF API!Call, API!Ready, API!Emitting, Sound, ProcsOK, Called
  <2>2. CASE Between(p)
    BY <2>2, ScansQueue DEF Between, Sound
  <2> QED
    BY <2>1, <2>2
<1>3. \A q \in Procs : q # p => todo'[q] = todo[q]
  BY <1>2 DEF Sound, ProcsOK
<1> QED
  BY <1>1, <1>2, <1>3, QuietBudget

\* A machine is opened where there was none, or not even that.
LEMMA OpenBudget ==
  ASSUME Exclusive, Sound, NothingYet, BudgetInv, NEW p \in Procs,
         Create(p) \/ CreateFails(p) \/ Replay(p)
  PROVE  BudgetInv'
<1>1. /\ live = {} /\ live' \subseteq {p} /\ \A q \in Procs : step[q] = "none"
      /\ UNCHANGED <<step, todo, started>>
  BY DEF Create, CreateFails, Replay, API!MayOpen, machineVars, ledgerVars, Sound, ProcsOK, Called
<1>2. Lone' /\ AllDurable' /\ \A q \in Procs, r \in UnitRefs : ~Starting(q, r)'
  BY <1>1 DEF Lone, AllDurable, Starting
<1> SUFFICES ASSUME ~lossy', NEW r \in UnitRefs PROVE Counted(r)'
  BY <1>1, <1>2 DEF BudgetInv
<1>3. ~lossy /\ Counted(r)
  BY DEF BudgetInv, Create, CreateFails, Replay, ledgerVars
<1>4. Sound'
  BY CreateSound, CreateFailsSound, ReplaySound
<1>5. CASE Create(p) \/ CreateFails(p)
  <2>1. file = <<>> /\ synced \in 0..Len(file)
    BY <1>5 DEF Create, CreateFails, Sound, FileOK
  <2>2. started[r] = 0
    BY <1>3, <2>1 DEF NothingYet
  <2>3. \A m : KernelInv(m) => 0 <= m.unit[r].attempts
    BY AttemptsTyped
  <2>4. \A k \in DOMAIN file' : KernelInv(file'[k].state)
    BY <1>4 DEF Sound, FileOK
  <2>5. KernelInv(mem'[p])
    BY <1>4 DEF Sound, ProcsOK, Called
  <2> QED
    BY <1>1, <1>2, <1>3, <2>2, <2>3, <2>4, <2>5 DEF Counted
<1>6. CASE Replay(p)
  <2>1. /\ file # <<>> /\ History.ok /\ UNCHANGED <<file, synced>>
        /\ mem' = [mem EXCEPT ![p] = History.state]
    BY <1>6 DEF Replay, Replayed, ledgerVars
  <2>2. Len(file) \in DOMAIN file /\ History = file[Len(file)] /\ Len(file) >= synced
    BY <2>1, HistorySound DEF Sound, FileOK
  <2>3. mem'[p] = History.state
    BY <2>1 DEF Sound, ProcsOK
  <2>4. started[r] <= History.state.unit[r].attempts
    BY <1>3, <2>1, <2>2 DEF Counted
  <2> QED
    BY <1>1, <1>2, <1>3, <2>1, <2>3, <2>4 DEF Counted
<1> QED
  BY <1>5, <1>6

\* A line for the next event of p: what it replays to has the attempts so
\* far, and one more if the event is a start.
LEMMA LineCounts ==
  ASSUME Sound, BudgetInv, ~lossy, NEW r \in UnitRefs, file # <<>>, NEW e \in Events
  PROVE  LET line == ReplayEvent(History, e) IN
         line.ok => /\ started[r] <= line.state.unit[r].attempts
                    /\ e.type = "unit.started" /\ e.unit = r =>
                         started[r] + 1 <= line.state.unit[r].attempts
<1> DEFINE line == ReplayEvent(History, e)
           m == History.state
<1>1. SUFFICES ASSUME line.ok
      PROVE  /\ started[r] <= line.state.unit[r].attempts
             /\ e.type = "unit.started" /\ e.unit = r =>
                  started[r] + 1 <= line.state.unit[r].attempts
  OBVIOUS
<1>2. /\ History.ok /\ ValidateEvent(m, e) /\ line.state = ApplyEvent(m, e)
      /\ KernelInv(line.state)
  BY <1>1, LineSound DEF Sound
<1>3. KernelInv(m) /\ Len(file) \in DOMAIN file /\ History = file[Len(file)]
  BY HistorySound DEF Sound
<1>4. Len(file) >= synced
  BY DEF Sound, FileOK
<1>5. started[r] <= m.unit[r].attempts
  BY <1>2, <1>3, <1>4 DEF BudgetInv, Counted
<1>6. /\ m.unit[r].attempts <= line.state.unit[r].attempts
      /\ e.type = "unit.started" /\ e.unit = r =>
           line.state.unit[r].attempts = m.unit[r].attempts + 1
  BY <1>2, <1>3, AttemptsStay
<1>7. started[r] \in Nat /\ m.unit[r].attempts \in Nat /\ line.state.unit[r].attempts \in Nat
  BY <1>2, <1>3, AttemptsTyped DEF Sound, CountsOK
<1> HIDE DEF line, m
<1> QED
  BY <1>5, <1>6, <1>7

\* The lines with one more; no append but that of p is under way.
LEMMA LongerBudget ==
  ASSUME Sound, BudgetInv, NEW p \in Procs, Appending(p), file' = Appended(Head(todo[p])),
         UNCHANGED <<synced, started, lossy>>,
         live' \subseteq live, \A q \in live' : mem'[q] = mem[q],
         step'[p] # "synced", step'[p] # "none" => todo'[p] = todo[p],
         \A q \in Procs : q # p => step'[q] = step[q]
  PROVE  BudgetInv'
<1> DEFINE e == Head(todo[p])
           line == ReplayEvent(History, e)
<1>1. p \in live /\ file # <<>> /\ e \in Events
  BY AppendingSound
<1>2. Lone'
  BY DEF BudgetInv, Lone
<1>3. \A q \in Procs : q # p => step'[q] = "none"
  BY <1>1 DEF BudgetInv, Lone, Sound, ProcsOK, Called
<1>4. AllDurable'
  BY <1>3 DEF AllDurable
<1> SUFFICES ASSUME ~lossy, NEW r \in UnitRefs PROVE Counted(r)'
  BY <1>2, <1>4 DEF BudgetInv
<1>5. line.ok => /\ started[r] <= line.state.unit[r].attempts
                 /\ e.type = "unit.started" /\ e.unit = r =>
                      started[r] + 1 <= line.state.unit[r].attempts
  BY <1>1, LineCounts
<1>6. Counted(r)
  BY DEF BudgetInv
<1>7. /\ file' # <<>> /\ Len(file') = Len(file) + 1
      /\ DOMAIN file = 1..Len(file) /\ DOMAIN file' = 1..Len(file) + 1
      /\ \A i \in DOMAIN file : file'[i] = file[i]
      /\ file'[Len(file) + 1] = line
  BY <1>1, AppendedSound DEF Sound
<1>8. History' = line
  BY <1>7 DEF History
<1>9. \A q \in Procs : Starting(q, r)' => e.type = "unit.started" /\ e.unit = r
  BY <1>3 DEF Starting
<1> HIDE DEF e, line
<1>10. \A k \in DOMAIN file' :
         k >= synced' /\ file'[k].ok => started'[r] <= file'[k].state.unit[r].attempts
  <2> SUFFICES ASSUME NEW k \in DOMAIN file', k >= synced', file'[k].ok
               PROVE  started[r] <= file'[k].state.unit[r].attempts
    OBVIOUS
  <2>1. k \in DOMAIN file \/ k = Len(file) + 1
    BY <1>7 DEF Sound, FileOK
  <2> QED
    BY <1>5, <1>6, <1>7, <2>1 DEF Counted
<1> QED
  BY <1>5, <1>6, <1>8, <1>9, <1>10 DEF Counted

\* The line is written: if it is a start, it has one attempt more.
LEMMA FlushBudget ==
  ASSUME Sound, BudgetInv, NEW p \in Procs, Flush(p)
  PROVE  BudgetInv'
<1>1. /\ Appending(p) /\ file' = Appended(Head(todo[p]))
      /\ step' = [step EXCEPT ![p] = "flushed"]
      /\ UNCHANGED <<live, mem, todo, synced, started, lossy>>
  BY DEF Flush, machineVars
<1>2. step'[p] = "flushed" /\ \A q \in Procs : q # p => step'[q] = step[q]
  BY <1>1 DEF Sound, ProcsOK
<1> QED
  BY <1>1, <1>2, LongerBudget

\* The line that the disk took although the append raised.
LEMMA TearBudget ==
  ASSUME Sound, BudgetInv, NEW p \in Procs, Tear(p)
  PROVE  BudgetInv'
<1>1. Appending(p) /\ Raise(p) /\ UNCHANGED <<synced, lossy>>
  BY DEF Tear
<1>2. CASE file' = file
  BY <1>1, <1>2, LeaveBudget
<1>3. CASE file' = Appended(Head(todo[p]))
  <2>1. /\ live' \subseteq live /\ UNCHANGED started
        /\ \A q \in live' : mem'[q] = mem[q]
        /\ step'[p] = "none" /\ \A q \in Procs : q # p => step'[q] = step[q]
    <3>1. CASE Discards
      BY <1>1, <3>1 DEF Raise, Lose, Sound, ProcsOK
    <3>2. CASE ~Discards
      BY <1>1, <3>2 DEF Raise, Sound, ProcsOK
    <3> QED
      BY <3>1, <3>2
  <2> QED
    BY <1>1, <1>3, <2>1, LongerBudget
<1> QED
  BY <1>2, <1>3 DEF Tear

\* Fewer lines may be replayed, and now the last one will be.
LEMMA SyncBudget ==
  ASSUME Sound, BudgetInv, NEW p \in Procs, Sync(p)
  PROVE  BudgetInv'
<1>1. /\ step[p] = "flushed" /\ step' = [step EXCEPT ![p] = "synced"]
      /\ \/ synced' = Len(file) /\ UNCHANGED lossy
         \/ lossy'
      /\ UNCHANGED <<live, mem, todo, file, started>>
  BY DEF Sync, machineVars, Durable
<1>2. Lone'
  BY <1>1 DEF BudgetInv, Lone
<1> SUFFICES ASSUME ~lossy' PROVE AllDurable' /\ \A r \in UnitRefs : Counted(r)'
  BY <1>2 DEF BudgetInv
<1>3. synced' = Len(file) /\ ~lossy
  BY <1>1
<1>4. AllDurable'
  BY <1>1, <1>3 DEF AllDurable
<1>5. History' = History
  BY <1>1 DEF History
<1>6. \A q \in Procs : step'[q] # "none" => step[q] # "none"
  BY <1>1 DEF Sound, ProcsOK
<1>7. synced <= Len(file) /\ synced \in Nat /\ DOMAIN file = 1..Len(file) /\ Len(file) \in Nat
  BY DEF Sound, FileOK
<1>8. ASSUME NEW r \in UnitRefs PROVE Counted(r)'
  <2>1. Counted(r)
    BY <1>3 DEF BudgetInv
  <2>2. \A q \in Procs : Starting(q, r)' => Starting(q, r)
    BY <1>1, <1>6 DEF Starting
  <2>3. \A k \in DOMAIN file : k >= synced' => k >= synced
    BY <1>3, <1>7
  <2> QED
    BY <1>1, <1>5, <2>1, <2>2, <2>3 DEF Counted
<1> QED
  BY <1>4, <1>8

\* The start is counted when its line is durable and the last one.
LEMMA ApplyBudget ==
  ASSUME Sound, BudgetInv, NEW p \in Procs, Apply(p)
  PROVE  BudgetInv'
<1> DEFINE e == Head(todo[p])
           m == ApplyEvent(mem[p], e)
<1>1. /\ step[p] = "synced" /\ step' = [step EXCEPT ![p] = "none"]
      /\ mem' = [mem EXCEPT ![p] = m]
      /\ started' = IF e.type = "unit.started"
                    THEN [started EXCEPT ![e.unit] = started[e.unit] + 1] ELSE started
      /\ UNCHANGED <<live, file, synced, lossy>>
  BY DEF Apply, ledgerVars
<1>2. /\ p \in live /\ file # <<>> /\ e \in Events /\ ValidateEvent(mem[p], e)
      /\ KernelInv(mem[p]) /\ KernelInv(m)
  BY <1>1, ApplyingSound
<1>3. Lone' /\ live = {p}
  BY <1>1, <1>2 DEF BudgetInv, Lone
<1>4. mem'[p] = m /\ \A q \in Procs : step'[q] = "none"
  BY <1>1, <1>3 DEF Sound, ProcsOK, Called
<1>5. AllDurable' /\ \A q \in Procs, r \in UnitRefs : ~Starting(q, r)'
  BY <1>4 DEF AllDurable, Starting
<1> SUFFICES ASSUME ~lossy, NEW r \in UnitRefs PROVE Counted(r)'
  BY <1>1, <1>3, <1>5 DEF BudgetInv
<1>6. Counted(r) /\ synced = Len(file)
  BY <1>1 DEF BudgetInv, AllDurable
<1>7. /\ started[r] \in Nat /\ mem[p].unit[r].attempts \in Nat /\ m.unit[r].attempts \in Nat
      /\ MaxAttempts[StageOf(r)] \in Nat
      /\ mem[p].unit[r].attempts <= MaxAttempts[StageOf(r)]
      /\ m.unit[r].attempts <= MaxAttempts[StageOf(r)]
  BY <1>2, AttemptsTyped DEF Sound, CountsOK
<1>8. /\ mem[p].unit[r].attempts <= m.unit[r].attempts
      /\ e.type = "unit.started" /\ e.unit = r =>
           m.unit[r].attempts = mem[p].unit[r].attempts + 1
  BY <1>2, AttemptsStay
<1>9. \/ started'[r] = started[r]
      \/ e.type = "unit.started" /\ e.unit = r /\ started'[r] = started[r] + 1
  BY <1>1 DEF Sound, CountsOK
<1>10. started'[r] <= m.unit[r].attempts
  <2>1. started[r] <= mem[p].unit[r].attempts
    BY <1>2, <1>6 DEF Counted
  <2> HIDE DEF e, m
  <2> QED
    BY <1>7, <1>8, <1>9, <2>1
<1>11. ASSUME NEW k \in DOMAIN file, k >= synced, file[k].ok
       PROVE  started'[r] <= file[k].state.unit[r].attempts
  <2>1. k = Len(file) /\ file[k] = History
    BY <1>2, <1>6, <1>11, HistorySound DEF Sound, FileOK
  <2>2. e.type = "unit.started" /\ e.unit = r => Starting(p, r)
    BY <1>1 DEF Starting
  <2>3. started[r] <= file[k].state.unit[r].attempts
    BY <1>6, <1>11 DEF Counted
  <2>4. e.type = "unit.started" /\ e.unit = r =>
          started[r] + 1 <= file[k].state.unit[r].attempts
    BY <1>6, <1>11, <2>1, <2>2 DEF Counted
  <2> QED
    BY <1>9, <2>3, <2>4
<1> HIDE DEF e, m
<1>12. started'[r] <= MaxAttempts[StageOf(r)]
  BY <1>7, <1>9, <1>10
<1> QED
  BY <1>1, <1>3, <1>4, <1>5, <1>10, <1>11, <1>12 DEF Counted

\* What is left of the file is a part that counted before.
LEMMA PowerLossBudget ==
  ASSUME Sound, BudgetInv, PowerLoss
  PROVE  BudgetInv'
<1>1. /\ live' = {} /\ step' = [p \in Procs |-> "none"]
      /\ UNCHANGED <<synced, started, lossy>>
  BY DEF PowerLoss
<1>2. PICK n \in synced..Len(file) : file' = SubSeq(file, 1, n)
  BY DEF PowerLoss
<1>3. \A i \in DOMAIN file' : i \in DOMAIN file /\ file'[i] = file[i]
  BY <1>2, PrefixSound DEF Sound
<1>4. Lone' /\ AllDurable' /\ \A p \in Procs, r \in UnitRefs : ~Starting(p, r)'
  BY <1>1 DEF Lone, AllDurable, Starting
<1>5. ASSUME ~lossy, NEW r \in UnitRefs PROVE Counted(r)'
  <2>1. Counted(r)
    BY <1>5 DEF BudgetInv
  <2> QED
    BY <1>1, <1>3, <1>4, <2>1 DEF Counted
<1> QED
  BY <1>1, <1>4, <1>5 DEF BudgetInv

\* Nobody has been sent off.
LEMMA InitBudget == Init => BudgetInv
<1> SUFFICES ASSUME Init PROVE BudgetInv
  OBVIOUS
<1>1. /\ live = {} /\ file = <<>> /\ step = [p \in Procs |-> "none"]
      /\ started = [r \in UnitRefs |-> 0]
  BY DEF Init, API!Init
<1>2. Lone /\ AllDurable /\ \A p \in Procs, r \in UnitRefs : ~Starting(p, r)
  BY <1>1 DEF Lone, AllDurable, Starting
<1>3. ASSUME NEW r \in UnitRefs PROVE Counted(r)
  <2>1. MaxAttempts[StageOf(r)] \in Nat
    BY RefsOfStage, PlanAssumption
  <2> QED
    BY <1>1, <1>2, <2>1 DEF Counted
<1> QED
  BY <1>2, <1>3 DEF BudgetInv

\* Every step keeps the count.
LEMMA NextBudget ==
  ASSUME Exclusive, Sound, NothingYet, BudgetInv, [Next]_vars
  PROVE  BudgetInv'
<1>1. ASSUME NEW p \in Procs, Create(p) \/ CreateFails(p) \/ Replay(p) PROVE BudgetInv'
  BY <1>1, OpenBudget
<1>2. ASSUME NEW p \in Procs, Exit(p) \/ Crash(p) \/ Refuse(p) \/ FailEarly(p) \/ FailLate(p)
      PROVE  BudgetInv'
  BY <1>2, LeaveBudget DEF Exit, Crash, Refuse, FailEarly, FailLate, ledgerVars
<1>3. ASSUME NEW p \in Procs, Work(p) \/ Between(p) PROVE BudgetInv'
  BY <1>3, CallBudget
<1>4. ASSUME NEW p \in Procs, Flush(p) \/ Sync(p) \/ Apply(p) \/ Tear(p) PROVE BudgetInv'
  BY <1>4, FlushBudget, SyncBudget, ApplyBudget, TearBudget
<1>5. CASE PowerLoss
  BY <1>5, PowerLossBudget
<1>6. CASE UNCHANGED vars
  BY <1>6, QuietBudget DEF vars, machineVars, ledgerVars
<1> QED
  BY <1>1, <1>2, <1>3, <1>4, <1>5, <1>6 DEF Next

\* For every plan and every fault, and whether or not a machine whose call
\* raised is kept: start_unit sends off no more workers than maxAttempts,
\* through crashes, torn lines and power failures, as long as there is one
\* machine at a time and no error of fsync was swallowed.
THEOREM StartsAreBounded == Spec => []StartsWithinBudget
<1>1. CASE Exclusive
  <2>1. Init => BudgetInv
    BY InitBudget
  <2>2. Sound /\ NothingYet /\ BudgetInv /\ [Next]_vars => BudgetInv'
    BY <1>1, NextBudget
  <2>3. BudgetInv => StartsWithinBudget
    BY DEF BudgetInv, Counted, StartsWithinBudget
  <2> QED
    BY <2>1, <2>2, <2>3, SoundInductive, NothingYetAlways, PTL DEF Spec
<1>2. CASE ~Exclusive
  <2>1. StartsWithinBudget
    BY <1>2 DEF StartsWithinBudget
  <2> QED
    BY <2>1, PTL
<1> QED
  BY <1>1, <1>2

\* The types; an append under way is for an event of a live machine, and one
\* that returns has made its line durable.
THEOREM LoggedTypeCorrect == Spec => []TypeOK
<1>1. Init => interrupted \in BOOLEAN
  BY DEF Init, API!Init
<1>2. Sound /\ interrupted \in BOOLEAN /\ [Next]_vars => (interrupted \in BOOLEAN)'
  BY FlagStep
<1>3. CASE Exclusive
  <2>1. Init => BudgetInv
    BY InitBudget
  <2>2. Sound /\ NothingYet /\ BudgetInv /\ [Next]_vars => BudgetInv'
    BY <1>3, NextBudget
  <2>3. Sound /\ interrupted \in BOOLEAN /\ BudgetInv => TypeOK
    BY SoundTyped DEF BudgetInv
  <2> QED
    BY <1>1, <1>2, <2>1, <2>2, <2>3, SoundInductive, NothingYetAlways, PTL DEF Spec
<1>4. CASE ~Exclusive
  <2>1. Sound /\ interrupted \in BOOLEAN => TypeOK
    BY <1>4, SoundTyped
  <2> QED
    BY <1>1, <1>2, <2>1, SoundInductive, PTL DEF Spec
<1> QED
  BY <1>3, <1>4

(***************************************************************************)
(* What has been told survives.  A line after the last durable one may be  *)
(* lost, so a unit is completed in all of them as soon as it is confirmed. *)
(***************************************************************************)
Kept ==
  ~lossy => \A r \in confirmed : \A k \in DOMAIN file :
              k >= synced => file[k].state.unit[r].status = "completed"

\* A completed unit is completed in the line after.
LEMMA CompletedStays ==
  ASSUME FileOK, NEW e \in Events, NEW r \in UnitRefs,
         History.state.unit[r].status = "completed"
  PROVE  ReplayEvent(History, e).state.unit[r].status = "completed"
<1> DEFINE m == History.state
           n == ApplyEvent(m, e)
<1>1. KernelInv(m)
  BY HistorySound
<1>2. ASSUME ValidateEvent(m, e) PROVE n.unit[r].status = "completed"
  <2>1. m \in Machine /\ Step(m, n) /\ OutcomeOf(m) /\ Untouched(m)
    BY <1>1, <1>2, StepCases DEF KernelInv
  <2>2. m.unit[r].status \in Satisfied
    BY DEF Satisfied
  <2> HIDE DEF n
  <2>3. n.unit[r] = m.unit[r]
    BY <2>1, <2>2, SettledStays
  <2> QED
    BY <2>3
<1> QED
  BY <1>2 DEF ReplayEvent

\* One more line, of an append that succeeds or fails.
LEMMA LongerKept ==
  ASSUME Sound, Kept, file # <<>>, NEW e \in Events, file' = Appended(e),
         UNCHANGED <<synced, confirmed, lossy>>
  PROVE  Kept'
<1> SUFFICES ASSUME ~lossy, NEW r \in confirmed, NEW k \in DOMAIN file', k >= synced
             PROVE  file'[k].state.unit[r].status = "completed"
  BY DEF Kept
<1>1. /\ DOMAIN file' = 1..Len(file) + 1
      /\ DOMAIN file = 1..Len(file)
      /\ \A i \in DOMAIN file : file'[i] = file[i]
      /\ file'[Len(file) + 1] = ReplayEvent(History, e)
  BY AppendedSound DEF Sound
<1>2. r \in UnitRefs
  BY DEF Sound, CountsOK
<1>3. CASE k \in DOMAIN file
  BY <1>1, <1>3 DEF Kept
<1>4. CASE k \notin DOMAIN file
  <2>1. k = Len(file) + 1
    BY <1>1, <1>4 DEF Sound, FileOK
  <2>2. Len(file) \in DOMAIN file /\ History = file[Len(file)] /\ Len(file) >= synced
    BY HistorySound DEF Sound, FileOK
  <2>3. History.state.unit[r].status = "completed"
    BY <2>2 DEF Kept
  <2> QED
    BY <1>1, <1>2, <2>1, <2>3, CompletedStays DEF Sound
<1> QED
  BY <1>3, <1>4

\* Fewer lines may be lost.
LEMMA SyncKept ==
  ASSUME Sound, Kept, NEW p \in Procs, Sync(p)
  PROVE  Kept'
<1>1. /\ UNCHANGED <<file, confirmed>>
      /\ lossy' \/ (synced' = Len(file) /\ UNCHANGED lossy)
  BY DEF Sync, Durable
<1>2. synced \in Nat /\ synced <= Len(file) /\ Len(file) \in Nat /\ DOMAIN file = 1..Len(file)
  BY DEF Sound, FileOK
<1> QED
  BY <1>1, <1>2 DEF Kept

\* A completion is told when its line is durable and the last one, and what
\* the file replays to is the memory that has it.
LEMMA ApplyKept ==
  ASSUME IInv, Sound, BudgetInv, Kept, NEW p \in Procs, Apply(p)
  PROVE  Kept'
<1> DEFINE e == Head(todo[p])
<1>1. /\ step[p] = "synced" /\ UNCHANGED <<file, synced, lossy>>
      /\ confirmed' = IF e.type = "unit.completed" THEN confirmed \cup {e.unit} ELSE confirmed
  BY DEF Apply, ledgerVars
<1>2. p \in live /\ file # <<>> /\ e \in Events /\ mem[p] \in Machine
  BY <1>1, ApplyingSound DEF KernelInv
<1>3. History.state = ApplyEvent(mem[p], e)
  BY <1>1, <1>2 DEF IInv, Agreement, MemoryWith
<1> SUFFICES ASSUME ~lossy, NEW r \in confirmed', NEW k \in DOMAIN file, k >= synced
             PROVE  file[k].state.unit[r].status = "completed"
  BY <1>1 DEF Kept
<1>4. CASE r \in confirmed
  BY <1>4 DEF Kept
<1>5. CASE r \notin confirmed
  <2>1. e.type = "unit.completed" /\ r = e.unit
    BY <1>1, <1>5
  <2>2. r \in UnitRefs
    BY <1>2, <2>1, EventUnit
  <2>3. k = Len(file) /\ file[k] = History
    BY <1>1, <1>2, HistorySound DEF BudgetInv, AllDurable, Sound, FileOK
  <2>4. ApplyEvent(mem[p], e) = SetUnitStatus(mem[p], r, "completed")
    BY <2>1 DEF ApplyEvent
  <2>5. ApplyEvent(mem[p], e).unit[r].status = "completed"
    <3>1. mem[p].unit[r] \in UnitState
      BY <1>2, <2>2 DEF Machine
    <3> QED
      BY <1>2, <2>2, <2>4, <3>1 DEF SetUnitStatus, SetUnit, Machine, UnitState
  <2> QED
    BY <1>3, <2>3, <2>5
<1> QED
  BY <1>4, <1>5

\* What is left of the file is a part that had it before.
LEMMA PowerLossKept ==
  ASSUME Sound, Kept, PowerLoss
  PROVE  Kept'
<1>1. UNCHANGED <<synced, confirmed, lossy>>
  BY DEF PowerLoss
<1>2. PICK n \in synced..Len(file) : file' = SubSeq(file, 1, n)
  BY DEF PowerLoss
<1>3. \A i \in DOMAIN file' : i \in DOMAIN file /\ file'[i] = file[i]
  BY <1>2, PrefixSound DEF Sound
<1> QED
  BY <1>1, <1>3 DEF Kept

\* Every step keeps what has been told.
LEMMA NextKept ==
  ASSUME IInv, Sound, NothingYet, BudgetInv, Kept, [Next]_vars
  PROVE  Kept'
<1>1. ASSUME UNCHANGED <<file, synced, lossy, confirmed>> PROVE Kept'
  BY <1>1 DEF Kept
<1>2. ASSUME NEW p \in Procs, Create(p) \/ CreateFails(p) PROVE Kept'
  <2>1. /\ file = <<>> /\ synced \in 0..Len(file) /\ confirmed' = confirmed
        /\ ~lossy' => ~lossy
    BY <1>2 DEF Create, CreateFails, Sound, FileOK
  <2>2. ~lossy' => confirmed' = {}
    BY <2>1 DEF NothingYet
  <2> QED
    BY <2>2 DEF Kept
<1>3. ASSUME NEW p \in Procs, Replay(p) \/ Work(p) \/ Between(p) PROVE Kept'
  BY <1>1, <1>3 DEF Replay, Work, Between, ledgerVars
<1>4. ASSUME NEW p \in Procs, Exit(p) \/ Crash(p) \/ Refuse(p) \/ FailEarly(p) \/ FailLate(p)
      PROVE  Kept'
  BY <1>1, <1>4, RaiseProcs DEF Exit, Crash, Lose, Refuse, FailEarly, FailLate, ledgerVars, Sound
<1>5. ASSUME NEW p \in Procs, Flush(p) \/ Tear(p) PROVE Kept'
  <2>1. file # <<>> /\ Head(todo[p]) \in Events
    BY <1>5, AppendingSound DEF Flush, Tear
  <2>2. UNCHANGED <<synced, lossy, confirmed>>
    BY <1>5, RaiseProcs DEF Flush, Tear, Sound
  <2>3. file' = file \/ file' = Appended(Head(todo[p]))
    BY <1>5 DEF Flush, Tear
  <2> QED
    BY <1>1, <2>1, <2>2, <2>3, LongerKept
<1>6. ASSUME NEW p \in Procs, Sync(p) \/ Apply(p) PROVE Kept'
  BY <1>6, SyncKept, ApplyKept
<1>7. CASE PowerLoss
  BY <1>7, PowerLossKept
<1>8. CASE UNCHANGED vars
  BY <1>1, <1>8 DEF vars, ledgerVars
<1> QED
  BY <1>2, <1>3, <1>4, <1>5, <1>6, <1>7, <1>8 DEF Next

\* A unit that some process was told is completed is completed for whoever can
\* replay the file, after any crash, late error or power failure: with one
\* machine at a time that is dropped when its call raises, unless an error of
\* fsync was swallowed or the file no longer decodes.
THEOREM ConfirmedIsKept == Spec => []ConfirmedSurvives
<1>1. CASE Exclusive /\ Discards
  <2>1. Init => Kept
    BY DEF Init, Kept
  <2>2. IInv /\ Sound /\ NothingYet /\ BudgetInv /\ Kept /\ [Next]_vars => Kept'
    BY NextKept
  <2>3. Init => BudgetInv
    BY InitBudget
  <2>4. Sound /\ NothingYet /\ BudgetInv /\ [Next]_vars => BudgetInv'
    BY <1>1, NextBudget
  <2>5. Sound /\ NothingYet /\ Kept => ConfirmedSurvives
    <3> SUFFICES ASSUME Sound, NothingYet, Kept, ~lossy, NEW r \in confirmed
                 PROVE  History.state.unit[r].status = "completed"
      BY DEF ConfirmedSurvives, Replayed
    <3>1. file # <<>>
      BY DEF Sound, FileOK, NothingYet
    <3>2. Len(file) \in DOMAIN file /\ History = file[Len(file)] /\ Len(file) >= synced
      BY <3>1, HistorySound DEF Sound, FileOK
    <3> QED
      BY <3>2 DEF Kept
  <2>6. Spec => []IInv
    BY <1>1, LoggedInductive
  <2> QED
    BY <2>1, <2>2, <2>3, <2>4, <2>5, <2>6, SoundInductive, NothingYetAlways, PTL DEF Spec
<1>2. CASE ~(Exclusive /\ Discards)
  <2>1. ConfirmedSurvives
    BY <1>2 DEF ConfirmedSurvives
  <2> QED
    BY <2>1, PTL
<1> QED
  BY <1>1, <1>2

(***************************************************************************)
(* LoggedMachine implements ExecutionMachine: what its ledger is in one    *)
(* step is what the file replays to.                                       *)
(***************************************************************************)
SeenMem == [p \in Procs |-> MemoryWith(p)]
SeenTodo == [p \in Procs |-> TodoWithout(p)]

\* The kernel of both instances is the kernel.
LEMMA SameKernel ==
  /\ \A m, s : API!GroupUnits(m, s) = GroupUnits(m, s) /\ Seen!GroupUnits(m, s) = GroupUnits(m, s)
  /\ \A m, s : /\ API!DependenciesSatisfied(m, s) = DependenciesSatisfied(m, s)
               /\ Seen!DependenciesSatisfied(m, s) = DependenciesSatisfied(m, s)
  /\ \A m : /\ API!AllWorkSatisfied(m) = AllWorkSatisfied(m)
            /\ Seen!AllWorkSatisfied(m) = AllWorkSatisfied(m)
  /\ \A m, r : API!AttemptLeft(m, r) = AttemptLeft(m, r) /\ Seen!AttemptLeft(m, r) = AttemptLeft(m, r)
  /\ Seen!NewMachine = NewMachine
  /\ Seen!UnitRefs = UnitRefs
<1>1. \A m, s : API!GroupUnits(m, s) = GroupUnits(m, s) /\ Seen!GroupUnits(m, s) = GroupUnits(m, s)
  BY DEF API!GroupUnits, Seen!GroupUnits, GroupUnits, API!RefsOf, Seen!RefsOf, RefsOf
<1>2. \A m, s : /\ API!GroupSatisfied(m, s) = GroupSatisfied(m, s)
                /\ Seen!GroupSatisfied(m, s) = GroupSatisfied(m, s)
  BY <1>1 DEF API!GroupSatisfied, Seen!GroupSatisfied, GroupSatisfied,
    API!Satisfied, Seen!Satisfied, Satisfied
<1>3. \A m, s : /\ API!DependenciesSatisfied(m, s) = DependenciesSatisfied(m, s)
                /\ Seen!DependenciesSatisfied(m, s) = DependenciesSatisfied(m, s)
  BY <1>2 DEF API!DependenciesSatisfied, Seen!DependenciesSatisfied, DependenciesSatisfied
<1>4. \A m : /\ API!AllWorkSatisfied(m) = AllWorkSatisfied(m)
             /\ Seen!AllWorkSatisfied(m) = AllWorkSatisfied(m)
  BY <1>1, <1>2 DEF API!AllWorkSatisfied, Seen!AllWorkSatisfied, AllWorkSatisfied
<1>5. \A m, r : API!AttemptLeft(m, r) = AttemptLeft(m, r) /\ Seen!AttemptLeft(m, r) = AttemptLeft(m, r)
  BY DEF API!AttemptLeft, Seen!AttemptLeft, AttemptLeft, API!StageOf, Seen!StageOf, StageOf
<1>6. Seen!UnitRefs = UnitRefs
  BY DEF Seen!UnitRefs, UnitRefs
<1>7. Seen!NewMachine = NewMachine
  BY <1>6 DEF Seen!NewMachine, NewMachine, Seen!FreshUnit, FreshUnit
<1> QED
  BY <1>1, <1>3, <1>4, <1>5, <1>6, <1>7

\* _validate_event, as both see it.
LEMMA SameValidate == \A m, e : Seen!ValidateEvent(m, e) = ValidateEvent(m, e)
BY DEF Seen!ValidateEvent, ValidateEvent, Seen!ValidateExecutionEvent, ValidateExecutionEvent,
  Seen!ValidateStageEvent, ValidateStageEvent, Seen!ValidateDispatchEvent, ValidateDispatchEvent,
  Seen!ValidateResultEvent, ValidateResultEvent, Seen!MaySeal, MaySeal,
  Seen!MayRegister, MayRegister, Seen!GroupUnits, GroupUnits, Seen!GroupSatisfied, GroupSatisfied,
  Seen!DependenciesSatisfied, DependenciesSatisfied, Seen!AllWorkSatisfied, AllWorkSatisfied,
  Seen!AttemptLeft, AttemptLeft, Seen!GatesAccepted, GatesAccepted, Seen!StageOf, StageOf,
  Seen!RefsOf, RefsOf, Seen!Satisfied, Satisfied

\* _apply_event, as both see it.
LEMMA SameApply == \A m, e : Seen!ApplyEvent(m, e) = ApplyEvent(m, e)
BY DEF Seen!ApplyEvent, ApplyEvent, Seen!ApplyCancel, ApplyCancel, Seen!SetUnit, SetUnit,
  Seen!SetUnitStatus, SetUnitStatus, Seen!ResetUnit, ResetUnit, Seen!FreshUnit, FreshUnit,
  Seen!ApplyEvidence, ApplyEvidence, Seen!Finished, Finished, Seen!UnitRefs, UnitRefs

\* A step of p on its memory, its tasks and its append.
Moves(p, m, t, s) ==
  /\ mem' = [mem EXCEPT ![p] = m]
  /\ todo' = [todo EXCEPT ![p] = t]
  /\ step' = [step EXCEPT ![p] = s]

\* It is seen with the event under way taken as applied.
LEMMA SeenChange ==
  ASSUME Sound, NEW p \in Procs, NEW m, NEW t, NEW s, Moves(p, m, t, s)
  PROVE  /\ s = "none" => /\ SeenMem' = [SeenMem EXCEPT ![p] = m]
                          /\ SeenTodo' = [SeenTodo EXCEPT ![p] = t]
         /\ s # "none" => /\ SeenMem' = [SeenMem EXCEPT ![p] = ApplyEvent(m, Head(t))]
                          /\ SeenTodo' = [SeenTodo EXCEPT ![p] = Tail(t)]
<1>1. /\ mem'[p] = m /\ todo'[p] = t /\ step'[p] = s
      /\ \A q \in Procs : q # p =>
           mem'[q] = mem[q] /\ todo'[q] = todo[q] /\ step'[q] = step[q]
  BY DEF Moves, Sound, ProcsOK
<1>2. /\ s = "none" => MemoryWith(p)' = m /\ TodoWithout(p)' = t
      /\ s # "none" => MemoryWith(p)' = ApplyEvent(m, Head(t)) /\ TodoWithout(p)' = Tail(t)
  BY <1>1 DEF MemoryWith, TodoWithout
<1>3. \A q \in Procs : q # p =>
        MemoryWith(q)' = MemoryWith(q) /\ TodoWithout(q)' = TodoWithout(q)
  BY <1>1 DEF MemoryWith, TodoWithout
<1> QED
  BY <1>2, <1>3 DEF SeenMem, SeenTodo

\* A process that is not in an append is seen as it is.
LEMMA SeenAsIs ==
  ASSUME NEW p \in Procs, step[p] = "none"
  PROVE  SeenMem[p] = mem[p] /\ SeenTodo[p] = todo[p]
BY DEF SeenMem, SeenTodo, MemoryWith, TodoWithout

\* Nothing is seen of a step that changes neither.
LEMMA SeenSame ==
  ASSUME \A q \in Procs : MemoryWith(q)' = MemoryWith(q) /\ TodoWithout(q)' = TodoWithout(q),
         UNCHANGED <<live, file, interrupted>>
  PROVE  UNCHANGED Seen!vars
<1>1. SeenMem' = SeenMem /\ SeenTodo' = SeenTodo
  BY DEF SeenMem, SeenTodo
<1>2. History' = History
  BY DEF History
<1> QED
  BY <1>1, <1>2 DEF Seen!vars, SeenMem, SeenTodo

\* It starts as ExecutionMachine does.
LEMMA InitSeen == Init => Seen!Init
<1> SUFFICES ASSUME Init PROVE Seen!Init
  OBVIOUS
<1>1. /\ live = {} /\ interrupted = FALSE /\ file = <<>>
      /\ mem = [p \in Procs |-> API!NewMachine]
      /\ todo = [p \in Procs |-> <<>>] /\ step = [p \in Procs |-> "none"]
  BY DEF Init, API!Init
<1>2. API!NewMachine = NewMachine
  BY SameEvents DEF API!NewMachine, NewMachine, API!FreshUnit, FreshUnit
<1>3. \A p \in Procs : MemoryWith(p) = NewMachine /\ TodoWithout(p) = <<>>
  BY <1>1, <1>2 DEF MemoryWith, TodoWithout
<1>4. History.state = NewMachine /\ History.ok = TRUE
  BY <1>1 DEF History
<1> QED
  BY <1>1, <1>3, <1>4, SameKernel DEF Seen!Init

(***************************************************************************)
(* A machine is opened.                                                    *)
(***************************************************************************)
\* create and replay; a created execution is one whose file has a line.
LEMMA OpenSeen ==
  ASSUME Sound, NEW p \in Procs, Create(p) \/ Replay(p)
  PROVE  Seen!Create(p) \/ Seen!Replay(p)
<1>1. /\ p \notin live /\ (Exclusive => live = {}) /\ live' = live \cup {p}
      /\ UNCHANGED <<todo, step, interrupted>>
  BY DEF Create, Replay, API!MayOpen, ledgerVars
<1>2. step[p] = "none"
  BY <1>1 DEF Sound, ProcsOK, Called
<1>3. ASSUME NEW m, mem' = [mem EXCEPT ![p] = m] PROVE Moves(p, m, todo[p], "none")
  BY <1>1, <1>2, <1>3 DEF Moves, Sound, ProcsOK
<1>4. SeenTodo' = SeenTodo
  BY <1>1 DEF SeenTodo, TodoWithout
<1>5. CASE Create(p)
  <2> DEFINE m == ApplyEvent(NewMachine, Created)
  <2>1. file = <<>> /\ mem' = [mem EXCEPT ![p] = m] /\ file' = <<ReplayEvent(History, Created)>>
    BY <1>5 DEF Create
  <2>2. History.state = NewMachine /\ History.ok = TRUE
    BY <2>1 DEF History
  <2>3. ValidateEvent(NewMachine, Created) /\ ~NewMachine.created
    BY DEF ValidateEvent, Created, NewMachine
  <2>4. History' = [ok |-> TRUE, state |-> m]
    BY <2>1, <2>2, <2>3 DEF History, ReplayEvent
  <2> HIDE DEF m
  <2>5. SeenMem' = [SeenMem EXCEPT ![p] = m]
    BY <1>3, <2>1, SeenChange
  <2>6. Seen!ApplyEvent(Seen!NewMachine, Created) = m
    BY SameKernel, SameApply DEF m
  <2>7. Seen!ApplyEvent(History.state, Created) = m
    BY <2>2, SameApply DEF m
  <2>8. Seen!Create(p)
    BY <1>1, <1>4, <2>2, <2>3, <2>4, <2>5, <2>6, <2>7
    DEF Seen!Create, Seen!MayOpen, Seen!Open, SeenMem, SeenTodo, Created
  <2> QED
    BY <2>8
<1>6. CASE Replay(p)
  <2>1. file # <<>> /\ History.ok /\ UNCHANGED file /\ mem' = [mem EXCEPT ![p] = History.state]
    BY <1>6 DEF Replay, Replayed, ledgerVars
  <2>2. History.state.created /\ History' = History
    BY <2>1, HistorySound DEF Sound, History
  <2>3. SeenMem' = [SeenMem EXCEPT ![p] = History.state]
    BY <1>3, <2>1, SeenChange
  <2>4. Seen!Replay(p)
    BY <1>1, <1>4, <2>1, <2>2, <2>3
    DEF Seen!Replay, Seen!MayOpen, Seen!Open, SeenMem, SeenTodo
  <2> QED
    BY <2>4
<1> QED
  BY <1>5, <1>6

(***************************************************************************)
(* A machine is lost, or its call is given up.                             *)
(***************************************************************************)
\* A process that loses its machine is seen to lose it.
LEMMA LoseSeen ==
  ASSUME Sound, NEW p \in Procs, Lose(p), UNCHANGED file
  PROVE  Seen!Close(p)
<1>1. /\ live' = live \ {p} /\ mem' = [mem EXCEPT ![p] = NewMachine]
      /\ todo' = [todo EXCEPT ![p] = <<>>] /\ step' = [step EXCEPT ![p] = "none"]
  BY DEF Lose
<1>a. Moves(p, NewMachine, <<>>, "none")
  BY <1>1 DEF Moves
<1>2. SeenMem' = [SeenMem EXCEPT ![p] = NewMachine] /\ SeenTodo' = [SeenTodo EXCEPT ![p] = <<>>]
  BY <1>a, SeenChange
<1>3. History' = History
  BY DEF History
<1> QED
  BY <1>1, <1>2, <1>3, SameKernel DEF Seen!Close, SeenMem, SeenTodo

\* What is left of a call but its next event.
LEMMA TailLeft ==
  ASSUME NEW S, NEW s \in Seq(S), s # <<>>
  PROVE  Tail(s) # <<>> <=> Len(s) > 1
<1>1. Tail(s) \in Seq(S) /\ Len(Tail(s)) = Len(s) - 1
  BY HeadTailProperties
<1>2. Tail(s) = <<>> <=> Len(Tail(s)) = 0
  BY <1>1, EmptySeq
<1> DEFINE n == Len(s)
           k == Len(Tail(s))
<1>3. n \in Nat /\ k = n - 1 /\ k \in Nat
  BY <1>1
<1> HIDE DEF n, k
<1>4. k # 0 <=> n > 1
  BY <1>3
<1> QED
  BY <1>2, <1>4 DEF n, k

\* With the event under way taken as applied, a process that dies at the end
\* of its call has none.
LEMMA CrashSeen ==
  ASSUME Sound, interrupted \in BOOLEAN, NEW p \in Procs, Crash(p)
  PROVE  Seen!Crash(p) \/ Seen!Exit(p)
<1>1. /\ todo[p] # <<>> /\ Lose(p) /\ UNCHANGED file
      /\ interrupted' = (interrupted \/ step[p] = "none" \/ Len(todo[p]) > 1)
  BY DEF Crash, ledgerVars
<1>2. Seen!Close(p)
  BY <1>1, LoseSeen
<1>3. todo[p] \in Seq(API!Tasks) /\ p \in live
  BY <1>1 DEF Sound, ProcsOK, Called
<1>4. CASE step[p] = "none"
  <2>1. SeenTodo[p] # <<>> /\ interrupted' = TRUE
    BY <1>1, <1>4, SeenAsIs
  <2> QED
    BY <1>2, <2>1 DEF Seen!Crash, SeenTodo
<1>5. CASE step[p] # "none" /\ Len(todo[p]) > 1
  <2>1. Tail(todo[p]) # <<>>
    BY <1>1, <1>3, <1>5, TailLeft
  <2>2. SeenTodo[p] # <<>> /\ interrupted' = TRUE
    BY <1>1, <1>5, <2>1 DEF SeenTodo, TodoWithout
  <2> QED
    BY <1>2, <2>2 DEF Seen!Crash, SeenTodo
<1>6. CASE step[p] # "none" /\ ~(Len(todo[p]) > 1)
  <2>1. Tail(todo[p]) = <<>>
    BY <1>1, <1>3, <1>6, TailLeft
  <2>2. SeenTodo[p] = <<>>
    BY <1>6, <2>1 DEF SeenTodo, TodoWithout
  <2>3. interrupted' = interrupted
    BY <1>1, <1>6
  <2> QED
    BY <1>2, <1>3, <2>2, <2>3 DEF Seen!Exit, SeenTodo
<1> QED
  BY <1>4, <1>5, <1>6

\* A process that leaves is not in an append.
LEMMA ExitSeen ==
  ASSUME Sound, NEW p \in Procs, Exit(p)
  PROVE  Seen!Exit(p)
<1>1. /\ p \in live /\ todo[p] = <<>> /\ Lose(p) /\ UNCHANGED <<file, interrupted>>
  BY DEF Exit, ledgerVars
<1>2. step[p] = "none"
  BY <1>1 DEF Sound, ProcsOK, Called, API!Emitting
<1>3. SeenTodo[p] = <<>>
  BY <1>1, <1>2, SeenAsIs
<1> QED
  BY <1>1, <1>3, LoseSeen DEF Seen!Exit, SeenTodo

\* An exception that leaves the file alone: TransitionError, or an append
\* that fails.  If the machine is dropped at once it is seen as a crash.
LEMMA RaiseSeen ==
  ASSUME Sound, NEW p \in Procs, API!Emitting(p), step[p] = "none", Raise(p), UNCHANGED file
  PROVE  Seen!Refuse(p) \/ Seen!AppendFails(p) \/ Seen!Crash(p)
<1>1. SeenMem[p] = mem[p] /\ SeenTodo[p] = todo[p] /\ History' = History
  BY SeenAsIs DEF History
<1>2. todo[p] # <<>> /\ Seen!Emitting(p)
  BY <1>1 DEF API!Emitting, Seen!Emitting, API!IsEvent, Seen!IsEvent, SeenTodo
<1>3. CASE Discards
  <2>1. Seen!Close(p) /\ interrupted' = TRUE
    BY <1>3, LoseSeen DEF Raise
  <2> QED
    BY <1>1, <1>2, <2>1 DEF Seen!Crash, SeenTodo
<1>4. CASE ~Discards
  <2>1. /\ interrupted' = TRUE /\ UNCHANGED <<live, mem>>
        /\ todo' = [todo EXCEPT ![p] = <<>>] /\ step' = [step EXCEPT ![p] = "none"]
    BY <1>4 DEF Raise
  <2>2. Moves(p, mem[p], <<>>, "none")
    BY <2>1 DEF Moves, Sound, ProcsOK
  <2>3. /\ SeenMem' = [SeenMem EXCEPT ![p] = mem[p]]
        /\ SeenTodo' = [SeenTodo EXCEPT ![p] = <<>>]
    BY <2>2, SeenChange
  <2>4. SeenMem' = SeenMem
    BY <1>1, <2>3 DEF SeenMem
  <2>5. Seen!Abandon(p)
    BY <1>1, <2>1, <2>3, <2>4 DEF Seen!Abandon, SeenMem, SeenTodo
  <2>6. CASE Seen!ValidateEvent(SeenMem[p], Head(SeenTodo[p]))
    BY <1>2, <2>5, <2>6 DEF Seen!AppendFails, SeenMem, SeenTodo
  <2>7. CASE ~Seen!ValidateEvent(SeenMem[p], Head(SeenTodo[p]))
    BY <1>2, <2>5, <2>7 DEF Seen!Refuse, SeenMem, SeenTodo
  <2> QED
    BY <2>6, <2>7
<1> QED
  BY <1>3, <1>4

(***************************************************************************)
(* An append.                                                              *)
(***************************************************************************)
\* The write of the line is seen as the whole of _emit.
LEMMA FlushSeen ==
  ASSUME Sound, NEW p \in Procs, Flush(p)
  PROVE  Seen!Emit(p)
<1> DEFINE e == Head(todo[p])
           line == ReplayEvent(History, e)
<1>1. /\ file # <<>> /\ API!Emitting(p) /\ step[p] = "none" /\ e \in Events
      /\ ValidateEvent(mem[p], e)
  BY AppendingSound DEF Flush
<1>2. /\ file' = Appended(e) /\ step' = [step EXCEPT ![p] = "flushed"]
      /\ UNCHANGED <<live, mem, todo, interrupted>>
  BY DEF Flush, machineVars
<1>3. History' = line
  <2>1. file' # <<>> /\ Len(file') = Len(file) + 1 /\ file'[Len(file) + 1] = line
    BY <1>1, <1>2, AppendedSound DEF Sound
  <2> QED
    BY <2>1 DEF History
<1>4. SeenMem[p] = mem[p] /\ SeenTodo[p] = todo[p]
  BY <1>1, SeenAsIs
<1>5. Seen!Emitting(p)
  BY <1>1, <1>4 DEF API!Emitting, Seen!Emitting, API!IsEvent, Seen!IsEvent, SeenTodo
<1>6. Moves(p, mem[p], todo[p], "flushed")
  BY <1>2 DEF Moves, Sound, ProcsOK
<1>7. /\ SeenMem' = [SeenMem EXCEPT ![p] = ApplyEvent(mem[p], e)]
      /\ SeenTodo' = [SeenTodo EXCEPT ![p] = Tail(todo[p])]
  BY <1>6, SeenChange
<1>8. History.ok \in BOOLEAN
  BY HistorySound DEF Sound, Line
<1>9. Seen!AppendToLedger(e)
  <2>1. CASE History.ok /\ ValidateEvent(History.state, e)
    <3>1. line.state = ApplyEvent(History.state, e) /\ line.ok = History.ok
      BY <1>8, <2>1 DEF ReplayEvent
    <3> HIDE DEF line
    <3> QED
      BY <1>3, <2>1, <3>1, SameValidate, SameApply DEF Seen!AppendToLedger
  <2>2. CASE ~(History.ok /\ ValidateEvent(History.state, e))
    <3>1. line.state = History.state /\ line.ok = FALSE
      BY <2>2 DEF ReplayEvent
    <3> HIDE DEF line
    <3> QED
      BY <1>3, <2>2, <3>1, SameValidate DEF Seen!AppendToLedger
  <2> QED
    BY <2>1, <2>2
<1>10. Seen!ValidateEvent(SeenMem[p], e) /\ Seen!ApplyEvent(SeenMem[p], e) = ApplyEvent(mem[p], e)
  BY <1>1, <1>4, SameValidate, SameApply
<1> QED
  BY <1>2, <1>4, <1>5, <1>7, <1>9, <1>10 DEF Seen!Emit, SeenMem, SeenTodo

\* fsync is not seen, and applying the event was.
LEMMA SyncSeen ==
  ASSUME Sound, NEW p \in Procs, Sync(p)
  PROVE  UNCHANGED Seen!vars
<1>1. /\ step[p] = "flushed" /\ step' = [step EXCEPT ![p] = "synced"]
      /\ UNCHANGED <<live, mem, todo, file, interrupted>>
  BY DEF Sync, machineVars
<1>2. \A q \in Procs : step'[q] = "none" <=> step[q] = "none"
  BY <1>1 DEF Sound, ProcsOK
<1> QED
  BY <1>1, <1>2, SeenSame DEF MemoryWith, TodoWithout

\* The event was seen as applied when its line was written.
LEMMA ApplySeen ==
  ASSUME Sound, NEW p \in Procs, Apply(p)
  PROVE  UNCHANGED Seen!vars
<1> DEFINE m == ApplyEvent(mem[p], Head(todo[p]))
<1>1. /\ step[p] = "synced" /\ step' = [step EXCEPT ![p] = "none"]
      /\ mem' = [mem EXCEPT ![p] = m] /\ todo' = [todo EXCEPT ![p] = Tail(todo[p])]
      /\ UNCHANGED <<live, file, interrupted>>
  BY DEF Apply, ledgerVars
<1>2. MemoryWith(p) = m /\ TodoWithout(p) = Tail(todo[p])
  BY <1>1 DEF MemoryWith, TodoWithout
<1> HIDE DEF m
<1>3. /\ mem'[p] = m /\ todo'[p] = Tail(todo[p]) /\ step'[p] = "none"
      /\ \A q \in Procs : q # p =>
           mem'[q] = mem[q] /\ todo'[q] = todo[q] /\ step'[q] = step[q]
  BY <1>1 DEF Sound, ProcsOK
<1>4. \A q \in Procs : MemoryWith(q)' = MemoryWith(q) /\ TodoWithout(q)' = TodoWithout(q)
  BY <1>2, <1>3 DEF MemoryWith, TodoWithout
<1> QED
  BY <1>1, <1>4, SeenSame

(***************************************************************************)
(* The calls.                                                              *)
(***************************************************************************)
\* A process that is not in an append changes what its call has left.
LEMMA RetaskSeen ==
  ASSUME Sound, NEW p \in Procs, step[p] = "none", NEW tasks,
         todo' = [todo EXCEPT ![p] = tasks], UNCHANGED <<live, mem, step, file, interrupted>>
  PROVE  /\ SeenTodo' = [SeenTodo EXCEPT ![p] = tasks]
         /\ UNCHANGED <<SeenMem, History>>
<1>1. Moves(p, mem[p], tasks, "none")
  BY DEF Moves, Sound, ProcsOK
<1>2. SeenTodo' = [SeenTodo EXCEPT ![p] = tasks]
  BY <1>1, SeenChange
<1>3. SeenMem' = SeenMem
  BY DEF SeenMem, MemoryWith, Sound, ProcsOK, Called, API!Emitting
<1> QED
  BY <1>2, <1>3 DEF History

\* A method is called with the same tasks, on the same memory.
LEMMA CallSeen ==
  ASSUME Sound, NEW p \in Procs, NEW tasks, API!Call(p, tasks), UNCHANGED <<step, file>>
  PROVE  Seen!Call(p, tasks)
<1>1. /\ p \in live /\ todo[p] = <<>> /\ todo' = [todo EXCEPT ![p] = tasks]
      /\ UNCHANGED <<live, mem, interrupted>>
  BY DEF API!Call, API!Ready
<1>2. step[p] = "none"
  BY <1>1 DEF Sound, ProcsOK, Called, API!Emitting
<1>3. SeenTodo[p] = <<>>
  BY <1>1, <1>2, SeenAsIs
<1>4. SeenTodo' = [SeenTodo EXCEPT ![p] = tasks] /\ UNCHANGED <<SeenMem, History>>
  BY <1>1, <1>2, RetaskSeen
<1> QED
  BY <1>1, <1>3, <1>4 DEF Seen!Call, Seen!Ready, SeenMem, SeenTodo

\* A process that makes a call is not in an append.
LEMMA CallAsIs ==
  ASSUME Sound, NEW p \in Procs, Queues(p)
  PROVE  SeenMem[p] = mem[p]
BY SeenAsIs DEF Sound, ProcsOK, Called, Queues, API!Call, API!Ready, API!Emitting

\* What the calls are put together from.
LEMMA SameTasks ==
  /\ API!Materialize = Seen!Materialize
  /\ API!UnlockOrFinish = Seen!UnlockOrFinish
  /\ \A r, b : API!DispatchTask(r, b) = Seen!DispatchTask(r, b)
  /\ \A r : API!CompleteUnit(r) = Seen!CompleteUnit(r)
  /\ \A r : API!FailForGood(r) = Seen!FailForGood(r)
  /\ \A r : API!StageOf(r) = Seen!StageOf(r)
BY DEF API!Materialize, Seen!Materialize, API!UnlockOrFinish, Seen!UnlockOrFinish,
  API!DispatchTask, Seen!DispatchTask, API!CompleteUnit, Seen!CompleteUnit,
  API!FailForGood, Seen!FailForGood, API!StageOf, Seen!StageOf

\* The guards of the calls, on the same memory.
LEMMA SameGuards ==
  ASSUME NEW p \in Procs, SeenMem[p] = mem[p]
  PROVE  /\ \A r, statuses : API!InStatus(p, r, statuses) => Seen!InStatus(p, r, statuses)
         /\ \A s : API!CanExpand(p, s) => Seen!CanExpand(p, s)
<1>1. API!Running(p) => Seen!Running(p)
  BY DEF API!Running, Seen!Running, SeenMem
<1>2. ASSUME NEW r, NEW statuses, API!InStatus(p, r, statuses)
      PROVE  Seen!InStatus(p, r, statuses)
  BY <1>1, <1>2 DEF API!InStatus, Seen!InStatus, SeenMem
<1>3. ASSUME NEW s, API!CanExpand(p, s) PROVE Seen!CanExpand(p, s)
  <2>1. Seen!DependenciesSatisfied(SeenMem[p], s) /\ s \notin SeenMem[p].sealed
    BY <1>3, SameKernel DEF API!CanExpand
  <2> QED
    BY <1>1, <1>3, <2>1 DEF API!CanExpand, Seen!CanExpand, SeenMem
<1> QED
  BY <1>2, <1>3

\* The methods for a unit.
LEMMA UnitCallsSeen ==
  ASSUME Sound, NEW p \in Procs, NEW r \in UnitRefs, UNCHANGED <<step, file>>
  PROVE  /\ API!RegisterUnit(p, r) => Seen!RegisterUnit(p, r)
         /\ API!Approve(p, r) => Seen!Approve(p, r)
         /\ \A reason : API!Deny(p, r, reason) => Seen!Deny(p, r, reason)
         /\ API!StartUnit(p, r) => Seen!StartUnit(p, r)
         /\ API!ClaimUnit(p, r) => Seen!ClaimUnit(p, r)
         /\ \A c \in Evidence, a, b \in BOOLEAN :
              API!RecordEvidence(p, r, c, a, b) => Seen!RecordEvidence(p, r, c, a, b)
         /\ API!SkipUnit(p, r) => Seen!SkipUnit(p, r)
         /\ \A retry \in BOOLEAN : API!FailUnit(p, r, retry) => Seen!FailUnit(p, r, retry)
<1>0. \A tasks : API!Call(p, tasks) => Seen!Call(p, tasks)
  BY CallSeen
<1>1. ASSUME API!RegisterUnit(p, r) PROVE Seen!RegisterUnit(p, r)
  <2>1. SeenMem[p] = mem[p]
    BY <1>1, UnitCallsQueue, CallAsIs
  <2> QED
    BY <1>0, <1>1, <2>1, SameTasks, SameGuards DEF API!RegisterUnit, Seen!RegisterUnit, SeenMem
<1>2. ASSUME API!Approve(p, r) PROVE Seen!Approve(p, r)
  <2>1. SeenMem[p] = mem[p]
    BY <1>2, UnitCallsQueue, CallAsIs
  <2> QED
    BY <1>0, <1>2, <2>1, SameGuards DEF API!Approve, Seen!Approve
<1>3. ASSUME NEW reason, API!Deny(p, r, reason) PROVE Seen!Deny(p, r, reason)
  <2>1. SeenMem[p] = mem[p]
    BY <1>3, UnitCallsQueue, CallAsIs
  <2> QED
    BY <1>0, <1>3, <2>1, SameGuards DEF API!Deny, Seen!Deny
<1>4. ASSUME API!StartUnit(p, r) PROVE Seen!StartUnit(p, r)
  <2>1. SeenMem[p] = mem[p]
    BY <1>4, UnitCallsQueue, CallAsIs
  <2>2. Seen!AttemptLeft(SeenMem[p], r)
    BY <1>4, <2>1, SameKernel DEF API!StartUnit
  <2> QED
    BY <1>0, <1>4, <2>1, <2>2, SameGuards DEF API!StartUnit, Seen!StartUnit, SeenMem
<1>5. ASSUME API!ClaimUnit(p, r) PROVE Seen!ClaimUnit(p, r)
  <2>1. SeenMem[p] = mem[p]
    BY <1>5, UnitCallsQueue, CallAsIs
  <2> QED
    BY <1>0, <1>5, <2>1, SameTasks, SameGuards DEF API!ClaimUnit, Seen!ClaimUnit
<1>6. ASSUME NEW c \in Evidence, NEW a \in BOOLEAN, NEW b \in BOOLEAN,
             API!RecordEvidence(p, r, c, a, b)
      PROVE  Seen!RecordEvidence(p, r, c, a, b)
  <2>1. SeenMem[p] = mem[p]
    BY <1>6, UnitCallsQueue, CallAsIs
  <2> QED
    BY <1>0, <1>6, <2>1, SameTasks, SameGuards
    DEF API!RecordEvidence, Seen!RecordEvidence, SeenMem
<1>7. ASSUME API!SkipUnit(p, r) PROVE Seen!SkipUnit(p, r)
  <2>1. SeenMem[p] = mem[p]
    BY <1>7, UnitCallsQueue, CallAsIs
  <2> QED
    BY <1>0, <1>7, <2>1, SameTasks, SameGuards DEF API!SkipUnit, Seen!SkipUnit
<1>8. ASSUME NEW retry \in BOOLEAN, API!FailUnit(p, r, retry) PROVE Seen!FailUnit(p, r, retry)
  <2>1. SeenMem[p] = mem[p]
    BY <1>8, UnitCallsQueue, CallAsIs
  <2>2. API!AttemptLeft(mem[p], r) = Seen!AttemptLeft(SeenMem[p], r)
    BY <2>1, SameKernel
  <2> QED
    BY <1>0, <1>8, <2>1, <2>2, SameTasks, SameGuards DEF API!FailUnit, Seen!FailUnit, SeenMem
<1> QED
  BY <1>1, <1>2, <1>3, <1>4, <1>5, <1>6, <1>7, <1>8

\* Every method.
LEMMA WorkSeen ==
  ASSUME Sound, NEW p \in Procs, Work(p)
  PROVE  Seen!Work(p) \/ Seen!Cancel(p)
<1>1. UNCHANGED <<step, file>> /\ (API!Work(p) \/ API!Cancel(p))
  BY DEF Work, ledgerVars
<1>2. SeenMem[p] = mem[p]
  BY <1>1, CallsQueue, CallAsIs
<1>3. \A tasks : API!Call(p, tasks) => Seen!Call(p, tasks)
  BY <1>1, CallSeen
<1>4. ASSUME API!Start(p) PROVE Seen!Start(p)
  BY <1>2, <1>3, <1>4, SameTasks DEF API!Start, Seen!Start, SeenMem
<1>5. ASSUME NEW s \in Stages, API!SealStage(p, s) PROVE Seen!SealStage(p, s)
  <2>1. Seen!GroupUnits(SeenMem[p], s) # {}
    BY <1>2, <1>5, SameKernel DEF API!SealStage
  <2> QED
    BY <1>2, <1>3, <1>5, <2>1, SameTasks, SameGuards DEF API!SealStage, Seen!SealStage, SeenMem
<1>6. ASSUME API!Cancel(p) PROVE Seen!Cancel(p)
  BY <1>2, <1>3, <1>6 DEF API!Cancel, Seen!Cancel, SeenMem
<1>7. API!Work(p) => Seen!Work(p)
  BY <1>1, <1>4, <1>5, SameEvents, SameKernel, UnitCallsSeen DEF API!Work, Seen!Work
<1> QED
  BY <1>1, <1>6, <1>7

\* The scans of a call that is not in an append.
LEMMA BetweenSeen ==
  ASSUME Sound, NEW p \in Procs, Between(p)
  PROVE  \/ \E s \in Stages : Seen!MaterializeStage(p, s)
         \/ Seen!MaterializedAll(p)
         \/ Seen!FinishCall(p)
<1>1. step[p] = "none" /\ UNCHANGED <<step, file>>
  BY DEF Between, ledgerVars
<1>2. SeenMem[p] = mem[p] /\ SeenTodo[p] = todo[p]
  BY <1>1, SeenAsIs
<1>3. \A tasks : todo' = [todo EXCEPT ![p] = tasks] /\ UNCHANGED <<live, mem, interrupted>> =>
                   /\ SeenTodo' = [SeenTodo EXCEPT ![p] = tasks]
                   /\ UNCHANGED <<SeenMem, History>>
  BY <1>1, RetaskSeen
<1>4. \A type : API!Active(p, type) => Seen!Active(p, type)
  BY <1>2 DEF API!Active, Seen!Active, SeenTodo
<1>5. \A s : Seen!Materializable(SeenMem[p], s) = API!Materializable(mem[p], s)
  BY <1>2, SameKernel DEF API!Materializable, Seen!Materializable
<1>6. ASSUME NEW s \in Stages, API!MaterializeStage(p, s) PROVE Seen!MaterializeStage(p, s)
  <2> DEFINE r == <<s, DefaultKey>>
             tasks == <<[type |-> "unit.registered", unit |-> r], API!DispatchTask(r, FALSE),
                        [type |-> "stage.sealed", stage |-> s]>> \o todo[p]
  <2>1. /\ API!Active(p, "materialize") /\ API!Materializable(mem[p], s)
        /\ \A t \in Stages : API!Materializable(mem[p], t) => PlanIndex[s] <= PlanIndex[t]
        /\ todo' = [todo EXCEPT ![p] = tasks]
        /\ UNCHANGED <<live, mem, interrupted>>
    BY <1>6 DEF API!MaterializeStage
  <2>2. tasks = <<[type |-> "unit.registered", unit |-> r], Seen!DispatchTask(r, FALSE),
                  [type |-> "stage.sealed", stage |-> s]>> \o SeenTodo[p]
    BY <1>2, SameTasks
  <2> HIDE DEF tasks
  <2>3. SeenTodo' = [SeenTodo EXCEPT ![p] = tasks] /\ UNCHANGED <<SeenMem, History>>
    BY <1>3, <2>1
  <2>4. \A t \in Stages :
          Seen!Materializable(SeenMem[p], t) => PlanIndex[s] <= PlanIndex[t]
    BY <1>5, <2>1
  <2>5. Seen!Active(p, "materialize") /\ Seen!Materializable(SeenMem[p], s)
    BY <1>4, <1>5, <2>1
  <2> QED
    BY <2>1, <2>2, <2>3, <2>4, <2>5 DEF Seen!MaterializeStage, SeenMem, SeenTodo
<1>7. ASSUME API!MaterializedAll(p) PROVE Seen!MaterializedAll(p)
  <2> DEFINE tasks == Tail(todo[p])
  <2>1. /\ API!Active(p, "materialize")
        /\ \A s \in Stages : ~API!Materializable(mem[p], s)
        /\ todo' = [todo EXCEPT ![p] = tasks]
        /\ UNCHANGED <<live, mem, interrupted>>
    BY <1>7 DEF API!MaterializedAll
  <2>2. tasks = Tail(SeenTodo[p])
    BY <1>2
  <2> HIDE DEF tasks
  <2>3. SeenTodo' = [SeenTodo EXCEPT ![p] = tasks] /\ UNCHANGED <<SeenMem, History>>
    BY <1>3, <2>1
  <2>4. \A s \in Stages : ~Seen!Materializable(SeenMem[p], s)
    BY <1>5, <2>1
  <2> QED
    BY <1>4, <2>1, <2>2, <2>3, <2>4 DEF Seen!MaterializedAll, SeenMem, SeenTodo
<1>8. ASSUME API!FinishCall(p) PROVE Seen!FinishCall(p)
  <2> DEFINE tasks == IF API!AllWorkSatisfied(mem[p])
                      THEN <<[type |-> "execution.succeeded"]>> ELSE <<>>
  <2>1. /\ API!Active(p, "finish")
        /\ todo' = [todo EXCEPT ![p] = tasks]
        /\ UNCHANGED <<live, mem, interrupted>>
    BY <1>8 DEF API!FinishCall
  <2>2. tasks = IF Seen!AllWorkSatisfied(SeenMem[p])
                THEN <<[type |-> "execution.succeeded"]>> ELSE <<>>
    BY <1>2, SameKernel
  <2> HIDE DEF tasks
  <2>3. SeenTodo' = [SeenTodo EXCEPT ![p] = tasks] /\ UNCHANGED <<SeenMem, History>>
    BY <1>3, <2>1
  <2> QED
    BY <1>4, <2>1, <2>2, <2>3 DEF Seen!FinishCall, SeenMem, SeenTodo
<1> QED
  BY <1>6, <1>7, <1>8 DEF Between

(***************************************************************************)
(* Every step.                                                             *)
(***************************************************************************)
\* Every step is seen as a step of ExecutionMachine or not at all, but for
\* an append that raises too late and for lost lines.
LEMMA StepSeen ==
  ASSUME Sound, interrupted \in BOOLEAN, [Next]_vars
  PROVE  Seen!Next \/ RaisedLate \/ PowerLoss \/ UNCHANGED Seen!vars
<1>1. ASSUME NEW p \in Procs, Create(p) \/ Replay(p) PROVE Seen!Next
  BY <1>1, OpenSeen DEF Seen!Next
<1>a. ASSUME NEW p \in Procs, CreateFails(p) PROVE RaisedLate \/ UNCHANGED Seen!vars
  <2>1. CASE file' # file
    BY <1>a, <2>1 DEF RaisedLate
  <2>2. CASE file' = file
    BY <1>a, <2>2, SeenSame DEF CreateFails, machineVars, MemoryWith, TodoWithout
  <2> QED
    BY <2>1, <2>2
<1>2. ASSUME NEW p \in Procs, Exit(p) \/ Crash(p) PROVE Seen!Next
  BY <1>2, ExitSeen, CrashSeen DEF Seen!Next
<1>3. ASSUME NEW p \in Procs, Work(p) PROVE Seen!Next
  BY <1>3, WorkSeen DEF Seen!Next
<1>4. ASSUME NEW p \in Procs, Between(p) PROVE Seen!Next
  <2>1. Seen!CallStep(p)
    BY <1>4, BetweenSeen DEF Seen!CallStep
  <2> QED
    BY <2>1 DEF Seen!Next
<1>5. ASSUME NEW p \in Procs, API!Emitting(p), step[p] = "none", Raise(p), UNCHANGED file
      PROVE  Seen!Next
  <2>1. Seen!Refuse(p) \/ Seen!AppendFails(p) \/ Seen!Crash(p)
    BY <1>5, RaiseSeen
  <2> QED
    BY <2>1 DEF Seen!Next, Seen!CallStep
<1>6. ASSUME NEW p \in Procs, Refuse(p) \/ FailEarly(p) PROVE Seen!Next
  BY <1>5, <1>6 DEF Refuse, FailEarly, Appending, ledgerVars
<1>7. ASSUME NEW p \in Procs, Tear(p) PROVE Seen!Next \/ RaisedLate
  BY <1>5, <1>7 DEF Tear, Appending, RaisedLate
<1>8. ASSUME NEW p \in Procs, FailLate(p) PROVE RaisedLate
  BY <1>8 DEF RaisedLate
<1>9. ASSUME NEW p \in Procs, Flush(p) PROVE Seen!Next
  <2>1. Seen!CallStep(p)
    BY <1>9, FlushSeen DEF Seen!CallStep
  <2> QED
    BY <2>1 DEF Seen!Next
<1>10. ASSUME NEW p \in Procs, Sync(p) \/ Apply(p) PROVE UNCHANGED Seen!vars
  BY <1>10, SyncSeen, ApplySeen
<1>11. ASSUME UNCHANGED vars PROVE UNCHANGED Seen!vars
  BY <1>11, SeenSame DEF vars, machineVars, ledgerVars, MemoryWith, TodoWithout
<1> QED
  BY <1>1, <1>a, <1>2, <1>3, <1>4, <1>6, <1>7, <1>8, <1>9, <1>10, <1>11 DEF Next

\* The composition of API and file, for every plan, deployment and fault,
\* implements ExecutionMachine, in which an append is one step, but for the
\* two kinds of step that ExecutionMachine does not have.
THEOREM LoggedImplementsMachine == Spec => ImplementsMachine
<1>1. Init => Seen!Init
  BY InitSeen
<1>2. Init => interrupted \in BOOLEAN
  BY DEF Init, API!Init
<1>3. Sound /\ interrupted \in BOOLEAN /\ [Next]_vars => (interrupted \in BOOLEAN)'
  BY FlagStep
<1>4. Sound /\ interrupted \in BOOLEAN /\ [Next]_vars =>
        [Seen!Next \/ RaisedLate \/ PowerLoss]_(Seen!vars)
  BY StepSeen
<1> QED
  BY <1>1, <1>2, <1>3, <1>4, SoundInductive, PTL DEF Spec, ImplementsMachine

\* Without those two kinds of step it implements ExecutionMachine as it is:
\* exits, crashes anywhere in an append, errors before the write and an fsync
\* that fails change nothing of what the processes can observe.  (A creation
\* that dies with its line written is two steps there, Create and Exit.)
THEOREM LoggedIsMachine ==
  Faults \cap {"late", "tear", "power"} = {} =>
    (Spec => Seen!Init /\ [][Seen!Next \/ \E p \in Procs : CreateFails(p)]_(Seen!vars))
<1> SUFFICES ASSUME Faults \cap {"late", "tear", "power"} = {}
             PROVE  Spec => Seen!Init /\ [][Seen!Next \/ \E p \in Procs : CreateFails(p)]_(Seen!vars)
  OBVIOUS
<1>1. Init => Seen!Init
  BY InitSeen
<1>2. Init => interrupted \in BOOLEAN
  BY DEF Init, API!Init
<1>3. Sound /\ interrupted \in BOOLEAN /\ [Next]_vars => (interrupted \in BOOLEAN)'
  BY FlagStep
<1>4. ~PowerLoss /\ (RaisedLate => \E p \in Procs : CreateFails(p))
  BY DEF RaisedLate, FailLate, Tear, PowerLoss
<1>5. Sound /\ interrupted \in BOOLEAN /\ [Next]_vars =>
        [Seen!Next \/ \E p \in Procs : CreateFails(p)]_(Seen!vars)
  BY <1>4, StepSeen
<1> QED
  BY <1>1, <1>2, <1>3, <1>5, SoundInductive, PTL DEF Spec

=============================================================================
