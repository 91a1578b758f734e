------------------------- MODULE JsonlLedgerProofs -------------------------
(***************************************************************************)
(* For any number of processes and executions, through crashes and torn    *)
(* writes: where flock works, an append that has returned is in the file   *)
(* or the file is refused, and an execution id is reserved once.  The file *)
(* implements EventLog: a write by whoever has the lock either adds a line *)
(* with one event, which is the next of the log, or is the damage.         *)
(***************************************************************************)
EXTENDS JsonlLedger, SequenceTheorems, TLAPS

(***************************************************************************)
(* The inductive invariant.                                                *)
(***************************************************************************)
Ends == {"newline", "none", "torn"}

\* Whoever is past the lock has it.
Mutex ==
  \A w \in Writers : step[w] \in {"locked", "writing", "closing"} => holder = w

\* What the checks have found is still so when the line is flushed.
Prepared ==
  \A w \in Writers : step[w] = "writing" =>
    /\ Decodable(file)
    /\ request[w].sequence = Len(file) + 1
    /\ HasExecution(file, request[w].execution) <=> request[w].kind = "other"

Recorded(f, e) == e.sequence \in DOMAIN f /\ f[e.sequence].events[1] = e

\* The events whose operation has returned or can only return.
Granted == acked \cup {request[w] : w \in {v \in Writers : step[v] = "closing"}}

GrantedAreRecorded == Decodable(file) => \A e \in Granted : Recorded(file, e)

\* Needed for a file that was damaged afterwards: nothing in it says so then.
GrantedForOne ==
  \A d, e \in Granted :
    d.kind = "created" /\ e.kind = "created" /\ d.execution = e.execution => d = e

IInv ==
  /\ TypeOK /\ Mutex /\ Prepared
  /\ GrantedAreRecorded /\ GrantedForOne /\ ReservedOnce

(***************************************************************************)
(* Writing a line.                                                         *)
(***************************************************************************)
LEMMA WrittenIsTyped ==
  ASSUME NEW f \in Seq(Lines), NEW ev \in Seq(LogEvents), NEW end \in Ends
  PROVE  Written(f, ev, end) \in Seq(Lines)
<1>1. CASE f = <<>> \/ f[Len(f)].end = "newline"
  <2>1. [events |-> ev, end |-> end] \in Lines
    BY DEF Lines, Ends
  <2> QED BY <1>1, <2>1 DEF Written
<1>2. CASE ~(f = <<>> \/ f[Len(f)].end = "newline")
  <2>1. Len(f) \in DOMAIN f /\ Len(f) \in Nat
    BY <1>2
  <2>2. f[Len(f)] \in Lines
    BY <2>1
  <2>3. f[Len(f)].events \o ev \in Seq(LogEvents)
    BY <2>2 DEF Lines
  <2>4. [events |-> f[Len(f)].events \o ev, end |-> end] \in Lines
    BY <2>3 DEF Lines, Ends
  <2>5. Written(f, ev, end) =
          [f EXCEPT ![Len(f)] = [events |-> f[Len(f)].events \o ev, end |-> end]]
    BY <1>2 DEF Written
  <2> QED BY <2>1, <2>4, <2>5
<1> QED BY <1>1, <1>2

\* A write adds a line of its own, or the file no longer decodes.
LEMMA WrittenOrDamaged ==
  ASSUME NEW f \in Seq(Lines), Decodable(f), NEW ev \in Seq(LogEvents), NEW end \in Ends,
         ev # <<>> \/ end = "torn", Decodable(Written(f, ev, end))
  PROVE  Written(f, ev, end) = Append(f, [events |-> ev, end |-> end])
<1> SUFFICES ASSUME ~(f = <<>> \/ f[Len(f)].end = "newline")
             PROVE  FALSE
  BY DEF Written
<1> DEFINE last == [events |-> f[Len(f)].events \o ev, end |-> end]
<1>1. Len(f) \in DOMAIN f /\ Len(f) \in Nat
  OBVIOUS
<1>2. f[Len(f)] \in Lines /\ Len(f[Len(f)].events) = 1
  BY <1>1 DEF Decodable
<1>3. f[Len(f)].events \in Seq(LogEvents)
  BY <1>2 DEF Lines
<1>4. Written(f, ev, end) = [f EXCEPT ![Len(f)] = last]
  BY DEF Written
<1>5. Len(f) \in DOMAIN Written(f, ev, end) /\ Written(f, ev, end)[Len(f)] = last
  BY <1>1, <1>4
<1>6. Len(last.events) = 1 /\ last.end # "torn"
  <2> HIDE DEF last
  <2> QED BY <1>5 DEF Decodable
<1>7. Len(last.events) = 1 + Len(ev)
  <2>1. Len(f[Len(f)].events \o ev) = Len(f[Len(f)].events) + Len(ev)
    BY <1>3
  <2> QED BY <1>2, <2>1
<1>8. Len(ev) = 0 /\ end # "torn"
  BY <1>6, <1>7
<1> QED BY <1>8

LEMMA TornIsDamaged ==
  ASSUME NEW f \in Seq(Lines), Decodable(f)
  PROVE  ~Decodable(Written(f, <<>>, "torn"))
<1> SUFFICES ASSUME Decodable(Written(f, <<>>, "torn")) PROVE FALSE
  OBVIOUS
<1>1. <<>> \in Seq(LogEvents) /\ "torn" \in Ends
  BY DEF Ends
<1>2. Written(f, <<>>, "torn") = Append(f, [events |-> <<>>, end |-> "torn"])
  BY <1>1, WrittenOrDamaged, Zenon
<1>3. /\ Len(f) + 1 \in DOMAIN Written(f, <<>>, "torn")
      /\ Written(f, <<>>, "torn")[Len(f) + 1] = [events |-> <<>>, end |-> "torn"]
  BY <1>2
<1> QED BY <1>3 DEF Decodable

\* A new line leaves the others where they are.
LEMMA AppendedLines ==
  ASSUME NEW f \in Seq(Lines), NEW line
  PROVE  /\ DOMAIN Append(f, line) = DOMAIN f \cup {Len(f) + 1}
         /\ Len(f) + 1 \notin DOMAIN f
         /\ \A i \in DOMAIN f : Append(f, line)[i] = f[i]
         /\ Append(f, line)[Len(f) + 1] = line
OBVIOUS

(***************************************************************************)
(* The invariant is inductive.                                             *)
(***************************************************************************)
LEMMA InitInv == Init => IInv
<1> SUFFICES ASSUME Init PROVE IInv
  OBVIOUS
<1>1. NoRequest \in LogEvents
  BY LedgerAssumption DEF NoRequest, LogEvents, Kinds
<1>2. TypeOK
  BY <1>1 DEF Init, TypeOK, Steps
<1>3. Granted = {}
  BY DEF Init, Granted
<1>4. Mutex /\ Prepared
  BY DEF Init, Mutex, Prepared
<1>5. GrantedAreRecorded /\ GrantedForOne
  BY <1>3 DEF GrantedAreRecorded, GrantedForOne
<1>6. ReservedOnce
  BY DEF Init, ReservedOnce
<1> QED BY <1>2, <1>4, <1>5, <1>6 DEF IInv

\* A step that leaves the file alone and grants nothing keeps what is said
\* of the two.
LEMMA QuietSteps ==
  ASSUME GrantedAreRecorded, GrantedForOne, ReservedOnce,
         file' = file, Granted' \subseteq Granted
  PROVE  GrantedAreRecorded' /\ GrantedForOne' /\ ReservedOnce'
<1>1. Decodable(file)' <=> Decodable(file)
  BY DEF Decodable
<1>2. GrantedAreRecorded'
  BY <1>1 DEF GrantedAreRecorded, Recorded
<1>3. GrantedForOne'
  BY DEF GrantedForOne
<1>4. ReservedOnce'
  BY <1>1 DEF ReservedOnce
<1> QED BY <1>2, <1>3, <1>4

\* The process that leaves is no longer past the lock, and nobody else is.
LEMMA LeaveKeepsOrder ==
  ASSUME IInv, NEW w \in Writers, Leave(w)
  PROVE  /\ holder' \in Writers \cup {Nobody}
         /\ step' \in [Writers -> Steps]
         /\ request' \in [Writers -> LogEvents]
         /\ Mutex'
<1>1. NoRequest \in LogEvents
  BY LedgerAssumption DEF NoRequest, LogEvents, Kinds
<1>2. /\ holder' \in Writers \cup {Nobody}
      /\ step' \in [Writers -> Steps]
      /\ request' \in [Writers -> LogEvents]
  BY <1>1 DEF IInv, TypeOK, Leave, Steps
<1>3. Mutex'
  <2> SUFFICES ASSUME NEW v \in Writers, step'[v] \in {"locked", "writing", "closing"}
               PROVE  holder' = v
    BY DEF Mutex
  <2>1. v # w /\ step[v] = step'[v]
    BY DEF IInv, TypeOK, Leave
  <2>2. holder = v
    BY <2>1 DEF IInv, Mutex
  <2> QED BY <2>1, <2>2 DEF Leave
<1> QED BY <1>2, <1>3

LEMMA BeginInv ==
  ASSUME IInv, NEW w \in Writers, NEW x \in Executions, NEW kind \in Kinds,
         Begin(w, x, kind)
  PROVE  IInv'
<1>1. TypeOK'
  <2>1. [sequence |-> 0, execution |-> x, kind |-> kind] \in LogEvents
    BY DEF LogEvents
  <2> QED BY <2>1 DEF IInv, TypeOK, Begin, Steps
<1>2. \A v \in Writers : v # w => step'[v] = step[v] /\ request'[v] = request[v]
  BY DEF IInv, TypeOK, Begin
<1>3. step'[w] = "opening" /\ step[w] = "idle"
  BY DEF IInv, TypeOK, Begin
<1>4. Mutex'
  BY <1>2, <1>3 DEF IInv, Mutex, Begin
<1>5. Prepared'
  BY <1>2, <1>3 DEF IInv, Prepared, Begin, Decodable, HasExecution
<1>6. Granted' \subseteq Granted
  BY <1>2, <1>3 DEF Granted, Begin
<1> QED BY <1>1, <1>4, <1>5, <1>6, QuietSteps DEF IInv, Begin

LEMMA LockInv ==
  ASSUME Locking, IInv, NEW w \in Writers, Lock(w)
  PROVE  IInv'
<1>1. TypeOK'
  BY DEF IInv, TypeOK, Lock, Steps
<1>2. \A v \in Writers : v # w => step'[v] = step[v]
  BY DEF IInv, TypeOK, Lock
<1>3. step'[w] = "locked" /\ step[w] = "opening" /\ holder = Nobody /\ holder' = w
  BY DEF IInv, TypeOK, Lock
<1>4. \A v \in Writers : step[v] \notin {"locked", "writing", "closing"}
  BY <1>3, LedgerAssumption DEF IInv, Mutex
<1>5. Mutex'
  BY <1>2, <1>3, <1>4 DEF Mutex
<1>6. Prepared'
  BY <1>2, <1>3, <1>4 DEF Prepared
<1>7. Granted' \subseteq Granted
  BY <1>2, <1>3, <1>4 DEF Granted, Lock
<1> QED BY <1>1, <1>5, <1>6, <1>7, QuietSteps DEF IInv, Lock

LEMMA PrepareInv ==
  ASSUME IInv, NEW w \in Writers, Prepare(w)
  PROVE  IInv'
<1>1. Len(file) + 1 \in Nat
  BY DEF IInv, TypeOK
<1>2. request[w] \in LogEvents
  BY DEF IInv, TypeOK
<1>3. request'[w] = [request[w] EXCEPT !.sequence = Len(file) + 1]
  BY DEF IInv, TypeOK, Prepare
<1>4. /\ request'[w].sequence = Len(file) + 1
      /\ request'[w].execution = request[w].execution
      /\ request'[w].kind = request[w].kind
      /\ request'[w] \in LogEvents
  BY <1>1, <1>2, <1>3 DEF LogEvents
<1>5. TypeOK'
  BY <1>3, <1>4 DEF IInv, TypeOK, Prepare, Steps
<1>6. \A v \in Writers : v # w => step'[v] = step[v] /\ request'[v] = request[v]
  BY DEF IInv, TypeOK, Prepare
<1>7. step'[w] = "writing" /\ step[w] = "locked"
  BY DEF IInv, TypeOK, Prepare
<1>8. Mutex'
  BY <1>6, <1>7 DEF IInv, Mutex, Prepare
<1>9. Prepared'
  <2> SUFFICES ASSUME NEW v \in Writers, step'[v] = "writing"
               PROVE  /\ Decodable(file)
                      /\ request'[v].sequence = Len(file) + 1
                      /\ HasExecution(file, request'[v].execution) <=> request'[v].kind = "other"
    BY DEF Prepared, Prepare, Decodable, HasExecution
  <2>1. CASE v = w
    BY <1>4, <2>1 DEF Prepare, MayWrite
  <2>2. CASE v # w
    BY <1>6, <2>2 DEF IInv, Prepared
  <2> QED BY <2>1, <2>2
<1>10. Granted' \subseteq Granted
  BY <1>6, <1>7 DEF Granted, Prepare
<1> QED BY <1>5, <1>8, <1>9, <1>10, QuietSteps DEF IInv, Prepare

\* Reject, Return and Crash.
LEMMA LeavingInv ==
  ASSUME IInv, NEW w \in Writers, Leave(w), file' = file,
         acked' = acked \/ (step[w] = "closing" /\ acked' = acked \cup {request[w]})
  PROVE  IInv'
<1>1. acked' \subseteq LogEvents
  BY DEF IInv, TypeOK
<1>2. TypeOK' /\ Mutex'
  BY <1>1, LeaveKeepsOrder DEF IInv, TypeOK
<1>3. \A v \in Writers : v # w => step'[v] = step[v] /\ request'[v] = request[v]
  BY DEF IInv, TypeOK, Leave
<1>4. step'[w] = "idle"
  BY DEF IInv, TypeOK, Leave
<1>5. Prepared'
  BY <1>3, <1>4 DEF IInv, Prepared, Decodable, HasExecution
<1>6. Granted' \subseteq Granted
  BY <1>3, <1>4 DEF Granted
<1> QED BY <1>2, <1>5, <1>6, QuietSteps DEF IInv

\* The line of a process that is past its checks, whole but perhaps for its
\* newline.
LEMMA WrittenEvents ==
  ASSUME IInv, NEW w \in Writers, step[w] = "writing", NEW end \in {"newline", "none"},
         file' = Written(file, <<request[w]>>, end), Granted' \subseteq Granted \cup {request[w]}
  PROVE  file' \in Seq(Lines) /\ GrantedAreRecorded' /\ GrantedForOne' /\ ReservedOnce'
<1> DEFINE e == request[w]
           line == [events |-> <<e>>, end |-> end]
<1>1. /\ e \in LogEvents /\ <<e>> \in Seq(LogEvents) /\ <<e>> # <<>>
      /\ file \in Seq(Lines) /\ end \in Ends
  BY DEF IInv, TypeOK, Ends
<1>2. /\ Decodable(file)
      /\ e.sequence = Len(file) + 1
      /\ HasExecution(file, e.execution) <=> e.kind = "other"
  BY DEF IInv, Prepared
<1>3. \A d \in Granted : Recorded(file, d)
  BY <1>2 DEF IInv, GrantedAreRecorded
<1>4. Decodable(file') => file' = Append(file, line)
  BY <1>1, <1>2, WrittenOrDamaged
<1>5. GrantedAreRecorded'
  <2> SUFFICES ASSUME Decodable(file'), NEW d \in Granted' PROVE Recorded(file', d)
    BY DEF GrantedAreRecorded, Recorded, Decodable
  <2>1. file' = Append(file, line)
    BY <1>4
  <2>2. CASE d = e
    BY <1>1, <1>2, <2>1, <2>2, AppendedLines DEF Recorded
  <2>3. CASE d # e
    BY <1>1, <1>3, <2>1, <2>3, AppendedLines DEF Recorded
  <2> QED BY <2>2, <2>3
<1>6. GrantedForOne'
  <2>1. ASSUME NEW d \in Granted, d.execution = e.execution, e.kind = "created"
        PROVE  FALSE
    <3>1. HasExecution(file, e.execution)
      BY <1>3, <2>1 DEF Recorded, HasExecution
    <3> QED BY <1>2, <2>1, <3>1
  <2> QED BY <2>1 DEF IInv, GrantedForOne
<1>7. ReservedOnce'
  <2> SUFFICES ASSUME Decodable(file'), NEW i \in DOMAIN file'
               PROVE  file'[i].events[1].kind = "created" <=>
                        \A j \in 1..(i - 1) :
                          file'[j].events[1].execution # file'[i].events[1].execution
    BY DEF ReservedOnce, Decodable
  <2>1. file' = Append(file, line)
    BY <1>4
  <2>2. DOMAIN file = 1..Len(file) /\ Len(file) \in Nat
    BY <1>1
  <2>3. CASE i \in DOMAIN file
    <3>1. \A j \in 1..i : j \in DOMAIN file /\ file'[j] = file[j]
      <4>1. \A j \in 1..i : j \in DOMAIN file
        BY <2>2, <2>3
      <4>2. \A j \in DOMAIN file : file'[j] = file[j]
        <5> HIDE DEF line
        <5> QED BY <1>1, <2>1, AppendedLines
      <4> QED BY <4>1, <4>2
    <3>2. i \in 1..i /\ \A j \in 1..(i - 1) : j \in 1..i
      BY <2>2, <2>3
    <3> QED BY <1>2, <2>3, <3>1, <3>2 DEF IInv, ReservedOnce
  <2>4. CASE i = Len(file) + 1
    <3>1. file'[i] = line
      BY <1>1, <2>1, <2>4, AppendedLines
    <3>2. file'[i].events[1] = e
      BY <3>1
    <3>3. \A j \in 1..(i - 1) : j \in DOMAIN file /\ file'[j] = file[j]
      <4>1. \A j \in 1..(i - 1) : j \in DOMAIN file
        BY <2>2, <2>4
      <4>2. \A j \in DOMAIN file : file'[j] = file[j]
        <5> HIDE DEF line
        <5> QED BY <1>1, <2>1, AppendedLines
      <4> QED BY <4>1, <4>2
    <3>4. \A j \in DOMAIN file : j \in 1..(i - 1)
      BY <2>2, <2>4
    <3>5. HasExecution(file, e.execution) <=>
            \E j \in 1..(i - 1) : file'[j].events[1].execution = e.execution
      BY <3>3, <3>4 DEF HasExecution
    <3>6. e.kind = "created" <=> e.kind # "other"
      BY <1>1 DEF LogEvents, Kinds
    <3> QED BY <1>2, <3>2, <3>5, <3>6
  <2>5. i \in DOMAIN file \/ i = Len(file) + 1
    BY <1>1, <2>1, AppendedLines
  <2> QED BY <2>3, <2>4, <2>5
<1>8. file' \in Seq(Lines)
  BY <1>1, WrittenIsTyped
<1> QED BY <1>5, <1>6, <1>7, <1>8

LEMMA FlushInv ==
  ASSUME IInv, NEW w \in Writers, Flush(w)
  PROVE  IInv'
<1>1. \A v \in Writers : v # w => step'[v] = step[v] /\ request'[v] = request[v]
  BY DEF IInv, TypeOK, Flush
<1>2. step'[w] = "closing" /\ step[w] = "writing" /\ request' = request /\ acked' = acked
  BY DEF IInv, TypeOK, Flush
<1>3. Granted' \subseteq Granted \cup {request[w]}
  BY <1>1, <1>2 DEF Granted
<1>4. file' \in Seq(Lines) /\ GrantedAreRecorded' /\ GrantedForOne' /\ ReservedOnce'
  BY <1>2, <1>3, WrittenEvents DEF Flush
<1>5. TypeOK'
  BY <1>4 DEF IInv, TypeOK, Flush, Steps
<1>6. Mutex'
  BY <1>1, <1>2 DEF IInv, Mutex, Flush
<1>7. \A v \in Writers : step'[v] # "writing"
  BY <1>1, <1>2 DEF IInv, Mutex
<1>8. Prepared'
  BY <1>7 DEF Prepared
<1> QED BY <1>4, <1>5, <1>6, <1>8 DEF IInv

\* What a crash or the disk leaves of the line.
LEMMA FlushTornInv ==
  ASSUME IInv, NEW w \in Writers, FlushTorn(w)
  PROVE  IInv'
<1>1. \A v \in Writers : v # w => step'[v] = step[v] /\ request'[v] = request[v]
  BY DEF IInv, TypeOK, FlushTorn, Leave
<1>2. step'[w] = "idle" /\ step[w] = "writing" /\ acked' = acked
  BY DEF IInv, TypeOK, FlushTorn, Leave
<1>3. Granted' \subseteq Granted
  BY <1>1, <1>2 DEF Granted
<1>4. file' \in Seq(Lines) /\ GrantedAreRecorded' /\ GrantedForOne' /\ ReservedOnce'
  <2>1. CASE file' = Written(file, <<request[w]>>, "none")
    BY <1>2, <1>3, <2>1, WrittenEvents
  <2>2. CASE file' = Written(file, <<>>, "torn")
    <3>1. file \in Seq(Lines) /\ Decodable(file)
      BY <1>2 DEF IInv, TypeOK, Prepared
    <3>2. file' \in Seq(Lines)
      <4>1. <<>> \in Seq(LogEvents) /\ "torn" \in Ends
        BY DEF Ends
      <4> QED BY <2>2, <3>1, <4>1, WrittenIsTyped
    <3>3. ~Decodable(file')
      BY <2>2, <3>1, TornIsDamaged
    <3>4. ~Decodable(file)'
      BY <3>3 DEF Decodable
    <3>5. GrantedForOne'
      BY <1>3 DEF IInv, GrantedForOne
    <3> QED BY <3>2, <3>4, <3>5 DEF GrantedAreRecorded, ReservedOnce
  <2> QED BY <2>1, <2>2 DEF FlushTorn
<1>5. TypeOK' /\ Mutex'
  BY <1>2, <1>4, LeaveKeepsOrder DEF IInv, TypeOK, FlushTorn
<1>6. \A v \in Writers : step'[v] # "writing"
  BY <1>1, <1>2 DEF IInv, Mutex
<1>7. Prepared'
  BY <1>6 DEF Prepared
<1> QED BY <1>4, <1>5, <1>7 DEF IInv

LEMMA NextInv ==
  ASSUME Locking, IInv, [Next]_vars
  PROVE  IInv'
<1>1. ASSUME NEW w \in Writers, NEW x \in Executions, NEW kind \in Kinds, Begin(w, x, kind)
      PROVE  IInv'
  BY <1>1, BeginInv
<1>2. ASSUME NEW w \in Writers, Lock(w) PROVE IInv'
  BY <1>2, LockInv
<1>3. ASSUME NEW w \in Writers, Prepare(w) PROVE IInv'
  BY <1>3, PrepareInv
<1>4. ASSUME NEW w \in Writers, Reject(w) \/ Return(w) \/ Crash(w) PROVE IInv'
  BY <1>4, LeavingInv DEF Reject, Return, Crash
<1>5. ASSUME NEW w \in Writers, Flush(w) PROVE IInv'
  BY <1>5, FlushInv
<1>6. ASSUME NEW w \in Writers, FlushTorn(w) PROVE IInv'
  BY <1>6, FlushTornInv
<1>7. CASE UNCHANGED vars
  <2>1. Granted' \subseteq Granted
    BY <1>7 DEF vars, Granted
  <2>2. TypeOK' /\ Mutex' /\ Prepared'
    BY <1>7 DEF vars, IInv, TypeOK, Mutex, Prepared, Decodable, HasExecution
  <2> QED BY <1>7, <2>1, <2>2, QuietSteps DEF vars, IInv
<1> QED BY <1>1, <1>2, <1>3, <1>4, <1>5, <1>6, <1>7 DEF Next

(***************************************************************************)
(* The results.                                                            *)
(***************************************************************************)
\* The inductive invariant holds: the lock excludes, what _decode found is
\* still so when the line is flushed, and what was granted is recorded.
THEOREM LedgerInductive == Locking => (Spec => []IInv)
<1> SUFFICES ASSUME Locking PROVE Spec => []IInv
  OBVIOUS
<1>1. Init => IInv
  BY InitInv
<1>2. IInv /\ [Next]_vars => IInv'
  BY NextInv
<1> QED BY <1>1, <1>2, PTL DEF Spec

\* The file, the lock and the operations keep their types.
THEOREM LedgerTypeCorrect == Locking => (Spec => []TypeOK)
<1> SUFFICES ASSUME Locking PROVE Spec => []TypeOK
  OBVIOUS
<1>1. IInv => TypeOK
  BY DEF IInv
<1> QED BY <1>1, LedgerInductive, PTL

\* An append that returned is in the file at its sequence number, or the
\* file is refused.
THEOREM AcknowledgedIsKept == Locking => (Spec => []AckedOrRefused)
<1> SUFFICES ASSUME Locking PROVE Spec => []AckedOrRefused
  OBVIOUS
<1>1. IInv => AckedOrRefused
  BY DEF IInv, GrantedAreRecorded, Granted, Recorded, AckedOrRefused
<1> QED BY <1>1, LedgerInductive, PTL

\* In a file that decodes, the creation event of an execution is its first
\* event and its only one.
THEOREM ReservedIdsAreUnique == Locking => (Spec => []ReservedOnce)
<1> SUFFICES ASSUME Locking PROVE Spec => []ReservedOnce
  OBVIOUS
<1>1. IInv => ReservedOnce
  BY DEF IInv
<1> QED BY <1>1, LedgerInductive, PTL

\* create_execution returns to at most one caller for an id.
THEOREM ReservationIsAtomic == Locking => (Spec => []ReservedForOne)
<1> SUFFICES ASSUME Locking PROVE Spec => []ReservedForOne
  OBVIOUS
<1>1. IInv => ReservedForOne
  BY DEF IInv, GrantedForOne, Granted, ReservedForOne
<1> QED BY <1>1, LedgerInductive, PTL

(***************************************************************************)
(* The file as an event log.                                               *)
(***************************************************************************)
\* A sequence with an element is not empty.
LEMMA OneIsNotEmpty == \A ev : Len(ev) = 1 => ev # <<>>
<1>1. Len(<<>>) = 0
  OBVIOUS
<1>2. Len(<<>>) # 1
  BY <1>1
<1> QED BY <1>2, Zenon

\* A file that decodes holds the event of each of its lines.
LEMMA DecodedLog ==
  ASSUME NEW f \in Seq(Lines), Decodable(f)
  PROVE  /\ LoggedEvents(f) = [i \in 1..Len(f) |-> f[i].events[1]]
         /\ LoggedEvents(f) \in Seq(LogEvents)
         /\ Len(LoggedEvents(f)) = Len(f)
<1>1. DOMAIN f = 1..Len(f) /\ Len(f) \in Nat
  OBVIOUS
<1>2. \A i \in DOMAIN f : f[i].events \in Seq(LogEvents) /\ Len(f[i].events) = 1
  <2> SUFFICES ASSUME NEW i \in DOMAIN f
               PROVE  f[i].events \in Seq(LogEvents) /\ Len(f[i].events) = 1
    OBVIOUS
  <2>1. f[i] \in Lines
    OBVIOUS
  <2> QED BY <2>1 DEF Lines, Decodable
<1>3. \A i \in DOMAIN f : f[i].events # <<>> /\ f[i].events[1] \in LogEvents
  <2> SUFFICES ASSUME NEW i \in DOMAIN f
               PROVE  f[i].events # <<>> /\ f[i].events[1] \in LogEvents
    OBVIOUS
  <2> DEFINE ev == f[i].events
  <2>1. ev \in Seq(LogEvents) /\ Len(ev) = 1
    BY <1>2
  <2> HIDE DEF ev
  <2>2. 1 \in 1..Len(ev)
    BY <2>1
  <2>3. ev[1] \in LogEvents
    BY <2>1, <2>2, ElementOfSeq
  <2>4. ev # <<>>
    BY <2>1, OneIsNotEmpty
  <2> QED BY <2>3, <2>4 DEF ev
<1>4. \A i \in DOMAIN f : \A j \in 1..i : j \in DOMAIN f
  BY <1>1
<1>5. WholeLines(f) = 1..Len(f)
  BY <1>1, <1>3, <1>4 DEF WholeLines
<1>6. LoggedEvents(f) = [i \in 1..Len(f) |-> f[i].events[1]]
  BY <1>5 DEF LoggedEvents
<1>7. \A i \in 1..Len(f) : f[i].events[1] \in LogEvents
  BY <1>1, <1>3
<1> QED BY <1>1, <1>6, <1>7

\* A new line with one event adds it to the log.
LEMMA AppendedLog ==
  ASSUME NEW f \in Seq(Lines), Decodable(f), NEW e \in LogEvents, NEW end \in Ends,
         Decodable(Append(f, [events |-> <<e>>, end |-> end]))
  PROVE  LoggedEvents(Append(f, [events |-> <<e>>, end |-> end])) = Append(LoggedEvents(f), e)
<1> DEFINE line == [events |-> <<e>>, end |-> end]
           g == Append(f, line)
<1>1. line \in Lines /\ line.events[1] = e
  BY DEF Lines, Ends
<1> HIDE DEF line
<1>2. /\ g \in Seq(Lines) /\ Len(g) = Len(f) + 1 /\ g[Len(f) + 1] = line
      /\ \A i \in 1..Len(f) : g[i] = f[i]
      /\ Len(f) \in Nat
  BY <1>1
<1>3. Decodable(g)
  BY DEF line
<1> HIDE DEF g
<1>4. /\ LoggedEvents(g) = [i \in 1..(Len(f) + 1) |-> g[i].events[1]]
      /\ LoggedEvents(f) = [i \in 1..Len(f) |-> f[i].events[1]]
      /\ LoggedEvents(f) \in Seq(LogEvents) /\ Len(LoggedEvents(f)) = Len(f)
  BY <1>2, <1>3, DecodedLog
<1> DEFINE l == LoggedEvents(f)
           a == Append(l, e)
<1>5. l \in Seq(LogEvents) /\ Len(l) = Len(f) /\ \A i \in 1..Len(f) : l[i] = f[i].events[1]
  BY <1>4
<1> HIDE DEF l
<1>6. /\ DOMAIN a = 1..(Len(f) + 1) /\ a = [i \in DOMAIN a |-> a[i]]
      /\ a[Len(f) + 1] = e /\ \A i \in 1..Len(f) : a[i] = l[i]
  <2>1. a \in Seq(LogEvents) /\ Len(a) = Len(l) + 1
    BY <1>5
  <2>2. a[Len(l) + 1] = e /\ \A i \in 1..Len(l) : a[i] = l[i]
    BY <1>5
  <2> HIDE DEF a
  <2>3. DOMAIN a = 1..(Len(f) + 1) /\ a = [i \in DOMAIN a |-> a[i]]
    BY <1>5, <2>1
  <2> QED BY <1>5, <2>2, <2>3
<1>7. \A i \in 1..(Len(f) + 1) : i \in 1..Len(f) \/ i = Len(f) + 1
  BY <1>2
<1>8. \A i \in 1..(Len(f) + 1) : a[i] = g[i].events[1]
  BY <1>1, <1>2, <1>5, <1>6, <1>7
<1> HIDE DEF a
<1>9. LoggedEvents(g) = a
  BY <1>4, <1>6, <1>8
<1> QED BY <1>9 DEF a, g, l, line

\* A write after which the file no longer decodes leaves the log as it is.
LEMMA DamagedLog ==
  ASSUME NEW f \in Seq(Lines), Decodable(f), NEW ev \in Seq(LogEvents), NEW end \in Ends,
         ev = <<>> \/ (Len(ev) = 1 /\ ev[1].sequence = Len(f) + 1 /\ end # "torn"),
         ~Decodable(Written(f, ev, end))
  PROVE  LoggedEvents(Written(f, ev, end)) = LoggedEvents(f)
<1> DEFINE g == Written(f, ev, end)
<1>1. /\ LoggedEvents(f) = [i \in 1..Len(f) |-> f[i].events[1]]
      /\ DOMAIN f = 1..Len(f) /\ Len(f) \in Nat
  BY DecodedLog
<1>2. \A i \in DOMAIN f : f[i].events # <<>>
  <2> SUFFICES ASSUME NEW i \in DOMAIN f, f[i].events = <<>> PROVE FALSE
    OBVIOUS
  <2>1. Len(f[i].events) = 1
    BY DEF Decodable
  <2> QED BY <2>1
<1>3. SUFFICES /\ WholeLines(g) = 1..Len(f)
               /\ \A i \in 1..Len(f) : g[i].events[1] = f[i].events[1]
  BY <1>1 DEF LoggedEvents
<1>4. CASE f = <<>> \/ f[Len(f)].end = "newline"
  <2> DEFINE line == [events |-> ev, end |-> end]
  <2>1. g = Append(f, line)
    BY <1>4 DEF Written
  <2>2. line.events = ev /\ line.end = end
    OBVIOUS
  <2> HIDE DEF line, g
  <2>3. /\ DOMAIN g = 1..(Len(f) + 1) /\ g[Len(f) + 1] = line
        /\ \A i \in 1..Len(f) : g[i] = f[i]
    BY <2>1
  <2>4. ev = <<>>
    <3> SUFFICES ASSUME ev # <<>> PROVE FALSE
      OBVIOUS
    <3>1. Len(ev) = 1 /\ ev[1].sequence = Len(f) + 1 /\ end # "torn"
      OBVIOUS
    <3>2. \A i \in DOMAIN g : i \in DOMAIN f \/ i = Len(f) + 1
      BY <1>1, <2>3
    <3>3. Decodable(g)
      BY <1>1, <2>2, <2>3, <3>1, <3>2 DEF Decodable
    <3> QED BY <3>3 DEF g
  <2>5. WholeLines(g) = 1..Len(f)
    <3>1. ASSUME NEW i \in DOMAIN g, \A j \in 1..i : g[j].events # <<>>  PROVE i \in 1..Len(f)
      <4>1. g[Len(f) + 1].events = <<>>
        BY <2>2, <2>3, <2>4
      <4>2. i # Len(f) + 1
        BY <1>1, <3>1, <4>1
      <4> QED BY <1>1, <2>3, <4>2
    <3>2. ASSUME NEW i \in 1..Len(f), NEW j \in 1..i  PROVE i \in DOMAIN g /\ g[j].events # <<>>
      <4>1. j \in 1..Len(f) /\ i \in 1..(Len(f) + 1)
        BY <1>1
      <4> QED BY <1>1, <1>2, <2>3, <4>1
    <3>3. ASSUME NEW i \in 1..Len(f)  PROVE i \in DOMAIN g
      BY <1>1, <2>3
    <3> QED BY <3>1, <3>2, <3>3 DEF WholeLines
  <2> QED BY <2>3, <2>5
<1>5. CASE ~(f = <<>> \/ f[Len(f)].end = "newline")
  <2> DEFINE last == [events |-> f[Len(f)].events \o ev, end |-> end]
  <2>1. g = [f EXCEPT ![Len(f)] = last] /\ Len(f) \in DOMAIN f
    BY <1>1, <1>5 DEF Written
  <2>2. last.events # <<>> /\ last.events[1] = f[Len(f)].events[1]
    <3> DEFINE old == f[Len(f)].events
    <3>1. f[Len(f)] \in Lines
      BY <2>1
    <3>2. old \in Seq(LogEvents) /\ Len(old) = 1
      BY <2>1, <3>1 DEF Lines, Decodable
    <3> HIDE DEF old
    <3>3. old \o ev # <<>> /\ (old \o ev)[1] = old[1]
      <4>1. /\ \A i \in 1..Len(old) + Len(ev) :
                  (old \o ev)[i] = IF i <= Len(old) THEN old[i] ELSE ev[i - Len(old)]
            /\ Len(ev) \in Nat
        BY <3>2, ConcatProperties, LenProperties
      <4>2. 1 \in 1..Len(old) + Len(ev) /\ 1 <= Len(old)
        BY <3>2, <4>1
      <4>3. (old \o ev)[1] = old[1]
        BY <4>1, <4>2
      <4>4. old # <<>>
        BY <3>2, OneIsNotEmpty
      <4>5. old \o ev # <<>>
        BY <3>2, <4>4, ConcatEqualIffEmpty
      <4> QED BY <4>3, <4>5
    <3> QED BY <3>3 DEF old
  <2> HIDE DEF last, g
  <2>3. /\ DOMAIN g = 1..Len(f) /\ g[Len(f)] = last
        /\ \A i \in 1..Len(f) : i # Len(f) => g[i] = f[i]
    BY <1>1, <2>1
  <2>4. \A i \in 1..Len(f) : g[i].events # <<>> /\ g[i].events[1] = f[i].events[1]
    BY <1>1, <1>2, <2>2, <2>3
  <2>5. \A i \in 1..Len(f) : \A j \in 1..i : j \in 1..Len(f)
    BY <1>1
  <2>6. WholeLines(g) = 1..Len(f)
    BY <2>3, <2>4, <2>5 DEF WholeLines
  <2> QED BY <2>4, <2>6
<1> QED BY <1>4, <1>5

\* What a process writes that is past its checks reserves or extends its
\* execution, or is the damage that the log refuses from then on.
LEMMA WriteIsLogStep ==
  ASSUME IInv, NEW w \in Writers, step[w] = "writing", NEW ev, NEW end \in Ends,
         \/ ev = <<request[w]>> /\ end # "torn"
         \/ ev = <<>> /\ end = "torn",
         file' = Written(file, ev, end)
  PROVE  Log!Next
<1> DEFINE r == request[w]
           log == LoggedEvents(file)
<1>1. /\ file \in Seq(Lines) /\ r \in LogEvents /\ ev \in Seq(LogEvents)
      /\ ev # <<>> \/ end = "torn"
  <2>1. file \in Seq(Lines) /\ r \in LogEvents
    BY DEF IInv, TypeOK
  <2> HIDE DEF r
  <2>2. CASE ev = <<r>> /\ end # "torn"
    <3>1. ev \in Seq(LogEvents) /\ Len(ev) = 1
      BY <2>1, <2>2
    <3>2. ev # <<>>
      BY <3>1, OneIsNotEmpty
    <3> QED BY <2>1, <3>1, <3>2
  <2>3. CASE ev = <<>> /\ end = "torn"
    BY <2>1, <2>3
  <2> QED BY <2>2, <2>3 DEF r
<1>2. /\ Decodable(file) /\ r.sequence = Len(file) + 1
      /\ HasExecution(file, r.execution) <=> r.kind = "other"
  BY DEF IInv, Prepared
<1>3. ev = <<>> \/ (Len(ev) = 1 /\ ev[1].sequence = Len(file) + 1 /\ end # "torn")
  BY <1>1, <1>2
<1>4. CASE ~Decodable(file')
  <2>1. LoggedEvents(file') = LoggedEvents(file)
    BY <1>1, <1>2, <1>3, <1>4, DamagedLog
  <2>2. Log!Damage
    BY <1>2, <1>4, <2>1 DEF Log!Damage, Decodable, LoggedEvents, WholeLines
  <2> QED BY <2>2 DEF Log!Next
<1>5. CASE Decodable(file')
  <2>2. file' = Append(file, [events |-> ev, end |-> end])
    BY <1>1, <1>2, <1>5, WrittenOrDamaged
  <2>3. ev = <<r>>
    BY <1>1, <1>2, <1>5, TornIsDamaged
  <2>4. LoggedEvents(file') = Append(log, r)
    BY <1>1, <1>2, <1>5, <2>2, <2>3, AppendedLog
  <2>5. /\ Len(log) = Len(file) /\ DOMAIN log = DOMAIN file
        /\ \A i \in DOMAIN log : log[i] = file[i].events[1]
    BY <1>1, <1>2, DecodedLog
  <2>6. r.execution \in Executions /\ r.kind \in Kinds
    BY <1>1 DEF LogEvents
  <2>7. r = [sequence |-> Len(log) + 1, execution |-> r.execution, kind |-> r.kind]
    BY <1>1, <1>2, <2>5 DEF LogEvents
  <2>8. Log!Reserved(r.execution) <=> HasExecution(file, r.execution)
    BY <2>5 DEF Log!Reserved, HasExecution
  <2>9. LoggedEvents(file)' = Append(log, r) /\ (~Decodable(file))' = ~Decodable(file)
    BY <1>2, <1>5, <2>4 DEF LoggedEvents, WholeLines, Decodable
  <2>10. CASE r.kind = "created"
    <3>1. Log!Reserve(r.execution)
      BY <1>2, <2>7, <2>8, <2>9, <2>10 DEF Log!Reserve, Log!Event
    <3> QED BY <2>6, <3>1 DEF Log!Next
  <2>11. CASE r.kind = "other"
    <3>1. Log!Extend(r.execution)
      BY <1>2, <2>7, <2>8, <2>9, <2>11 DEF Log!Extend, Log!Event
    <3> QED BY <2>6, <3>1 DEF Log!Next
  <2> QED BY <2>6, <2>10, <2>11 DEF Kinds
<1> QED BY <1>4, <1>5

\* Every other step leaves the file alone.
LEMMA StepIsLogStep ==
  ASSUME IInv, [Next]_vars
  PROVE  [Log!Next]_(Log!logVars)
<1>1. ASSUME NEW w \in Writers, Flush(w)  PROVE Log!Next
  BY <1>1, WriteIsLogStep DEF Flush, Ends
<1>2. ASSUME NEW w \in Writers, FlushTorn(w)  PROVE Log!Next
  BY <1>2, WriteIsLogStep DEF FlushTorn, Ends
<1>3. CASE file' = file
  BY <1>3 DEF Log!logVars, LoggedEvents, WholeLines, Decodable
<1>4. \/ file' = file
      \/ \E w \in Writers : Flush(w) \/ FlushTorn(w)
  BY DEF Next, vars, Begin, Lock, Prepare, Reject, Return, Crash
<1> QED BY <1>1, <1>2, <1>3, <1>4

\* Before the first write the log is empty.
LEMMA InitIsLogInit == Init => Log!Init
<1> SUFFICES ASSUME Init PROVE Log!Init
  OBVIOUS
<1>1. file = <<>> /\ file \in Seq(Lines)
  BY DEF Init
<1>2. Decodable(file)
  BY <1>1 DEF Decodable
<1>3. LoggedEvents(file) \in Seq(LogEvents) /\ Len(LoggedEvents(file)) = Len(file)
  BY <1>1, <1>2, DecodedLog
<1>4. Len(file) = 0
  BY <1>1
<1>5. LoggedEvents(file) = <<>>
  <2> DEFINE l == LoggedEvents(file)
  <2>1. l \in Seq(LogEvents) /\ Len(l) = 0
    BY <1>3, <1>4
  <2> HIDE DEF l
  <2>2. l = <<>>
    BY <2>1
  <2> QED BY <2>2 DEF l
<1> QED BY <1>2, <1>5 DEF Log!Init

\* Under the lock the file is an event log, for any number of processes and
\* executions: an operation adds its event in one step or not at all, in the
\* order of the sequence numbers, and damage is final.
THEOREM LedgerImplementsLog == Locking => (Spec => ImplementsLog)
<1> SUFFICES ASSUME Locking PROVE Spec => ImplementsLog
  OBVIOUS
<1>1. Init => Log!Init
  BY InitIsLogInit
<1>2. IInv /\ [Next]_vars => [Log!Next]_(Log!logVars)
  BY StepIsLogStep
<1> QED BY <1>1, <1>2, LedgerInductive, PTL DEF Spec, ImplementsLog, Log!Spec

=============================================================================
