---------------------------- MODULE JsonlLedger ----------------------------
(***************************************************************************)
(* The ledger file and the operations of JsonlLedger on it, one system     *)
(* call at a time: open and lock, read and decode everything, buffer one   *)
(* more line, flush it to the end of the file, close.  Several processes   *)
(* use the file, each for one operation at a time, and several executions  *)
(* share it.                                                               *)
(*                                                                         *)
(* A line is the events whose JSON text is on it and how it ends: with its *)
(* newline, without one ("none", only at the end of the file), or in the   *)
(* middle of an event ("torn").  The lock is flock's: it goes away with    *)
(* the process that holds it.  Where fcntl is missing, or flock fails, the *)
(* code goes on without a lock.                                            *)
(***************************************************************************)
EXTENDS Naturals, Sequences

CONSTANTS
  Writers,      \* processes that call create_execution and append
  Executions,   \* execution ids
  Locking,      \* flock is available and works
  Faults,       \* subset of {"crash", "tear"}
  MaxLines,     \* bound: operations begin while the file is shorter
  Nobody        \* no process

ASSUME LedgerAssumption ==
  /\ Nobody \notin Writers /\ Executions # {}
  /\ Locking \in BOOLEAN
  /\ Faults \subseteq {"crash", "tear"}
  /\ MaxLines \in Nat

VARIABLES
  file,     \* sequence of lines
  holder,   \* the process that holds the lock, or Nobody
  step,     \* [Writers -> where its operation is]
  request,  \* [Writers -> the event it wants; sequence 0 until it is known]
  acked     \* events whose operation has returned

vars == <<file, holder, step, request, acked>>

Kinds == {"created", "other"}
LogEvents == [sequence : Nat, execution : Executions, kind : Kinds]
Lines == [events : Seq(LogEvents), end : {"newline", "none", "torn"}]
Steps == {"idle", "opening", "locked", "writing", "closing"}

NoRequest == [sequence |-> 0, execution |-> CHOOSE x \in Executions : TRUE, kind |-> "other"]

Init ==
  /\ file = <<>>
  /\ holder = Nobody
  /\ step = [w \in Writers |-> "idle"]
  /\ request = [w \in Writers |-> NoRequest]
  /\ acked = {}

(***************************************************************************)
(* _decode: a line is one JSON object, and sequence numbers count lines.   *)
(***************************************************************************)
\* Takes the first object on a line and ignores the rest.
Decodable_FirstObject(f) ==
  \A i \in DOMAIN f : f[i].end # "torn" /\ f[i].events[1].sequence = i

Decodable(f) ==
  \A i \in DOMAIN f :
    /\ Len(f[i].events) = 1
    /\ f[i].end # "torn"
    /\ f[i].events[1].sequence = i

\* The lines up to the first one without a complete event, and the events they
\* begin with.
WholeLines(f) == {i \in DOMAIN f : \A j \in 1..i : f[j].events # <<>>}

LoggedEvents(f) == [i \in WholeLines(f) |-> f[i].events[1]]

HasExecution(f, x) == \E i \in DOMAIN f : f[i].events[1].execution = x

\* A write at the end of the file: a last line that has its newline is
\* complete, any other one gets the new text glued to it.
Written(f, events, end) ==
  IF f = <<>> \/ f[Len(f)].end = "newline"
  THEN Append(f, [events |-> events, end |-> end])
  ELSE [f EXCEPT ![Len(f)] = [events |-> @.events \o events, end |-> end]]

(***************************************************************************)
(* The operations.                                                         *)
(***************************************************************************)
\* create_execution asks for a "created" event, append for any other.
Begin(w, x, kind) ==
  /\ step[w] = "idle"
  /\ Len(file) < MaxLines
  /\ step' = [step EXCEPT ![w] = "opening"]
  /\ request' = [request EXCEPT ![w] = [sequence |-> 0, execution |-> x, kind |-> kind]]
  /\ UNCHANGED <<file, holder, acked>>

\* A shared lock keeps nobody out.
Lock_Shared(w) ==
  /\ step[w] = "opening"
  /\ holder' = w
  /\ step' = [step EXCEPT ![w] = "locked"]
  /\ UNCHANGED <<file, request, acked>>

Lock(w) ==
  /\ step[w] = "opening"
  /\ IF Locking THEN holder = Nobody /\ holder' = w ELSE UNCHANGED holder
  /\ step' = [step EXCEPT ![w] = "locked"]
  /\ UNCHANGED <<file, request, acked>>

\* Leaving _locked_file, also by an exception or with the process.
Leave(w) ==
  /\ step' = [step EXCEPT ![w] = "idle"]
  /\ request' = [request EXCEPT ![w] = NoRequest]
  /\ holder' = IF holder = w THEN Nobody ELSE holder

\* Does not look for the execution id.
MayWrite_AnyExecution(w) == Decodable(file)

MayWrite(w) ==
  /\ Decodable(file)
  /\ HasExecution(file, request[w].execution) <=> request[w].kind = "other"

\* _decode, the check for the execution id, and the write into the buffer.
Prepare(w) ==
  /\ step[w] = "locked"
  /\ MayWrite(w)
  /\ request' = [request EXCEPT ![w].sequence = Len(file) + 1]
  /\ step' = [step EXCEPT ![w] = "writing"]
  /\ UNCHANGED <<file, holder, acked>>

\* LedgerError
Reject(w) ==
  /\ step[w] = "locked"
  /\ ~MayWrite(w)
  /\ Leave(w)
  /\ UNCHANGED <<file, acked>>

Flush(w) ==
  /\ step[w] = "writing"
  /\ file' = Written(file, <<request[w]>>, "newline")
  /\ step' = [step EXCEPT ![w] = "closing"]
  /\ UNCHANGED <<holder, request, acked>>

\* The process or the disk gives up in the middle of the line, at best just
\* before its newline.
FlushTorn(w) ==
  /\ "tear" \in Faults
  /\ step[w] = "writing"
  /\ \/ file' = Written(file, <<request[w]>>, "none")
     \/ file' = Written(file, <<>>, "torn")
  /\ Leave(w)
  /\ UNCHANGED acked

Return(w) ==
  /\ step[w] = "closing"
  /\ acked' = acked \cup {request[w]}
  /\ Leave(w)
  /\ UNCHANGED file

Crash(w) ==
  /\ "crash" \in Faults
  /\ step[w] # "idle"
  /\ Leave(w)
  /\ UNCHANGED <<file, acked>>

Next ==
  \E w \in Writers :
    \/ \E x \in Executions, kind \in Kinds : Begin(w, x, kind)
    \/ Lock(w) \/ Prepare(w) \/ Reject(w) \/ Flush(w) \/ FlushTorn(w)
    \/ Return(w) \/ Crash(w)

Spec == Init /\ [][Next]_vars

(***************************************************************************)
(* Properties.                                                             *)
(***************************************************************************)
\* The shape of the state.
TypeOK ==
  /\ file \in Seq(Lines)
  /\ holder \in Writers \cup {Nobody}
  /\ step \in [Writers -> Steps]
  /\ request \in [Writers -> LogEvents]
  /\ acked \subseteq LogEvents

\* The ledger rejects corruption instead of guessing: if the file decodes,
\* every append that returned is in it, at its sequence number.
AckedOrRefused ==
  Decodable(file) =>
    \A e \in acked : e.sequence \in DOMAIN file /\ file[e.sequence].events[1] = e

\* create_execution reserves an id atomically: in a file that decodes, the
\* creation event of an execution is its first event and its only one.
ReservedOnce ==
  Decodable(file) =>
    \A i \in DOMAIN file :
      file[i].events[1].kind = "created" <=>
        \A j \in 1..(i - 1) : file[j].events[1].execution # file[i].events[1].execution

\* create_execution "atomically reserve[s] an execution id": it returns to at
\* most one caller for each id, whatever became of the file since.
ReservedForOne ==
  \A d, e \in acked :
    d.kind = "created" /\ e.kind = "created" /\ d.execution = e.execution => d = e

\* Under the lock the file is an event log: an operation adds its event in
\* one step or not at all, and damage is final.
Log == INSTANCE EventLog WITH log <- LoggedEvents(file), refused <- ~Decodable(file)

ImplementsLog == Log!Spec

=============================================================================
