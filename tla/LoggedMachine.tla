---------------------------- MODULE LoggedMachine ----------------------------
(***************************************************************************)
(* ExecutionMachine and JsonlLedger together.  The ledger is the sequence  *)
(* of the lines in the file, a line stands for what replay reaches with    *)
(* it, and so the last one for all of them.  An append is three steps (the *)
(* line is written, fsync, return), and only then is the event applied to  *)
(* memory.  In between the process may die, the append may raise although  *)
(* its line is in the file, a line may be cut short, and the power may     *)
(* fail, which takes all lines that fsync has not reached.  An error of    *)
(* fsync is swallowed.  A file with a broken line is refused by everybody, *)
(* for good: nothing in the code repairs it.                               *)
(*                                                                         *)
(* The calls and the memory are those of ExecutionMachine, whose view of   *)
(* the ledger is here computed from the lines.                             *)
(***************************************************************************)
EXTENDS KernelInvariants, Sequences

CONSTANTS
  Procs,          \* as in ExecutionMachine
  PlanIndex,
  Exclusive,
  DenialReasons,
  Discards,       \* the adapter drops a machine when a call has raised
  Faults,         \* of "exit", "crash", "early", "late", "tear", "power", "nosync"
  MaxLosses       \* bound: power failures

ASSUME LoggedAssumption ==
  /\ PlanIndex \in [Stages -> Nat]
  /\ Exclusive \in BOOLEAN /\ Discards \in BOOLEAN
  /\ Faults \subseteq {"exit", "crash", "early", "late", "tear", "power", "nosync"}
  /\ MaxLosses \in Nat

VARIABLES
  live, mem, todo, interrupted,   \* as in ExecutionMachine
  file,       \* the lines of the execution, each as what replay reaches with it
  end,        \* how the file ends: "newline", without one ("bare"), or "damaged"
  step,       \* [Procs -> "none", "flushed" or "synced": where its append is]
  synced,     \* how many lines have been through fsync
  lossy,      \* an error of fsync was swallowed
  losses,     \* power failures so far
  started,    \* [UnitRefs -> how often start_unit has sent off a worker]
  confirmed   \* units whose completion some process has been told

machineVars == <<live, mem, todo, interrupted>>
ledgerVars == <<file, end, synced, lossy, losses>>
vars == <<machineVars, ledgerVars, step, started, confirmed>>

(***************************************************************************)
(* replay: every event is validated in the state its predecessors make.    *)
(***************************************************************************)
ReplayEvent(replayed, e) ==
  LET legal == replayed.ok /\ ValidateEvent(replayed.state, e)
  IN [ok |-> legal,
      state |-> IF legal THEN ApplyEvent(replayed.state, e) ELSE replayed.state]

\* What the lines amount to, one by one, whether or not the file decodes.
History == IF file = <<>> THEN [ok |-> TRUE, state |-> NewMachine] ELSE file[Len(file)]

\* What ExecutionMachine.replay makes of the file: read refuses a damaged one.
Replayed == [ok |-> History.ok /\ end # "damaged", state |-> History.state]

API == INSTANCE ExecutionMachine WITH
  view <- History.state, replayable <- History.ok,
  Faults <- {"exit", "crash", "append"}

Created == [type |-> "execution.created"]

Init ==
  /\ file = <<>>
  /\ API!Init
  /\ end = "newline"
  /\ step = [p \in Procs |-> "none"]
  /\ synced = 0
  /\ lossy = FALSE
  /\ losses = 0
  /\ started = [r \in UnitRefs |-> 0]
  /\ confirmed = {}

(***************************************************************************)
(* Obtaining a machine and losing it.                                      *)
(***************************************************************************)
\* create_execution returns after its fsync.
Create(p) ==
  /\ API!MayOpen(p)
  /\ end # "damaged"
  /\ file = <<>>
  /\ live' = live \cup {p}
  /\ mem' = [mem EXCEPT ![p] = ApplyEvent(NewMachine, Created)]
  /\ file' = <<ReplayEvent(History, Created)>>
  /\ \/ synced' = 1 /\ UNCHANGED lossy
     \/ "nosync" \in Faults /\ ~lossy   \* bound: once
        /\ lossy' = TRUE /\ UNCHANGED synced
  /\ UNCHANGED <<todo, interrupted, end, losses, step, started, confirmed>>

\* It raises or dies, and leaves its line without fsync, or a part of it.
CreateFails(p) ==
  /\ API!MayOpen(p)
  /\ end # "damaged"
  /\ file = <<>>
  /\ \/ /\ Faults \cap {"crash", "late"} # {}
        /\ file' = <<ReplayEvent(History, Created)>>
        /\ UNCHANGED end
     \/ /\ "tear" \in Faults
        /\ file' = <<ReplayEvent(History, Created)>>
        /\ end' = "bare"
     \/ /\ "tear" \in Faults
        /\ UNCHANGED file
        /\ end' = "damaged"
  /\ UNCHANGED <<machineVars, synced, lossy, losses, step, started, confirmed>>

Replay(p) ==
  /\ API!MayOpen(p)
  /\ file # <<>> /\ Replayed.ok
  /\ live' = live \cup {p}
  /\ mem' = [mem EXCEPT ![p] = Replayed.state]
  /\ UNCHANGED <<todo, interrupted, ledgerVars, step, started, confirmed>>

\* The machine is gone, or stays with its call abandoned.
Lose(p) ==
  /\ live' = live \ {p}
  /\ mem' = [mem EXCEPT ![p] = NewMachine]
  /\ todo' = [todo EXCEPT ![p] = <<>>]
  /\ step' = [step EXCEPT ![p] = "none"]
  /\ UNCHANGED <<started, confirmed>>

Raise(p) ==
  /\ interrupted' = TRUE
  /\ IF Discards THEN Lose(p)
     ELSE /\ todo' = [todo EXCEPT ![p] = <<>>]
          /\ step' = [step EXCEPT ![p] = "none"]
          /\ UNCHANGED <<live, mem, started, confirmed>>

Exit(p) ==
  /\ "exit" \in Faults
  /\ p \in live
  /\ todo[p] = <<>>
  /\ Lose(p)
  /\ UNCHANGED <<interrupted, ledgerVars>>

\* The line of the event may already be in the file.
Crash(p) ==
  /\ "crash" \in Faults
  /\ todo[p] # <<>>
  /\ interrupted' = (interrupted \/ step[p] = "none" \/ Len(todo[p]) > 1)
  /\ Lose(p)
  /\ UNCHANGED ledgerVars

(***************************************************************************)
(* The calls, and what they do between two appends.                        *)
(***************************************************************************)
Work(p) ==
  /\ UNCHANGED <<ledgerVars, step, started, confirmed>>
  /\ API!Work(p) \/ API!Cancel(p)

Between(p) ==
  /\ step[p] = "none"
  /\ UNCHANGED <<ledgerVars, step, started, confirmed>>
  /\ \/ \E s \in Stages : API!MaterializeStage(p, s)
     \/ API!MaterializedAll(p)
     \/ API!FinishCall(p)

\* TransitionError in _emit.
Refuse(p) ==
  /\ API!Emitting(p)
  /\ step[p] = "none"
  /\ ~ValidateEvent(mem[p], Head(todo[p]))
  /\ Raise(p)
  /\ UNCHANGED ledgerVars

(***************************************************************************)
(* _emit, with the append inside it.  The file is locked from the decoding *)
(* to the close.                                                           *)
(***************************************************************************)
Appending(p) ==
  /\ API!Emitting(p)
  /\ step[p] = "none"
  /\ ValidateEvent(mem[p], Head(todo[p]))
  /\ \A q \in Procs : step[q] # "flushed"

\* The second flush, in close, repeats the line.
Appended_Twice(e) ==
  LET line == ReplayEvent(History, e) IN file \o <<line, ReplayEvent(line, e)>>

Appended(e) == Append(file, ReplayEvent(History, e))

\* A line that follows one without a newline is glued to it.
Flush(p) ==
  /\ Appending(p)
  /\ end # "damaged"
  /\ file' = Appended(Head(todo[p]))
  /\ end' = IF end = "bare" THEN "damaged" ELSE end
  /\ step' = [step EXCEPT ![p] = "flushed"]
  /\ UNCHANGED <<machineVars, synced, lossy, losses, started, confirmed>>

\* fsync without the flush before it.
Durable_NoFlush == Len(file) - 1

\* fsync comes after the flush.
Durable == Len(file)

Sync(p) ==
  /\ step[p] = "flushed"
  /\ step' = [step EXCEPT ![p] = "synced"]
  /\ \/ synced' = Durable /\ UNCHANGED lossy
     \/ "nosync" \in Faults /\ ~lossy   \* bound: once
        /\ lossy' = TRUE /\ UNCHANGED synced
  /\ UNCHANGED <<machineVars, file, end, losses, started, confirmed>>

\* append has returned; _apply_event.
Apply(p) ==
  LET e == Head(todo[p]) IN
  /\ step[p] = "synced"
  /\ mem' = [mem EXCEPT ![p] = ApplyEvent(@, e)]
  /\ todo' = [todo EXCEPT ![p] = Tail(@)]
  /\ step' = [step EXCEPT ![p] = "none"]
  /\ started' = IF e.type = "unit.started" THEN [started EXCEPT ![e.unit] = @ + 1] ELSE started
  /\ confirmed' = IF e.type = "unit.completed" THEN confirmed \cup {e.unit} ELSE confirmed
  /\ UNCHANGED <<live, interrupted, ledgerVars>>

(***************************************************************************)
(* Failures of an append.                                                  *)
(***************************************************************************)
\* It raises before it writes: the file does not decode, or cannot be opened.
FailEarly(p) ==
  /\ Appending(p)
  /\ "early" \in Faults \/ end = "damaged"
  /\ Raise(p)
  /\ UNCHANGED ledgerVars

\* The close raises: the line is in the file, memory does not have the event.
FailLate(p) ==
  /\ "late" \in Faults
  /\ step[p] \in {"flushed", "synced"}
  /\ Raise(p)
  /\ UNCHANGED ledgerVars

\* The disk takes a part of the line, at best all of it but its newline.
Tear(p) ==
  /\ "tear" \in Faults
  /\ Appending(p)
  /\ end # "damaged"
  /\ \/ file' = file /\ end' = "damaged"
     \/ file' = Appended(Head(todo[p])) /\ end' = IF end = "bare" THEN "damaged" ELSE "bare"
  /\ Raise(p)
  /\ UNCHANGED <<synced, lossy, losses>>

\* Every process dies, and any of the lines that fsync has not reached are
\* lost, perhaps in the middle of one.
PowerLoss ==
  /\ "power" \in Faults
  /\ losses < MaxLosses
  /\ losses' = losses + 1
  /\ \E n \in synced..Len(file) :
       /\ file' = SubSeq(file, 1, n)
       /\ end' \in IF n = Len(file) THEN {end}
                   ELSE {"newline", "damaged"} \cup (IF n > synced THEN {"bare"} ELSE {})
  /\ live' = {}
  /\ mem' = [p \in Procs |-> NewMachine]
  /\ todo' = [p \in Procs |-> <<>>]
  /\ step' = [p \in Procs |-> "none"]
  /\ interrupted' = (interrupted \/ \E p \in Procs : todo[p] # <<>>)
  /\ UNCHANGED <<synced, lossy, started, confirmed>>

Next ==
  \/ \E p \in Procs :
       \/ Create(p) \/ CreateFails(p) \/ Replay(p) \/ Exit(p) \/ Crash(p)
       \/ Work(p) \/ Between(p) \/ Refuse(p)
       \/ Flush(p) \/ Sync(p) \/ Apply(p)
       \/ FailEarly(p) \/ FailLate(p) \/ Tear(p)
  \/ PowerLoss

Spec == Init /\ [][Next]_vars

(***************************************************************************)
(* Properties.                                                             *)
(***************************************************************************)
\* The shape of the state; a process is in an append only for an event it has
\* still to apply, and an append that returns has made its line durable, and
\* all lines before it, unless an error of fsync was swallowed.
TypeOK ==
  /\ live \subseteq Procs
  /\ mem \in [Procs -> Machine]
  /\ todo \in [Procs -> Seq(API!Tasks)]
  /\ interrupted \in BOOLEAN
  /\ file \in Seq([ok : BOOLEAN, state : Machine])
  /\ end \in {"newline", "bare", "damaged"}
  /\ step \in [Procs -> {"none", "flushed", "synced"}]
  /\ synced \in 0..Len(file)
  /\ losses \in 0..MaxLosses
  /\ started \in [UnitRefs -> Nat]
  /\ confirmed \subseteq UnitRefs
  /\ \A p \in Procs : step[p] # "none" => p \in live /\ API!Emitting(p)
  /\ Exclusive /\ ~lossy => \A p \in Procs : step[p] = "synced" => synced = Len(file)

\* Memory with the event whose append is under way, and what is left then.
MemoryWith(p) ==
  IF step[p] = "none" THEN mem[p] ELSE ApplyEvent(mem[p], Head(todo[p]))

TodoWithout(p) == IF step[p] = "none" THEN todo[p] ELSE Tail(todo[p])

(***************************************************************************)
(* With one machine at a time, which its adapter drops when a call raises, *)
(* a file that decodes replays, and to the memory of the machine, but for  *)
(* the event that is just being appended: through crashes, late errors,    *)
(* lines without their newline and power failures.  (Of a file that does   *)
(* not decode it says nothing: replay and every append raise LedgerError,  *)
(* also when the glued append had returned.)                               *)
(***************************************************************************)
MemoryIsReplay ==
  Exclusive /\ Discards /\ end # "damaged" =>
    Replayed.ok /\ \A p \in live : MemoryWith(p) = Replayed.state

(***************************************************************************)
(* What a call has told its caller is not taken back: unless an error of   *)
(* fsync was swallowed, every unit somebody was told is completed is       *)
(* completed for whoever replays the ledger after a crash or a power       *)
(* failure, and is not run again.  (A damaged file nobody replays: there   *)
(* the unit is not run again because nothing is.)                          *)
(***************************************************************************)
ConfirmedSurvives ==
  Exclusive /\ Discards /\ ~lossy /\ end # "damaged" =>
    \A r \in confirmed : Replayed.state.unit[r].status = "completed"

(***************************************************************************)
(* maxAttempts as the workers see it: start_unit sends off a worker no     *)
(* more than maxAttempts times, whatever is lost and replayed in between,  *)
(* because it returns only when the start is durable.                      *)
(***************************************************************************)
StartsWithinBudget ==
  Exclusive /\ ~lossy => \A r \in UnitRefs : started[r] <= MaxAttempts[StageOf(r)]

(***************************************************************************)
(* The ledger that ExecutionMachine sees in one step is a correct view of  *)
(* the file: with the event under way taken as applied, the composition    *)
(* starts as ExecutionMachine does and each step is one of its steps or    *)
(* none of its concern, but for the two it does not have: an append that   *)
(* raises when its line is in the file, and the loss of lines.  The view   *)
(* is of the lines, also when they are in a file that does not decode.     *)
(***************************************************************************)
Seen == INSTANCE ExecutionMachine WITH
  mem <- [p \in Procs |-> MemoryWith(p)], todo <- [p \in Procs |-> TodoWithout(p)],
  view <- History.state, replayable <- History.ok,
  Faults <- {"exit", "crash", "append"}

RaisedLate ==
  \E p \in Procs : FailLate(p) \/ ((Tear(p) \/ CreateFails(p)) /\ file' # file)

ImplementsMachine ==
  Seen!Init /\ [][Seen!Next \/ RaisedLate \/ PowerLoss]_(Seen!vars)

=============================================================================
