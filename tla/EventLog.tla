------------------------------ MODULE EventLog ------------------------------
(***************************************************************************)
(* What a ledger file promises: one sequence of events, numbered from 1    *)
(* without gaps, to which an operation adds at most one event.  An         *)
(* execution id is reserved by its creation event, exactly once, and only  *)
(* a reserved execution gets more events.  A ledger that was damaged       *)
(* refuses every operation, for good.                                      *)
(***************************************************************************)
EXTENDS Naturals, Sequences

CONSTANT Executions

VARIABLES
  log,        \* the events a reader gets
  refused     \* the file no longer decodes

logVars == <<log, refused>>

Event(x, kind) == [sequence |-> Len(log) + 1, execution |-> x, kind |-> kind]

Reserved(x) == \E i \in DOMAIN log : log[i].execution = x

Init == log = <<>> /\ refused = FALSE

Reserve(x) ==
  /\ ~refused
  /\ ~Reserved(x)
  /\ log' = Append(log, Event(x, "created"))
  /\ UNCHANGED refused

Extend(x) ==
  /\ ~refused
  /\ Reserved(x)
  /\ log' = Append(log, Event(x, "other"))
  /\ UNCHANGED refused

Damage ==
  /\ ~refused
  /\ refused' = TRUE
  /\ UNCHANGED log

Next == (\E x \in Executions : Reserve(x) \/ Extend(x)) \/ Damage

Spec == Init /\ [][Next]_logVars

=============================================================================
