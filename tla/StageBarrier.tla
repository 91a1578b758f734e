---------------------------- MODULE StageBarrier ----------------------------
(***************************************************************************)
(* What an execution promises about its stages, whatever its units do: a   *)
(* stage opens only after every stage it needs has finished, a finished    *)
(* stage stays finished, and the execution succeeds only when every stage  *)
(* has finished.  Once it has an outcome nothing moves any more.           *)
(***************************************************************************)
CONSTANTS Stages, Needs

VARIABLES
  opened,     \* stages with at least one work unit
  finished,   \* stages whose expansion is sealed and whose units are satisfied
  outcome     \* "open", "succeeded" or "stopped" (failed or cancelled)

barrierVars == <<opened, finished, outcome>>

Init ==
  /\ opened = {}
  /\ finished = {}
  /\ outcome = "open"

Open(s) ==
  /\ outcome = "open"
  /\ s \notin opened
  /\ Needs[s] \subseteq finished
  /\ opened' = opened \cup {s}
  /\ UNCHANGED <<finished, outcome>>

Finish(s) ==
  /\ outcome = "open"
  /\ s \in opened \ finished
  /\ finished' = finished \cup {s}
  /\ UNCHANGED <<opened, outcome>>

Succeed ==
  /\ outcome = "open"
  /\ finished = Stages
  /\ outcome' = "succeeded"
  /\ UNCHANGED <<opened, finished>>

Stop ==
  /\ outcome = "open"
  /\ outcome' = "stopped"
  /\ UNCHANGED <<opened, finished>>

Next ==
  \/ \E s \in Stages : Open(s) \/ Finish(s)
  \/ Succeed
  \/ Stop

Spec == Init /\ [][Next]_barrierVars

=============================================================================
