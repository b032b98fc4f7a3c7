----------------------------- MODULE WorkQueue ------------------------------
(***************************************************************************)
(* What a pool of workers promises: jobs are started in the order they     *)
(* were submitted, each of them once, by at most Limit workers at a time,  *)
(* and a closed queue takes no more jobs but keeps those it has.           *)
(***************************************************************************)
EXTENDS Integers, Sequences, FiniteSets

CONSTANTS Jobs, Limit

VARIABLES pending, running, finished, closed

vars == <<pending, running, finished, closed>>

Init == pending = << >> /\ running = {} /\ finished = {} /\ closed = FALSE

Known == {pending[i] : i \in DOMAIN pending} \cup running \cup finished

Submit(j) ==
  /\ ~closed /\ j \notin Known
  /\ pending' = Append(pending, j)
  /\ UNCHANGED <<running, finished, closed>>

Start ==
  /\ pending # << >>
  /\ Cardinality(running) < Limit
  /\ pending' = Tail(pending)
  /\ running' = running \cup {Head(pending)}
  /\ UNCHANGED <<finished, closed>>

Finish(j) ==
  /\ j \in running
  /\ running' = running \ {j}
  /\ finished' = finished \cup {j}
  /\ UNCHANGED <<pending, closed>>

Close == closed' = TRUE /\ UNCHANGED <<pending, running, finished>>

Next == (\E j \in Jobs : Submit(j) \/ Finish(j)) \/ Start \/ Close

Spec == Init /\ [][Next]_vars
=============================================================================
