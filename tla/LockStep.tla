------------------------------ MODULE LockStep ------------------------------
(***************************************************************************)
(* What the leader promises the cluster: simulation steps are rounds.      *)
(* A round engages a set of workers, each engaged worker moves its clock   *)
(* exactly once, and the leader's clock counts the round only when every   *)
(* engaged worker that is still within reach has moved.  No clock moves    *)
(* outside a round, except that a worker which was cut off from the leader *)
(* in the middle of a round may still finish the one step it was given.    *)
(*                                                                         *)
(* StepRound implements this specification when a single task drives the   *)
(* leader (see StepRound!Abstract).                                        *)
(***************************************************************************)
EXTENDS Integers

CONSTANT Workers   \* worker ids

VARIABLES
  leaderClock,     \* number of completed rounds, as the leader counts them
  clock,           \* clock[w]: the simulation clock of worker w
  round,           \* workers engaged in the current round, {} between rounds
  moved,           \* the engaged, reachable workers that have moved
  cutOff,          \* workers the leader cannot reach any more
  owing            \* cut-off workers with one engaged step still to perform

vars == <<leaderClock, clock, round, moved, cutOff, owing>>

Init ==
  /\ leaderClock = 0
  /\ clock = [w \in Workers |-> 0]
  /\ round = {} /\ moved = {} /\ cutOff = {} /\ owing = {}

\* The leader engages a set of workers.
Begin(W) ==
  /\ round = {} /\ W # {}
  /\ round' = W
  /\ UNCHANGED <<leaderClock, clock, moved, cutOff, owing>>

\* An engaged worker moves its clock by one, once per round.
Move(w) ==
  /\ w \in round \ (moved \union cutOff)
  /\ clock' = [clock EXCEPT ![w] = @ + 1]
  /\ moved' = moved \union {w}
  /\ UNCHANGED <<leaderClock, round, cutOff, owing>>

\* A worker cut off in the middle of its step performs it anyway.
MoveLate(w) ==
  /\ w \in owing
  /\ clock' = [clock EXCEPT ![w] = @ + 1]
  /\ owing' = owing \ {w}
  /\ UNCHANGED <<leaderClock, round, moved, cutOff>>

\* Every reachable engaged worker has moved: the round counts.
End ==
  /\ round # {}
  /\ round \ cutOff \subseteq moved
  /\ leaderClock' = leaderClock + 1
  /\ round' = {} /\ moved' = {}
  /\ UNCHANGED <<clock, cutOff, owing>>

\* The leader loses its connection to a worker.
Lose(w) ==
  /\ w \notin cutOff
  /\ cutOff' = cutOff \union {w}
  /\ moved' = moved \ {w}
  /\ owing' = IF w \in round \ moved THEN owing \union {w} ELSE owing
  /\ UNCHANGED <<leaderClock, clock, round>>

Next ==
  \/ \E W \in SUBSET Workers : Begin(W)
  \/ \E w \in Workers : Move(w) \/ MoveLate(w) \/ Lose(w)
  \/ End

Spec == Init /\ [][Next]_vars
=============================================================================
