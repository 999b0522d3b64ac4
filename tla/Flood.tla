------------------------------- MODULE Flood -------------------------------
(***************************************************************************)
(* What a broadcast promises its caller while no call of it fails: every   *)
(* member of the group has handled the signal by the time the caller gets  *)
(* its answer, however the signal travels; and always, that nobody else    *)
(* handles it. Abstract specification of Signals, for invocations.         *)
(***************************************************************************)
VARIABLES
  group,     \* the workers the signal is for
  handled,   \* those that have handled it
  closed     \* the caller has its answer, and no call has failed

vars == <<group, handled, closed>>

Init == handled = {} /\ closed = FALSE

\* A further member handles the signal.
Handle ==
  /\ ~closed
  /\ \E w \in group \ handled : handled' = handled \cup {w}
  /\ UNCHANGED <<group, closed>>

\* The caller is answered, as the last member handles the signal. Handlers that
\* are still busy with it go on, but no worker is new to it.
Close ==
  /\ ~closed
  /\ \E w \in group : handled \cup {w} = group
  /\ handled' = group
  /\ closed' = TRUE
  /\ UNCHANGED group

Next == Handle \/ Close

Spec == Init /\ [][Next]_vars
============================================================================
