-------------------------- MODULE MCSubscriptions --------------------------
EXTENDS Subscriptions
CONSTANTS s1, s2

Sub(triggers, fails, does) ==
  [triggers |-> triggers, fails |-> fails, does |-> does, remote |-> FALSE]
All == {"subscribe", "leave", "drop"}
None == Sub({}, FALSE, {})
Stays == Sub({"step"}, FALSE, {"subscribe"})
OverNet(sub) == [sub EXCEPT !.remote = TRUE]
Setup(a, b, steps, invokes, events) ==
  [sub |-> [s \in Streams |-> IF s = s1 THEN a ELSE b],
   steps |-> steps, invokes |-> invokes, events |-> events]

\* One client that does what it likes, here or over the network; two of which
\* one stays, and whose subscriptions differ, one failing, or asking for events.
MCSetups ==
  {Setup(Sub({"step"}, FALSE, All), None, 2, 1, 1),
   Setup(Sub({"event"}, FALSE, All), None, 1, 1, 2),
   Setup(OverNet(Sub({"step"}, FALSE, All)), None, 2, 0, 1),
   Setup(OverNet(Stays), None, 5, 0, 1),
   Setup(Stays, Stays, 2, 0, 1),
   Setup(Sub({"event"}, FALSE, {"subscribe"}), Stays, 2, 0, 1),
   Setup(Sub({"step"}, FALSE, {"subscribe", "leave"}), Stays, 1, 0, 1),
   Setup(Sub({"step"}, TRUE, {"subscribe", "leave"}), Stays, 2, 0, 1)}
=============================================================================
