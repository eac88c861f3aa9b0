----------------------------- MODULE MCTracing -----------------------------
(* The bulks and the bounds of the run of Tracing.                         *)
EXTENDS Tracing

\* One frame that passes; one that is dropped, after which the thread yields.
SomeBulks ==
  {[processed |-> 1, drops |-> 0, sched |-> FALSE],
   [processed |-> 0, drops |-> 1, sched |-> TRUE]}

\* No frame sent, and a driver that claims two where there was one.
SomeXmits ==
  {[sent |-> 0, drops |-> 1, err |-> TRUE], [sent |-> 2, drops |-> -1, err |-> FALSE]}

\* Enough for a hash that is full, and for two CPUs that add to one array.
SomeEvents == [tracing01 |-> 3, tracing02 |-> 2]
=============================================================================
