----------------------------- MODULE StatsLedger -----------------------------
(***************************************************************************)
(* What a program that shows statistics promises about the counters it     *)
(* reads while others count: it never shows what has not been counted, and *)
(* what it has shown it does not take back.                                *)
(***************************************************************************)
EXTENDS Naturals

CONSTANT Entry     \* the counters

VARIABLES
  counted,  \* counted[e]: what has been counted in e
  known     \* known[e]: the newest reading of e

vars == <<counted, known>>

Init ==
  /\ counted = [e \in Entry |-> 0]
  /\ known = [e \in Entry |-> 0]

Count ==
  /\ known' = known
  /\ \A e \in Entry : counted'[e] \in Nat /\ counted'[e] >= counted[e]

\* What is counted while a reading goes from CPU to CPU may be in it or not.
Read ==
  /\ counted' = counted
  /\ \A e \in Entry : known'[e] \in known[e] .. counted[e]

Next == Read \/ Count

Spec == Init /\ [][Next]_vars
=============================================================================
