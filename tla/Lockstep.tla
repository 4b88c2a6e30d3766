------------------------------ MODULE Lockstep ------------------------------
(***************************************************************************)
(* What the barriers of a ceremony promise: parties go through the phases  *)
(* in order, and one leaves a phase only when every other has reached it.  *)
(* Not every party has something to give in an Optional phase: there one   *)
(* may be a phase behind.                                                  *)
(***************************************************************************)
EXTENDS Integers

CONSTANTS Parties, Last, Optional

VARIABLE at

Init == at = [p \in Parties |-> 0]

Lag(k) == IF k \in Optional THEN 1 ELSE 0

Advance(p) ==
  /\ at[p] < Last
  /\ \A q \in Parties : at[q] >= at[p] - Lag(at[p])
  /\ at' = [at EXCEPT ![p] = @ + 1]

Next == \E p \in Parties : Advance(p)

Spec == Init /\ [][Next]_at
=============================================================================
