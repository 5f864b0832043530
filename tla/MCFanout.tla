------------------------------ MODULE MCFanout ------------------------------
(* Instances of Fanout for TLC: every subscription wants every change.     *)
EXTENDS Fanout, TLC

MCWants == [s \in Subs |-> Changes]

(* Delivery ids are interchangeable.                                        *)
CopySymmetry == Permutations(Copies)
=============================================================================
