----------------------------- MODULE MCDelivery -----------------------------
(* Instances of Delivery for TLC: every subscription wants every change.   *)
EXTENDS Delivery, TLC

MCWants == [s \in Subs |-> Changes]

(* Changes are interchangeable here, and so are ticks and delivery ids.     *)
DeliverySymmetry ==
    Permutations(Changes) \cup Permutations(Ticks) \cup Permutations(Copies)
=============================================================================
