---------------------------- MODULE MCModelPoll ----------------------------
(* Instances of ModelPoll for TLC.                                         *)
EXTENDS ModelPoll, TLC

CONSTANTS dated, p1, p2

(* One entry states a date, later than every poll's; the others none.       *)
MCStatedAt == [x \in Entries |-> IF x = dated THEN MaxPolls + 1 ELSE 0]

MCSymmetry == Permutations({p1, p2})

=============================================================================
