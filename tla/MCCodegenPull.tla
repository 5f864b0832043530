--------------------------- MODULE MCCodegenPull ---------------------------
(* Instances of CodegenPull for TLC.                                       *)
EXTENDS CodegenPull, TLC

PullSymmetry == Permutations(Hashes) \cup Permutations(Keys)

=============================================================================
