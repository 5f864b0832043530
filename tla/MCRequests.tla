----------------------------- MODULE MCRequests -----------------------------
(* The key of one user and an anonymous address. *)
EXTENDS Requests, TLC

CONSTANTS k1, ip, o1

MCOwnerOf == k1 :> o1 @@ ip :> NoOwner

MCSymmetry == Permutations(Reqs)

=============================================================================
