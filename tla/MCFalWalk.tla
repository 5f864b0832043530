------------------------------ MODULE MCFalWalk ------------------------------
(* Instances of FalWalk for TLC.                                           *)
EXTENDS FalWalk

(* Rows 1 and 2 share a Pricing section; every other page has its own.      *)
MCSection == [r \in Candidates |-> IF r = 2 THEN 1 ELSE r]
=============================================================================
