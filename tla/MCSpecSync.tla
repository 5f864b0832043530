----------------------------- MODULE MCSpecSync -----------------------------
(* Instances of SpecSync for TLC.                                          *)
EXTENDS SpecSync, TLC

CONSTANT e1

(* Specs in which only e1 states schemas: none, or one document as both its *)
(* input schema and its stream schema.                                      *)
MCSpecs ==
    {spec \in {[endpoints |-> E, hash |-> [d \in D |-> h]] :
                    E \in SUBSET Endpoints, D \in {{}, {e1} \X Kinds}, h \in Hashes} :
        IsSpec(spec)}

SyncSymmetry == Permutations(Hashes) \cup Permutations(Syncs)
=============================================================================
