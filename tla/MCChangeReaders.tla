--------------------------- MODULE MCChangeReaders ---------------------------
(* Instances of ChangeReaders for TLC.                                     *)
EXTENDS ChangeReaders

MCSections == <<"models">>

=============================================================================
