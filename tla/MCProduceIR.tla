---------------------------- MODULE MCProduceIR ----------------------------
(***************************************************************************)
(* Running the code of the small programs.                                 *)
(***************************************************************************)
EXTENDS IRMachine, MCPrograms
=============================================================================
