----------------------------- MODULE MCProgram -----------------------------
(* Program on a small instance: the programs of AllPrograms. *)
EXTENDS Program
=============================================================================
