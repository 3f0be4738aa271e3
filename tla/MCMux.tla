-------------------------------- MODULE MCMux -------------------------------
(* Instances of Mux for TLC.  Openers are interchangeable. *)
EXTENDS Mux

Symmetry == Permutations(Openers)
=============================================================================
