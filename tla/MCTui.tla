------------------------------- MODULE MCTui -------------------------------
(* Instances of Tui for TLC. *)
EXTENDS Tui

MCCallers  == {Worker, Sender, Compactor, Pump}
MCSymmetry == Permutations(Requests)
=============================================================================
