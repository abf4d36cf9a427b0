------------------------------ MODULE MCPanel ------------------------------
(* Panel for TLC: what is interchangeable on the screen. *)
EXTENDS Panel, TLC

Symmetry == Permutations(Products) \cup Permutations(Models) \cup Permutations(Sources)
=============================================================================
