-------------------------- MODULE MCRegfileEntries --------------------------
(* RegfileEntries for TLC: names are model values, interchangeable. *)
EXTENDS RegfileEntries, TLC

Symmetry == Permutations(EntryName)
=============================================================================
