--------------------------- MODULE RegfileNumbers ---------------------------
(* A number is the set of the positions of its ones. *)

(* old with the bits of mask taken from value *)
Merge(old, value, mask) == (old \ mask) \cup (value \cap mask)
=============================================================================
