------------------------------- MODULE IgNull -------------------------------
(* The null pointer that the hierarchy and the heap of objects share. *)
CONSTANT NULL
=============================================================================
