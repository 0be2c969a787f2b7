----------------------------- MODULE MCIgObjects -----------------------------
(***************************************************************************)
(* IgObjects for TLC.  Codesections and regfiles have no dealings with     *)
(* pins and nets, nor with other modules: either the parts of one module   *)
(* are explored, or pins and nets of several.                              *)
(***************************************************************************)
EXTENDS IgQueries, IgObjectsInv, TLC

Symmetry == Permutations(ModName)

Alive(kinds) == {a \in Addr : kind[a] \in kinds}
PartsApart ==
  \/ Alive({"codesection", "regfile", "entry", "register"}) = {}
  \/ /\ Alive({"port", "pin", "declaration", "net", "resource"}) = {}
     /\ Cardinality(Alive({"module"})) <= 1
     /\ failed = {}

(* A reset of many objects is explored where a net is among them.          *)
MaxReset == 6
ResetsWorthwhile ==
  ~ clearing /\ clearing' =>
    Alive({"net"}) # {} \/ Cardinality(Alive(Kind)) <= MaxReset
=============================================================================
