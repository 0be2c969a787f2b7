--------------------------- MODULE MCRegfileDevice ---------------------------
(***************************************************************************)
(* RegfileDevice for TLC: words of four bytes of one bit each, writable at *)
(* bits 0, 1 and 3, with a status at bit 2; behind a simple and a subword  *)
(* device each one word that the cpu has for itself, and one that it       *)
(* shares with the host and that is written without being read.  The last  *)
(* one has the default write mask -1.                                      *)
(***************************************************************************)
EXTENDS RegfileDevice, TLC
CONSTANTS cpu, host, own_simple, own_subword, shared_simple, shared_subword

MCWritable == [w \in Word |-> {0, 1, 3}]
MCWriteMask == [w \in Word |-> IF w = shared_subword THEN Bits ELSE {0, 1, 3}]
MCValue == {{0, 2}, {1, 3, Beyond}}
OwnMasks == {{}, {0}, {0, 3}, {1, 2}, {0, 1, 3}, Bits}
SharedMasks == shared_simple :> {{0, 1, 3}} @@ shared_subword :> {{3}, {0, 1}}
MCMasks == [m \in Master |-> [w \in Word |->
              IF w \in DOMAIN SharedMasks THEN SharedMasks[w]
              ELSE IF m = cpu THEN OwnMasks ELSE {}]]

ASSUME Undisturbed

(* One word at a time holds ones. *)
OneWord == \E w \in Word : \A v \in Word \ {w} : hw[v] = {}
=============================================================================
