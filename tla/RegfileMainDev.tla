--------------------------- MODULE RegfileMainDev ---------------------------
(***************************************************************************)
(* What the two caches of the C++ host library share: the device behind    *)
(* them (main_dev) and its calls.  main_dev is any device that implements  *)
(* RegisterFile; the library runs in one thread, so that a call is one     *)
(* step.                                                                   *)
(***************************************************************************)
EXTENDS RegfileNumbers

CONSTANTS Word, Bit,
          Writable      \* Writable[w]: the bits of w a bus write can change

ASSUME MainDevAssumption == Writable \in [Word -> SUBSET Bit]

(* main_dev.rfdev_write *)
Written(h, w, value, mask) == [h EXCEPT ![w] = Merge(@, value, mask \cap Writable[w])]

Registers == [Word -> SUBSET Bit]

WriteCall(w, value, mask) == [op |-> "write", word |-> w, value |-> value, mask |-> mask]

(* The hardware drives the bits that the bus cannot write. *)
Driven(h, w, value) == [h EXCEPT ![w] = Merge(@, value, Bit \ Writable[w])]
=============================================================================
