---------------------------- MODULE RegisterFile ----------------------------
(***************************************************************************)
(* What the register access of icglue promises to a test or a program: a   *)
(* write changes, at one instant, the masked bits of one word to the bits  *)
(* of its value and nothing else, and a read answers what the word holds.  *)
(* RegfileDevice, the two caches and RegfileApb implement it.              *)
(***************************************************************************)
EXTENDS RegfileNumbers

CONSTANTS Word,         \* the words (addresses) of a register file
          Bit,          \* the positions of bits in a word
          Writable,     \* Writable[w]: the bits that a bus write can change
          Value, Mask   \* the numbers written, and the masks

VARIABLES reg,          \* reg[w]: what word w holds
          last          \* the access that ended last

registerVars == <<reg, last>>

RegisterInit == /\ reg \in [Word -> SUBSET Bit]
                /\ last = [op |-> "none"]

Write(w, value, mask) ==
  /\ last' = [op |-> "write", word |-> w, value |-> value, mask |-> mask]
  /\ reg' = [reg EXCEPT ![w] = Merge(@, value, mask \cap Writable[w])]

Read(w) ==
  /\ last' = [op |-> "read", word |-> w, value |-> reg[w]]
  /\ UNCHANGED reg

(* The hardware drives the bits that the bus cannot write. *)
Drive(w, value) ==
  /\ UNCHANGED last
  /\ reg' = [reg EXCEPT ![w] = Merge(@, value, Bit \ Writable[w])]

RegisterNext ==
  \E w \in Word :
    \/ Read(w)
    \/ \E value \in SUBSET Bit : Drive(w, value)
    \/ \E value \in Value, mask \in Mask : Write(w, value, mask)

RegisterSpec == RegisterInit /\ [][RegisterNext]_registerVars
=============================================================================
