---------------------------- MODULE RegfileDevice ----------------------------
(***************************************************************************)
(* The devices through which generated register files reach the hardware:  *)
(* RegfileDevSimple and RegfileDevSubword of regfile_device.py, with their *)
(* counterparts regfile_dev_simple and regfile_dev_subword of the C++ host *)
(* library.  A write that leaves writable bits of the word alone is made   *)
(* of a read and a write of the whole word, unless a subword can be found  *)
(* that holds the written bits and no other writable one.                  *)
(*                                                                         *)
(* A number is the set of the positions of its ones; the position Beyond   *)
(* stands for all the positions past the word, so that -1, the default of  *)
(* the masks, is all positions and ~x the others than those of x.          *)
(***************************************************************************)
EXTENDS Integers, RegfileNumbers

CONSTANTS Word,         \* addresses of words
          WordBytes,    \* bytes_per_word
          ByteBits,     \* bits of a byte
          Size,         \* the sizes a word is halved to, in bytes
          Writable,     \* Writable[w]: what the hardware lets the bus write
          WriteMask,    \* WriteMask[w]: write_mask of the entry, or -1
          Value,        \* numbers that are written
          Master,       \* those who use the bus
          Masks,        \* Masks[m][w]: the masks m writes w with
          Subword,      \* words behind a RegfileDevSubword, not a RegfileDevSimple
          None

Beyond == WordBytes * ByteBits
WordBits == 0 .. Beyond - 1
Bits == WordBits \cup {Beyond}
Flipped(x) == Bits \ x
Number == SUBSET Bits

ASSUME SizeAssumption ==
  /\ WordBytes \in Nat \ {0} /\ ByteBits \in Nat \ {0}
  /\ WordBytes \in Size /\ Size \subseteq 1 .. WordBytes
ASSUME MaskAssumption ==
  /\ Writable \in [Word -> SUBSET WordBits]
  /\ WriteMask \in [Word -> Number]
  /\ \A w \in Word : Writable[w] \subseteq WriteMask[w]
  /\ Value \subseteq Number
  /\ Masks \in [Master -> [Word -> SUBSET Number]]
ASSUME SubwordAssumption == Subword \subseteq Word

Call == [word : Word, value : Number, mask : Number]

ASSUME NoneAssumption == None \notin Call

VARIABLES hw,           \* the registers: hw[w]
          call,         \* call[m]: the write m is in, or None
          fetched,      \* fetched[m]: the word has been read for it
          rmw_value,    \* rmw_value[m]: what was read, {} before
          last          \* the last call that returned

deviceVars == <<hw, call, fetched, rmw_value, last>>

DeviceInit == /\ hw \in [Word -> SUBSET WordBits]
              /\ call = [m \in Master |-> None]
              /\ fetched = [m \in Master |-> FALSE]
              /\ rmw_value = [m \in Master |-> {}]
              /\ last = [op |-> "none"]

-----------------------------------------------------------------------------
(* The writable bits that a call must leave alone. *)
Keep(c) == Flipped(c.mask) \cap WriteMask[c.word]

(* The bits of the i-th subword of n bytes. *)
Lane(n, i) == {b \in WordBits : n * i * ByteBits <= b /\ b < n * (i + 1) * ByteBits}

Place == {p \in Size \X (0 .. WordBytes - 1) : p[1] * (p[2] + 1) <= WordBytes}

(* Fault: the bits to keep are not looked at. *)
Fits_KeepIgnored(c, p) == c.mask \subseteq Lane(p[1], p[2])

Fits(c, p) == /\ Keep(c) \cap Lane(p[1], p[2]) = {}
              /\ c.mask \subseteq Lane(p[1], p[2])

(* The search goes from the whole word to smaller sizes and, in a size,    *)
(* from the lowest subword up.                                             *)
Before(p, q) == p[1] > q[1] \/ (p[1] = q[1] /\ p[2] <= q[2])

FirstFit(c) == CHOOSE p \in Place : Fits(c, p) /\ \A q \in Place : Fits(c, q) => Before(p, q)

Direct(c) == IF c.word \in Subword THEN \E p \in Place : Fits(c, p) ELSE Keep(c) = {}
Target(c) == IF c.word \in Subword THEN FirstFit(c) ELSE <<WordBytes, 0>>

(* rfdev_write_simple, rfdev_write_subword: the bus write, in which the    *)
(* hardware takes the writable bits of the subword from the value.         *)
Store(w, p, value) ==
  hw' = [hw EXCEPT ![w] = Merge(@, value, Lane(p[1], p[2]) \cap Writable[w])]

(* The end of a call. *)
Return(m) ==
  /\ call' = [call EXCEPT ![m] = None]
  /\ fetched' = [fetched EXCEPT ![m] = FALSE]
  /\ rmw_value' = [rmw_value EXCEPT ![m] = {}]
  /\ last' = [op |-> "write", word |-> call[m].word,
              value |-> call[m].value, mask |-> call[m].mask]

-----------------------------------------------------------------------------
(* rfdev_write, entered by m. *)
Begin(m, w, value, mask) ==
  /\ call[m] = None
  /\ call' = [call EXCEPT ![m] = [word |-> w, value |-> value, mask |-> mask]]
  /\ UNCHANGED <<hw, fetched, rmw_value, last>>

WriteAtOnce(m) ==
  /\ call[m] # None
  /\ ~fetched[m]
  /\ Direct(call[m])
  /\ Store(call[m].word, Target(call[m]), call[m].value)
  /\ Return(m)

(* Fault: what was read last is taken for the word, whatever its address.  *)
ReadFirst_AnyWord(m) ==
  /\ call[m] # None
  /\ ~fetched[m]
  /\ ~Direct(call[m])
  /\ fetched' = [fetched EXCEPT ![m] = TRUE]
  /\ rmw_value' = [rmw_value EXCEPT ![m] = IF last.op = "read" THEN last.value
                                          ELSE hw[call[m].word]]
  /\ UNCHANGED <<hw, call, last>>

ReadFirst(m) ==
  /\ call[m] # None
  /\ ~fetched[m]
  /\ ~Direct(call[m])
  /\ fetched' = [fetched EXCEPT ![m] = TRUE]
  /\ rmw_value' = [rmw_value EXCEPT ![m] = hw[call[m].word]]
  /\ UNCHANGED <<hw, call, last>>

(* The word to write back. *)
Modified(old, value, mask) == (old \cap Flipped(mask)) \cup (value \cap mask)

WriteBack(m) ==
  /\ call[m] # None
  /\ fetched[m]
  /\ Store(call[m].word, <<WordBytes, 0>>,
           Modified(rmw_value[m], call[m].value, call[m].mask))
  /\ Return(m)

(* RegfileDev.read *)
Read(m, w) ==
  /\ call[m] = None
  /\ last' = [op |-> "read", word |-> w, value |-> hw[w]]
  /\ UNCHANGED <<hw, call, fetched, rmw_value>>

(* The hardware drives the bits that the bus cannot write. *)
Drive(w, value) ==
  /\ hw' = [hw EXCEPT ![w] = Merge(@, value, WordBits \ Writable[w])]
  /\ UNCHANGED <<call, fetched, rmw_value, last>>

DeviceNext ==
  \/ \E m \in Master : \/ \E w \in Word : Read(m, w)
                       \/ \E w \in Word : \E value \in Value, mask \in Masks[m][w] :
                              Begin(m, w, value, mask)
                       \/ WriteAtOnce(m)
                       \/ ReadFirst(m)
                       \/ WriteBack(m)
  \/ \E w \in Word : \E value \in SUBSET (WordBits \ Writable[w]) : Drive(w, value)

DeviceSpec == DeviceInit /\ [][DeviceNext]_deviceVars

-----------------------------------------------------------------------------
(* A word written through a read needs a master of its own. *)
Owned(w) == \A m, n \in Master : Masks[m][w] # {} /\ Masks[n][w] # {} => m = n
AlwaysDirect(w) == \A m \in Master : \A value \in Value, mask \in Masks[m][w] :
                      Direct([word |-> w, value |-> value, mask |-> mask])
Undisturbed == \A w \in Word : Owned(w) \/ AlwaysDirect(w)

DeviceTypeOK ==
  /\ hw \in [Word -> SUBSET WordBits]
  /\ call \in [Master -> Call \cup {None}]
  /\ rmw_value \in [Master -> SUBSET WordBits]
  /\ fetched \in [Master -> BOOLEAN]
  /\ \A m \in Master : fetched[m] => call[m] # None

(* What a device read in order to write it back is still what the writable *)
(* bits hold: no write in between gets lost (RegfileDevSimple.rfdev_write, *)
(* RegfileDevSubword.rfdev_write).                                         *)
ReadStillHolds ==
  \A m \in Master : fetched[m] =>
     rmw_value[m] \cap Writable[call[m].word] = hw[call[m].word] \cap Writable[call[m].word]

RF == INSTANCE RegisterFile WITH Bit <- WordBits, reg <- hw,
                                 Mask <- UNION {Masks[m][w] : m \in Master, w \in Word}

(* A call of rfdev_write changes the masked writable bits of its word at   *)
(* one instant, and no other writable bit is ever written.                 *)
ImplementsRegisterFile == RF!RegisterSpec
=============================================================================
