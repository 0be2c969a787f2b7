------------------------- MODULE RegfilePythonProofs -------------------------
(***************************************************************************)
(* Theorems about the two parts of the Python register access.             *)
(*                                                                         *)
(* First RegfileDevice, for every layout of words, masks and masters:      *)
(* where each word that is written through a read has one master, a write  *)
(* is atomic and changes the masked bits only.  Then RegfileEntry, for all *)
(* fields, masks and numbers: what the mirrored value of an entry is good  *)
(* for, and under which condition on the calls of a test.                  *)
(***************************************************************************)
EXTENDS RegfileDevice, RegfileEntry, WellFoundedInduction, TLAPS

LEMMA WholeWord == Lane(WordBytes, 0) = WordBits
<1>1. WordBytes \in Nat /\ ByteBits \in Nat
  BY SizeAssumption
<1>2. ASSUME NEW b \in WordBits
      PROVE  WordBytes * 0 * ByteBits <= b /\ b < WordBytes * (0 + 1) * ByteBits
  BY <1>1 DEF WordBits, Beyond
<1> QED BY <1>2 DEF Lane

LEMMA LeastNat ==
  ASSUME NEW T \in SUBSET Nat, T # {}
  PROVE  \E n \in T : \A k \in T : n <= k
<1> DEFINE R == OpToRel(<, Nat)
<1>1. PICK n \in T : \A k \in T : <<k, n>> \notin R
  <2> HIDE DEF R
  <2>1. IsWellFoundedOn(R, Nat)
    BY NatLessThanWellFounded DEF R
  <2> QED BY <2>1, WFMin
<1>2. ASSUME NEW k \in T
      PROVE  n <= k
  <2>1. ~(k < n)
    BY <1>1 DEF OpToRel
  <2> QED BY <2>1
<1> QED BY <1>2

(* The search of a subword ends at the first that fits, if there is one. *)
LEMMA FirstFitFits ==
  ASSUME NEW c, NEW p \in Place, Fits(c, p)
  PROVE  FirstFit(c) \in Place /\ Fits(c, FirstFit(c))
<1> DEFINE F == {q \in Place : Fits(c, q)}
           Short == {n \in Nat : \E q \in F : n = WordBytes - q[1]}
<1>0. WordBytes \in Nat /\ Size \subseteq 1 .. WordBytes
  BY SizeAssumption
<1>1. \A q \in Place : /\ q = <<q[1], q[2]>>
                        /\ q[1] \in 1 .. WordBytes
                        /\ q[2] \in Nat
                        /\ WordBytes - q[1] \in Nat
  <2> TAKE q \in Place
  <2>1. q \in Size \X (0 .. WordBytes - 1)
    BY DEF Place
  <2>2. q = <<q[1], q[2]>> /\ q[1] \in Size /\ q[2] \in 0 .. WordBytes - 1
    BY <2>1
  <2>3. q[1] \in 1 .. WordBytes
    BY <2>2, <1>0
  <2> QED BY <2>2, <2>3, <1>0
<1>2. WordBytes - p[1] \in Short
  BY <1>1
<1>3. PICK n \in Short : \A k \in Short : n <= k
  BY <1>2, LeastNat
<1>4. PICK q \in F : n = WordBytes - q[1]
  OBVIOUS
<1>5. \A r \in F : q[1] >= r[1]
  <2> TAKE r \in F
  <2>1. WordBytes - r[1] \in Short
    BY <1>1
  <2> QED BY <2>1, <1>0, <1>1, <1>3, <1>4
<1> DEFINE Low == {i \in Nat : <<q[1], i>> \in F}
<1>6. q[2] \in Low
  BY <1>1
<1>7. PICK i \in Low : \A k \in Low : i <= k
  BY <1>6, LeastNat
<1>8. ASSUME NEW r \in F
      PROVE  Before(<<q[1], i>>, r)
  <2>1. CASE q[1] = r[1]
    <3>1. r[2] \in Low
      BY <2>1, <1>1
    <3> QED BY <3>1, <2>1, <1>7 DEF Before
  <2>2. CASE q[1] # r[1]
    BY <2>2, <1>0, <1>1, <1>5 DEF Before
  <2> QED BY <2>1, <2>2
<1>9. /\ <<q[1], i>> \in Place
      /\ Fits(c, <<q[1], i>>)
      /\ \A r \in Place : Fits(c, r) => Before(<<q[1], i>>, r)
  BY <1>8
<1> QED BY <1>9 DEF FirstFit

(* What a direct write stores is the masked writable bits of the value. *)
LEMMA DirectLane ==
  ASSUME NEW c \in Call, Direct(c)
  PROVE  Lane(Target(c)[1], Target(c)[2]) \cap Writable[c.word] = c.mask \cap Writable[c.word]
<1>1. /\ Writable[c.word] \subseteq WordBits
      /\ Writable[c.word] \subseteq WriteMask[c.word]
      /\ WordBits \subseteq Bits
  BY MaskAssumption DEF Call, Bits
<1>2. CASE c.word \in Subword
  <2>1. Fits(c, Target(c))
    BY <1>2, FirstFitFits DEF Direct, Target
  <2> DEFINE L == Lane(Target(c)[1], Target(c)[2])
  <2>2. Keep(c) \cap L = {} /\ c.mask \subseteq L
    BY <2>1 DEF Fits
  <2> HIDE DEF L
  <2> QED BY <1>1, <2>2 DEF Keep, Flipped, L
<1>3. CASE c.word \notin Subword
  <2>1. Lane(Target(c)[1], Target(c)[2]) = WordBits
    BY <1>3, WholeWord DEF Target
  <2>2. Keep(c) = {}
    BY <1>3 DEF Direct
  <2> QED BY <1>1, <2>1, <2>2 DEF Keep, Flipped
<1> QED BY <1>2, <1>3

-----------------------------------------------------------------------------
(* Where each word is its master's or always written at once, what was     *)
(* read for a call that is still running is still so.                      *)
CallsAsked ==
  \A m \in Master : call[m] # None =>
     /\ call[m].mask \in Masks[m][call[m].word]
     /\ call[m].value \in Value
     /\ fetched[m] => ~Direct(call[m])

DeviceInv == DeviceTypeOK /\ CallsAsked /\ ReadStillHolds

LEMMA NumberMerge ==
  ASSUME NEW old \in SUBSET WordBits, NEW value, NEW mask, mask \subseteq WordBits
  PROVE  Merge(old, value, mask) \in SUBSET WordBits
BY DEF Merge

LEMMA StoreType ==
  ASSUME DeviceTypeOK, NEW w \in Word, NEW p, NEW value, Store(w, p, value)
  PROVE  hw' \in [Word -> SUBSET WordBits]
<1>1. Merge(hw[w], value, Lane(p[1], p[2]) \cap Writable[w]) \in SUBSET WordBits
  <2>1. hw[w] \in SUBSET WordBits /\ Lane(p[1], p[2]) \cap Writable[w] \subseteq WordBits
    BY DEF DeviceTypeOK, Lane
  <2> QED BY <2>1, NumberMerge
<1> QED BY <1>1 DEF Store, DeviceTypeOK

LEMMA DeviceTypeStep == DeviceTypeOK /\ [DeviceNext]_deviceVars => DeviceTypeOK'
<1> SUFFICES ASSUME DeviceTypeOK, [DeviceNext]_deviceVars
             PROVE  DeviceTypeOK'
  OBVIOUS
<1>1. ASSUME NEW m \in Master, NEW w \in Word, Read(m, w)
      PROVE  DeviceTypeOK'
  BY <1>1 DEF DeviceTypeOK, Read
<1>2. ASSUME NEW m \in Master, NEW w \in Word, NEW value \in Value,
             NEW mask \in Masks[m][w], Begin(m, w, value, mask)
      PROVE  DeviceTypeOK'
  <2>1. [word |-> w, value |-> value, mask |-> mask] \in Call
    BY MaskAssumption DEF Call
  <2> QED BY <1>2, <2>1, NoneAssumption DEF DeviceTypeOK, Begin
<1>3. ASSUME NEW m \in Master, WriteAtOnce(m)
      PROVE  DeviceTypeOK'
  <2>1. call[m].word \in Word
    BY <1>3 DEF WriteAtOnce, DeviceTypeOK, Call
  <2>2. hw' \in [Word -> SUBSET WordBits]
    BY <1>3, <2>1, StoreType DEF WriteAtOnce
  <2> QED BY <1>3, <2>2 DEF WriteAtOnce, Return, DeviceTypeOK
<1>4. ASSUME NEW m \in Master, ReadFirst(m)
      PROVE  DeviceTypeOK'
  <2>1. hw[call[m].word] \in SUBSET WordBits
    BY <1>4 DEF ReadFirst, DeviceTypeOK, Call
  <2> QED BY <1>4, <2>1 DEF ReadFirst, DeviceTypeOK
<1>5. ASSUME NEW m \in Master, WriteBack(m)
      PROVE  DeviceTypeOK'
  <2>1. call[m].word \in Word
    BY <1>5 DEF WriteBack, DeviceTypeOK, Call
  <2>2. hw' \in [Word -> SUBSET WordBits]
    BY <1>5, <2>1, StoreType DEF WriteBack
  <2> QED BY <1>5, <2>2 DEF WriteBack, Return, DeviceTypeOK
<1>6. ASSUME NEW w \in Word, NEW value \in SUBSET (WordBits \ Writable[w]), Drive(w, value)
      PROVE  DeviceTypeOK'
  <2>1. Merge(hw[w], value, WordBits \ Writable[w]) \in SUBSET WordBits
    BY NumberMerge DEF DeviceTypeOK
  <2> QED BY <1>6, <2>1 DEF Drive, DeviceTypeOK
<1>7. CASE UNCHANGED deviceVars
  BY <1>7 DEF DeviceTypeOK, deviceVars
<1> QED BY <1>1, <1>2, <1>3, <1>4, <1>5, <1>6, <1>7 DEF DeviceNext

LEMMA CallsAskedStep ==
  DeviceTypeOK /\ CallsAsked /\ [DeviceNext]_deviceVars => CallsAsked'
<1> SUFFICES ASSUME DeviceTypeOK, CallsAsked, [DeviceNext]_deviceVars
             PROVE  CallsAsked'
  OBVIOUS
<1>1. ASSUME NEW m \in Master, NEW w \in Word, Read(m, w)
      PROVE  CallsAsked'
  BY <1>1 DEF CallsAsked, Read
<1>2. ASSUME NEW m \in Master, NEW w \in Word, NEW value \in Value,
             NEW mask \in Masks[m][w], Begin(m, w, value, mask)
      PROVE  CallsAsked'
  BY <1>2 DEF DeviceTypeOK, CallsAsked, Begin
<1>3. ASSUME NEW m \in Master, Return(m)
      PROVE  CallsAsked'
  BY <1>3 DEF DeviceTypeOK, CallsAsked, Return
<1>4. ASSUME NEW m \in Master, ReadFirst(m)
      PROVE  CallsAsked'
  BY <1>4 DEF DeviceTypeOK, CallsAsked, ReadFirst
<1>5. CASE UNCHANGED <<call, fetched>>
  BY <1>5 DEF CallsAsked
<1> QED BY <1>1, <1>2, <1>3, <1>4, <1>5
        DEF DeviceNext, WriteAtOnce, WriteBack, Drive, deviceVars

(* Two masters that are in a write of one word both write it at once. *)
LEMMA Exclusive ==
  ASSUME Undisturbed, DeviceInv, NEW m \in Master, NEW n \in Master, m # n,
         call[m] # None, fetched[n]
  PROVE  call[m].word # call[n].word
<1> SUFFICES ASSUME call[m].word = call[n].word
             PROVE  FALSE
  OBVIOUS
<1>1. call[n] # None /\ call[n] \in Call /\ call[m] \in Call
  BY DEF DeviceInv, DeviceTypeOK
<1> DEFINE w == call[n].word
<1>2. w \in Word
  BY <1>1 DEF Call
<1>3. Masks[m][w] # {} /\ Masks[n][w] # {}
  BY <1>1 DEF DeviceInv, CallsAsked
<1>4. AlwaysDirect(w)
  BY <1>2, <1>3 DEF Undisturbed, Owned
<1>5. call[n] = [word |-> w, value |-> call[n].value, mask |-> call[n].mask]
  BY <1>1 DEF Call
<1>6. Direct(call[n])
  BY <1>1, <1>4, <1>5 DEF AlwaysDirect, DeviceInv, CallsAsked
<1> QED BY <1>1, <1>6 DEF DeviceInv, CallsAsked

LEMMA ReadStillHoldsStep ==
  ASSUME Undisturbed, DeviceInv, [DeviceNext]_deviceVars
  PROVE  ReadStillHolds'
<1>0. DeviceTypeOK
  BY DEF DeviceInv
<1>1. ASSUME NEW m \in Master, NEW p, NEW value, call[m] # None,
             Store(call[m].word, p, value), Return(m)
      PROVE  ReadStillHolds'
  <2> SUFFICES ASSUME NEW n \in Master, fetched'[n]
               PROVE  rmw_value'[n] \cap Writable[call'[n].word]
                        = hw'[call'[n].word] \cap Writable[call'[n].word]
    BY DEF ReadStillHolds
  <2>1. n # m /\ fetched[n] /\ call'[n] = call[n] /\ rmw_value'[n] = rmw_value[n]
    BY <1>0, <1>1 DEF Return, DeviceTypeOK
  <2>2. call[n] # None /\ call[n].word \in Word
    BY <1>0, <2>1 DEF DeviceTypeOK, Call
  <2>3. call[m].word # call[n].word
    BY <1>1, <2>1, Exclusive
  <2>4. hw'[call[n].word] = hw[call[n].word]
    BY <1>0, <1>1, <2>2, <2>3 DEF Store, DeviceTypeOK
  <2> QED BY <2>1, <2>4 DEF DeviceInv, ReadStillHolds
<1>2. ASSUME NEW m \in Master, ReadFirst(m)
      PROVE  ReadStillHolds'
  BY <1>0, <1>2 DEF ReadFirst, DeviceTypeOK, DeviceInv, ReadStillHolds
<1>3. ASSUME NEW m \in Master, NEW w \in Word, NEW value \in Value,
             NEW mask \in Masks[m][w], Begin(m, w, value, mask)
      PROVE  ReadStillHolds'
  BY <1>0, <1>3 DEF Begin, DeviceTypeOK, DeviceInv, ReadStillHolds
<1>4. ASSUME NEW w \in Word, NEW value \in SUBSET (WordBits \ Writable[w]), Drive(w, value)
      PROVE  ReadStillHolds'
  <2> SUFFICES ASSUME NEW n \in Master, fetched[n]
               PROVE  hw'[call[n].word] \cap Writable[call[n].word]
                        = hw[call[n].word] \cap Writable[call[n].word]
    BY <1>4 DEF Drive, DeviceInv, ReadStillHolds
  <2>1. call[n].word \in Word
    BY <1>0 DEF DeviceTypeOK, Call
  <2> QED BY <1>0, <1>4, <2>1, MaskAssumption DEF Drive, Merge, DeviceTypeOK
<1>5. CASE UNCHANGED <<hw, call, fetched, rmw_value>>
  BY <1>5 DEF DeviceInv, ReadStillHolds
<1> QED BY <1>1, <1>2, <1>3, <1>4, <1>5
        DEF DeviceNext, WriteAtOnce, WriteBack, Read, deviceVars

LEMMA DeviceInvariant ==
  ASSUME Undisturbed
  PROVE  DeviceSpec => []DeviceInv
<1>1. DeviceInit => DeviceInv
  BY DEF DeviceInit, DeviceInv, DeviceTypeOK, CallsAsked, ReadStillHolds
<1>2. DeviceInv /\ [DeviceNext]_deviceVars => DeviceInv'
  BY DeviceTypeStep, CallsAskedStep, ReadStillHoldsStep DEF DeviceInv
<1> QED BY <1>1, <1>2, PTL DEF DeviceSpec

(* The types of the registers, the calls and what was read for them. *)
THEOREM DeviceTypeCorrect == DeviceSpec => []DeviceTypeOK
<1>1. DeviceInit => DeviceTypeOK
  BY DEF DeviceInit, DeviceTypeOK
<1> QED BY <1>1, DeviceTypeStep, PTL DEF DeviceSpec

(* No write is lost between the read and the write of a read-modify-write, *)
(* where each word that needs one belongs to one master.                   *)
THEOREM DeviceReadStillHolds ==
  ASSUME Undisturbed
  PROVE  DeviceSpec => []ReadStillHolds
<1>1. DeviceInv => ReadStillHolds
  BY DEF DeviceInv
<1> QED BY <1>1, DeviceInvariant, PTL

-----------------------------------------------------------------------------
LEMMA WriteAtOnceWrites ==
  ASSUME DeviceInv, NEW m \in Master, WriteAtOnce(m)
  PROVE  RF!Write(call[m].word, call[m].value, call[m].mask)
<1>1. call[m] \in Call /\ Direct(call[m])
  BY DEF WriteAtOnce, DeviceInv, DeviceTypeOK
<1>2. Lane(Target(call[m])[1], Target(call[m])[2]) \cap Writable[call[m].word]
        = call[m].mask \cap Writable[call[m].word]
  BY <1>1, DirectLane
<1> QED BY <1>2 DEF WriteAtOnce, Store, Return, Merge, RF!Write, RF!Merge

LEMMA WriteBackWrites ==
  ASSUME DeviceInv, NEW m \in Master, WriteBack(m)
  PROVE  RF!Write(call[m].word, call[m].value, call[m].mask)
<1> DEFINE w == call[m].word  v == call[m].value  mask == call[m].mask
           W == Writable[w]   new == Modified(rmw_value[m], v, mask)
<1>1. w \in Word /\ W \subseteq WordBits
  BY MaskAssumption DEF WriteBack, DeviceInv, DeviceTypeOK, Call
<1>2. rmw_value[m] \cap W = hw[w] \cap W
  BY DEF WriteBack, DeviceInv, ReadStillHolds
<1>3. hw' = [hw EXCEPT ![w] = Merge(@, new, WordBits \cap W)]
  BY WholeWord DEF WriteBack, Store
<1>4. Merge(hw[w], new, WordBits \cap W) = Merge(hw[w], v, mask \cap W)
  BY <1>1, <1>2 DEF Merge, Modified, Flipped, Bits
<1>5. hw' = [hw EXCEPT ![w] = Merge(@, v, mask \cap W)]
  BY <1>3, <1>4
<1> QED BY <1>5 DEF WriteBack, Return, Merge, RF!Write, RF!Merge

(* The devices implement the register file: for any words, masks, sizes of *)
(* bytes and words, a write is one change of the masked bits, where each   *)
(* word that is written through a read belongs to one master.              *)
THEOREM DeviceImplementsRegisterFile ==
  ASSUME Undisturbed
  PROVE  DeviceSpec => ImplementsRegisterFile
<1>1. DeviceInit => RF!RegisterInit
  BY DEF DeviceInit, RF!RegisterInit
<1>2. ASSUME DeviceInv, [DeviceNext]_deviceVars
      PROVE  [RF!RegisterNext]_(RF!registerVars)
  <2>1. ASSUME NEW m \in Master, call[m] # None,
               RF!Write(call[m].word, call[m].value, call[m].mask)
        PROVE  RF!RegisterNext
    <3>1. /\ call[m].word \in Word
          /\ call[m].value \in Value
          /\ call[m].mask \in Masks[m][call[m].word]
      BY <1>2, <2>1 DEF DeviceInv, DeviceTypeOK, CallsAsked, Call
    <3>2. call[m].mask \in UNION {Masks[n][w] : n \in Master, w \in Word}
      BY <3>1
    <3> QED BY <2>1, <3>1, <3>2 DEF RF!RegisterNext
  <2>2. ASSUME NEW m \in Master, WriteAtOnce(m)
        PROVE  RF!RegisterNext
    BY <1>2, <2>1, <2>2, WriteAtOnceWrites DEF WriteAtOnce
  <2>3. ASSUME NEW m \in Master, WriteBack(m)
        PROVE  RF!RegisterNext
    BY <1>2, <2>1, <2>3, WriteBackWrites DEF WriteBack
  <2>4. ASSUME NEW m \in Master, NEW w \in Word, Read(m, w)
        PROVE  RF!RegisterNext
    BY <2>4 DEF Read, RF!RegisterNext, RF!Read
  <2>5. ASSUME NEW w \in Word, NEW value \in SUBSET (WordBits \ Writable[w]), Drive(w, value)
        PROVE  RF!RegisterNext
    <3>1. RF!Drive(w, value) /\ value \in SUBSET WordBits
      BY <2>5 DEF Drive, Merge, RF!Drive, RF!Merge
    <3> QED BY <3>1 DEF RF!RegisterNext
  <2>6. CASE UNCHANGED <<hw, last>>
    BY <2>6 DEF RF!registerVars
  <2> QED BY <1>2, <2>2, <2>3, <2>4, <2>5, <2>6
          DEF DeviceNext, Begin, ReadFirst, deviceVars
<1> QED BY <1>1, <1>2, DeviceInvariant, PTL
        DEF DeviceSpec, ImplementsRegisterFile, RF!RegisterSpec
-----------------------------------------------------------------------------

USE EntryAssumption

(* A test that sets values does not write any directly; it takes no copy.  *)
WritesOrSets   == \A u \in Uses : "set" \in u => "write" \notin u
SetsWithoutCopies == \A u \in Uses : "set" \in u => "copy" \notin u

(* The values have the entry and its copies as their objects.              *)
ValuesOK == /\ register \in SUBSET RegisterBits
            /\ desired_value \in [Object -> SUBSET Positions]
            /\ mirrored_value \in [Object -> SUBSET Positions]
            /\ copies \subseteq Copy
            /\ uses \in Uses

(* The writable fields of the register are mirrored; for a test that sets  *)
(* nothing, the desired value is the mirrored one.                         *)
Mirrored == /\ mirrored_value[Entry] \cap write_mask = register \cap write_mask
            /\ "set" \notin uses => desired_value[Entry] = mirrored_value[Entry]

EntryInv == ValuesOK /\ Mirrored

LEMMA ObjectFacts ==
  Entry \in Object /\ \A c \in Copy : c \in Object /\ c # Entry
BY DEF EntryAssumption, Object

(* Positions of a merge, in and out of the writable fields.                     *)
LEMMA MergeBits ==
  ASSUME NEW old, NEW value, NEW mask, NEW S
  PROVE  /\ old \in SUBSET S /\ mask \subseteq S => Merge(old, value, mask) \in SUBSET S
         /\ old \in SUBSET S /\ value \in SUBSET S => Merge(old, value, mask) \in SUBSET S
BY DEF Merge

LEMMA ComposedBits ==
  ASSUME NEW d, DOMAIN d \subseteq Field
  PROVE  Composed(d) \in SUBSET RegisterBits
<1>1. \A f \in DOMAIN d : FieldMask[f] \subseteq RegisterBits
  BY DEF EntryAssumption
<1> QED BY <1>1 DEF Composed

(* Value and register change in the same way in the writable fields.       *)
LEMMA SetValueMirrors ==
  ASSUME EntryInv, "set" \notin uses, uses' = uses,
         NEW value \in SUBSET Positions, NEW mask \in SUBSET Positions, SetValue(value, mask),
         copies' = copies
  PROVE  EntryInv'
<1>1. /\ desired_value' = [desired_value EXCEPT ![Entry] = Merge(desired_value[Entry], value, mask)]
      /\ mirrored_value' = [mirrored_value EXCEPT ![Entry] = Merge(desired_value[Entry], value, mask)]
      /\ register' = Merge(register, value, mask \cap write_mask)
  BY DEF SetValue, KeepValue, ToDevice
<1>2. desired_value[Entry] \in SUBSET Positions
  BY ObjectFacts DEF EntryInv, ValuesOK
<1>3. Merge(desired_value[Entry], value, mask) \in SUBSET Positions
  BY <1>2, MergeBits
<1>4. register' \in SUBSET RegisterBits
  BY <1>1, MergeBits DEF EntryInv, ValuesOK, EntryAssumption
<1>5. /\ desired_value'[Entry] = Merge(desired_value[Entry], value, mask)
      /\ mirrored_value'[Entry] = Merge(desired_value[Entry], value, mask)
  BY <1>1, ObjectFacts DEF EntryInv, ValuesOK
<1>6. desired_value[Entry] \cap write_mask = register \cap write_mask
  BY DEF EntryInv, Mirrored
<1>7. Merge(desired_value[Entry], value, mask) \cap write_mask = register' \cap write_mask
  BY <1>1, <1>6 DEF Merge
<1>8. ValuesOK'
  BY <1>1, <1>3, <1>4 DEF EntryInv, ValuesOK
<1> QED BY <1>5, <1>7, <1>8 DEF EntryInv, Mirrored

(* What is sent is mirrored.                                               *)
LEMMA SendMirrors ==
  ASSUME EntryInv, "set" \in uses, uses' = uses, copies' = copies,
         desired_value' \in [Object -> SUBSET Positions], NEW o \in Object, Send(o, desired_value')
  PROVE  EntryInv'
<1> DEFINE d == desired_value'[o]
<1>1. d \in SUBSET Positions /\ mirrored_value' = [mirrored_value EXCEPT ![o] = d]
  BY DEF Send
<1>2. mirrored_value' \in [Object -> SUBSET Positions]
  BY <1>1 DEF EntryInv, ValuesOK
<1>3. CASE o = Entry
  <2>1. register' = Merge(register, d, write_mask)
    BY <1>3 DEF Send, ToDevice, Merge, EntryAssumption
  <2>2. register' \in SUBSET RegisterBits
    BY <2>1, MergeBits DEF EntryInv, ValuesOK, EntryAssumption
  <2>3. d \cap write_mask = register' \cap write_mask
    BY <2>1 DEF Merge
  <2>4. mirrored_value'[Entry] = d
    BY <1>1, <1>3, ObjectFacts DEF EntryInv, ValuesOK
  <2> QED BY <1>2, <2>2, <2>3, <2>4 DEF EntryInv, ValuesOK, Mirrored
<1>4. CASE o # Entry
  <2>1. register' = register /\ mirrored_value'[Entry] = mirrored_value[Entry]
    BY <1>1, <1>4, ObjectFacts DEF Send, EntryInv, ValuesOK
  <2> QED BY <1>2, <2>1 DEF EntryInv, ValuesOK, Mirrored
<1> QED BY <1>3, <1>4

LEMMA DesiredOfWriteUpdate ==
  ASSUME EntryInv, NEW o, NEW d \in Dict, WriteUpdate(o, d)
  PROVE  desired_value' \in [Object -> SUBSET Positions]
<1>1. DOMAIN d \subseteq Field
  BY DEF Dict
<1>2. ASSUME NEW t \in Object, NEW own \in SUBSET DOMAIN d
      PROVE  Merge(desired_value[t], Composed([f \in own |-> d[f]]),
                   UNION {FieldMask[f] : f \in own}) \in SUBSET Positions
  <2>1. Composed([f \in own |-> d[f]]) \in SUBSET Positions
    BY <1>1, <1>2, ComposedBits DEF Positions
  <2>2. desired_value[t] \in SUBSET Positions
    BY <1>2 DEF EntryInv, ValuesOK
  <2> QED BY <2>1, <2>2, MergeBits
<1> DEFINE own(t) == {f \in DOMAIN d : OwnerOf(o, f) = t}
           new(t) == Merge(desired_value[t], Composed([f \in own(t) |-> d[f]]),
                           UNION {FieldMask[f] : f \in own(t)})
<1>3. \A t \in Object : own(t) \in SUBSET DOMAIN d
  OBVIOUS
<1>4. \A t \in Object : new(t) \in SUBSET Positions
  BY <1>2, <1>3
<1>5. desired_value' = [t \in Object |-> new(t)]
  BY DEF WriteUpdate
<1> HIDE DEF own, new
<1> QED BY <1>4, <1>5

(* Every call keeps the invariant.                                         *)
LEMMA EntryStep ==
  ASSUME WritesOrSets, EntryInv, [EntryNext]_entryVars
  PROVE  EntryInv'
<1> USE ObjectFacts DEF EntryInv, ValuesOK
<1>a. /\ \A value \in Numbers : value \in SUBSET Positions
      /\ \A f \in Field : FieldMask[f] \in SUBSET Positions
      /\ write_mask \in SUBSET Positions /\ Positions \in SUBSET Positions
      /\ \A v \in SUBSET RegisterBits : v \in SUBSET Positions
      /\ Reset \in SUBSET Positions
  BY DEF EntryAssumption, Positions
<1>b. "write" \in uses => "set" \notin uses
  BY DEF WritesOrSets
<1>1. ASSUME NEW f \in Field, NEW value \in Numbers, WriteField(f, value)
      PROVE  EntryInv'
  <2>1. value \cap FieldMask[f] \in SUBSET Positions
    BY <1>a
  <2> QED BY <1>1, <1>a, <1>b, <2>1, SetValueMirrors DEF WriteField, Done
<1>2. ASSUME NEW f \in Field, NEW value \in Numbers, NEW c \in Copy, WriteFieldOfCopy(c, f, value)
      PROVE  EntryInv'
  <2>1. Merge(desired_value[c], value, FieldMask[f]) \in SUBSET Positions
    BY <1>a, MergeBits
  <2> QED BY <1>2, <2>1 DEF WriteFieldOfCopy, KeepValue, Done, Mirrored
<1>3. ASSUME NEW f \in Field, NEW value \in Numbers, NEW o \in Object, SetField(o, f, value)
      PROVE  EntryInv'
  <2> DEFINE t == OwnerOf(o, f)
  <2>1. desired_value' = [desired_value EXCEPT ![t] = Merge(@, value, FieldMask[f])]
    BY <1>3 DEF SetField
  <2>2. t \in Object => Merge(desired_value[t], value, FieldMask[f]) \in SUBSET Positions
    BY <1>a, MergeBits
  <2> HIDE DEF t
  <2>3. desired_value' \in [Object -> SUBSET Positions]
    BY <2>1, <2>2
  <2>4. "set" \in uses /\ UNCHANGED <<uses, register, mirrored_value, copies>>
    BY <1>3 DEF SetField, Done
  <2> QED BY <2>3, <2>4 DEF Mirrored
<1>4. ASSUME NEW value \in Numbers, NEW mask \in {write_mask, Positions}, WriteNumber(value, mask)
      PROVE  EntryInv'
  BY <1>4, <1>a, <1>b, SetValueMirrors DEF WriteNumber, Done
<1>5. ASSUME NEW value \in Numbers, NEW o \in Object, Set(o, value)
      PROVE  EntryInv'
  BY <1>5, <1>a DEF Set, Done, Mirrored
<1>6. ASSUME NEW d \in Dict, WriteDict(d)
      PROVE  EntryInv'
  <2> DEFINE named == {f \in DOMAIN d : IsWritable(f)}
             v     == Composed([f \in named |-> d[f]])
  <2>1. v \in SUBSET Positions
    BY ComposedBits DEF Dict, Positions
  <2>2. SetValue(v, write_mask)
    BY <1>6 DEF WriteDict
  <2> QED BY <1>6, <1>a, <1>b, <2>1, <2>2, SetValueMirrors DEF WriteDict, Done
<1>7. ASSUME NEW d \in Dict, NEW o \in Object, WriteUpdate(o, d)
      PROVE  EntryInv'
  BY <1>7, DesiredOfWriteUpdate, SendMirrors DEF WriteUpdate
<1>8. ASSUME NEW c \in Copy, WriteCopy(c)
      PROVE  EntryInv'
  BY <1>8, <1>a, <1>b, SetValueMirrors DEF WriteCopy, Done
<1>9. ASSUME NEW c \in Copy, ReadEntry(c)
      PROVE  EntryInv'
  BY <1>9, <1>a DEF ReadEntry, Take, Done, Mirrored
<1>10. ASSUME NEW c \in Copy, GetMirroredReg(c)
       PROVE  EntryInv'
  BY <1>10 DEF GetMirroredReg, KeepValue, Done, Mirrored
<1>11. ASSUME NEW o \in Object, Update(o)
       PROVE  EntryInv'
  BY <1>11, SendMirrors DEF Update, Done
<1>12. CASE ReadRegister
  BY <1>12, <1>a DEF ReadRegister, GetValue, KeepValue, Done, Mirrored
<1>13. CASE ResetDesign
  <2>1. register' = Merge(register, Reset, write_mask)
    BY <1>13 DEF ResetDesign
  <2>2. register' \in SUBSET RegisterBits
    BY <2>1, MergeBits DEF EntryAssumption
  <2>3. Reset \cap write_mask = register' \cap write_mask
    BY <2>1 DEF Merge
  <2> QED BY <1>13, <1>a, <2>2, <2>3 DEF ResetDesign, KeepValue, Done, Mirrored
<1>14. ASSUME NEW value \in SUBSET RegisterBits, DriveRegister(value)
       PROVE  EntryInv'
  <2>1. register' = Merge(register, value, RegisterBits \ write_mask)
    BY <1>14 DEF DriveRegister
  <2>2. register' \in SUBSET RegisterBits /\ register' \cap write_mask = register \cap write_mask
    BY <2>1 DEF Merge
  <2> QED BY <1>14, <2>2 DEF DriveRegister, Mirrored
<1>15. CASE UNCHANGED entryVars
  BY <1>15 DEF entryVars, Mirrored
<1> QED BY <1>1, <1>2, <1>3, <1>4, <1>5, <1>6, <1>7, <1>8, <1>9, <1>10, <1>11, <1>12,
           <1>13, <1>14, <1>15 DEF EntryNext

LEMMA EntryStart ==
  ASSUME EntryInit
  PROVE  EntryInv
<1>1. PICK driven \in SUBSET (RegisterBits \ write_mask) : register = Reset \cup driven
  BY DEF EntryInit
<1>2. register \in SUBSET RegisterBits /\ Reset \cap write_mask = register \cap write_mask
  BY <1>1 DEF EntryAssumption
<1>3. Reset \in SUBSET Positions
  BY DEF EntryAssumption, Positions
<1> QED BY <1>2, <1>3, ObjectFacts DEF EntryInit, EntryInv, ValuesOK, Mirrored

(* needs_update can be relied on, for any fields and numbers, in a test    *)
(* that either writes or sets.                                             *)
THEOREM EntryNeedsUpdateTells ==
  ASSUME WritesOrSets
  PROVE  EntrySpec => []NeedsUpdateTells
<1>1. EntryInit => EntryInv
  BY EntryStart
<1>2. EntryInv /\ [EntryNext]_entryVars => EntryInv'
  BY EntryStep
<1>3. EntryInv => NeedsUpdateTells
  BY DEF EntryInv, Mirrored, NeedsUpdateTells, needs_update
<1> QED BY <1>1, <1>2, <1>3, PTL DEF EntrySpec

-----------------------------------------------------------------------------
(* A test that sets has the entry as the only object, which the fields set.*)
OnlyTheEntry == /\ "set" \in uses => copies = {}
                /\ owner \in [Field -> {NoOne, Entry}]

(* The last write_update was one of fields.                                *)
LastFields == ended.op = "write_update" => ended.values \in Dict

ReachInv == EntryInv /\ OnlyTheEntry /\ LastFields /\ WriteUpdateReaches

LEMMA WriteUpdateArrives ==
  ASSUME EntryInv, OnlyTheEntry, NEW d \in Dict, NEW o \in Object,
         WriteUpdate(o, d)
  PROVE  OnlyTheEntry' /\ LastFields' /\ WriteUpdateReaches'
<1>1. o = Entry /\ \A f \in Field : OwnerOf(o, f) = Entry
  BY DEF OnlyTheEntry, WriteUpdate, OwnerOf
<1>2. DOMAIN d \subseteq Field
  BY DEF Dict
<1> DEFINE sent == Merge(desired_value[Entry], Composed(d), UNION {FieldMask[f] : f \in DOMAIN d})
<1>3. desired_value'[Entry] = sent
  <2> DEFINE own == {f \in DOMAIN d : OwnerOf(o, f) = Entry}
  <2>1. own = DOMAIN d
    BY <1>1, <1>2
  <2>2. [f \in own |-> d[f]] = d
    BY <2>1 DEF Dict
  <2>3. desired_value'[Entry] = Merge(desired_value[Entry], Composed([f \in own |-> d[f]]),
                                     UNION {FieldMask[f] : f \in own})
    BY ObjectFacts DEF WriteUpdate
  <2> HIDE DEF own
  <2> QED BY <2>1, <2>2, <2>3
<1>4. register' = Merge(register, sent, write_mask)
  BY <1>1, <1>3 DEF WriteUpdate, Send, ToDevice, Merge
<1>5. ASSUME NEW f \in DOMAIN d
      PROVE  register' \cap FieldMask[f] \cap write_mask = d[f] \cap FieldMask[f] \cap write_mask
  <2>1. Composed(d) \cap FieldMask[f] = d[f] \cap FieldMask[f]
    <3>1. \A g \in DOMAIN d : g # f => FieldMask[g] \cap FieldMask[f] = {}
      BY <1>2 DEF EntryAssumption
    <3> QED BY <3>1 DEF Composed
  <2>2. FieldMask[f] \subseteq UNION {FieldMask[g] : g \in DOMAIN d}
    OBVIOUS
  <2>3. sent \cap FieldMask[f] = Composed(d) \cap FieldMask[f]
    BY <2>2 DEF Merge
  <2> QED BY <1>4, <2>1, <2>3 DEF Merge
<1>6. ended' = [op |-> "write_update", object |-> o, values |-> d]
  BY DEF WriteUpdate
<1>7. OnlyTheEntry'
  BY <1>1 DEF WriteUpdate, OnlyTheEntry
<1> QED BY <1>5, <1>6, <1>7 DEF LastFields, WriteUpdateReaches

(* The values set through an entry arrive, for any fields and numbers, in  *)
(* a test that does not mix them with writes or copies.                    *)
THEOREM EntryWriteUpdateReaches ==
  ASSUME WritesOrSets, SetsWithoutCopies
  PROVE  EntrySpec => []WriteUpdateReaches
<1>1. EntryInit => ReachInv
  <2> SUFFICES ASSUME EntryInit PROVE ReachInv
    OBVIOUS
  <2>1. EntryInv
    BY EntryStart
  <2> QED BY <2>1 DEF EntryInit, ReachInv, OnlyTheEntry, LastFields, WriteUpdateReaches
<1>2. ReachInv /\ [EntryNext]_entryVars => ReachInv'
  <2> SUFFICES ASSUME ReachInv, [EntryNext]_entryVars
               PROVE  ReachInv'
    OBVIOUS
  <2> DEFINE Goal == OnlyTheEntry' /\ LastFields' /\ WriteUpdateReaches'
  <2>a. EntryInv /\ EntryInv'
    BY EntryStep DEF ReachInv
  <2>b. uses \in Uses /\ ("set" \in uses => "copy" \notin uses)
    BY <2>a DEF EntryInv, ValuesOK, SetsWithoutCopies
  <2>c. ASSUME Done, owner' = owner, "copy" \in uses \/ copies' = copies
        PROVE  Goal
    BY <2>b, <2>c DEF Done, ReachInv, OnlyTheEntry, LastFields, WriteUpdateReaches
  <2>1. ASSUME NEW f \in Field, NEW value \in Numbers
        PROVE  /\ WriteField(f, value) => Goal
               /\ \A c \in Copy : WriteFieldOfCopy(c, f, value) => Goal
    BY <2>c DEF WriteField, WriteFieldOfCopy
  <2>2. ASSUME NEW f \in Field, NEW value \in Numbers, NEW o \in Object, SetField(o, f, value)
        PROVE  Goal
    <3>1. o = Entry
      BY <2>2 DEF SetField, ReachInv, OnlyTheEntry
    <3>2. owner' = [owner EXCEPT ![f] = Entry]
      BY <2>2, <3>1 DEF SetField, OwnerOf, ReachInv, OnlyTheEntry
    <3> QED BY <2>2, <3>2 DEF SetField, Done, ReachInv, OnlyTheEntry, LastFields, WriteUpdateReaches
  <2>3. ASSUME NEW value \in Numbers
        PROVE  /\ \A mask \in {write_mask, Positions} : WriteNumber(value, mask) => Goal
               /\ \A o \in Object : Set(o, value) => Goal
    BY <2>c DEF WriteNumber, Set
  <2>4. ASSUME NEW d \in Dict, WriteDict(d)
        PROVE  Goal
    BY <2>4, <2>c DEF WriteDict
  <2>5. ASSUME NEW d \in Dict, NEW o \in Object, WriteUpdate(o, d)
        PROVE  Goal
    BY <2>5, <2>a, WriteUpdateArrives DEF ReachInv
  <2>6. ASSUME NEW c \in Copy
        PROVE  /\ WriteCopy(c) => Goal
               /\ ReadEntry(c) => Goal
               /\ GetMirroredReg(c) => Goal
    BY <2>c DEF WriteCopy, ReadEntry, Take, GetMirroredReg
  <2>7. ASSUME NEW o \in Object, Update(o)
        PROVE  Goal
    BY <2>7, <2>c DEF Update
  <2>8. ASSUME ReadRegister \/ ResetDesign
        PROVE  Goal
    BY <2>8, <2>c DEF ReadRegister, ResetDesign
  <2>9. ASSUME NEW value \in SUBSET RegisterBits, DriveRegister(value)
        PROVE  Goal
    <3>1. register' \cap write_mask = register \cap write_mask
      BY <2>9 DEF DriveRegister, Merge
    <3>2. \A f : register' \cap FieldMask[f] \cap write_mask = register \cap FieldMask[f] \cap write_mask
      BY <3>1
    <3> QED BY <2>9, <3>2 DEF DriveRegister, ReachInv, OnlyTheEntry, LastFields, WriteUpdateReaches
  <2>10. ASSUME UNCHANGED entryVars
         PROVE  Goal
    BY <2>10 DEF entryVars, ReachInv, OnlyTheEntry, LastFields, WriteUpdateReaches
  <2>11. Goal
    BY <2>1, <2>2, <2>3, <2>4, <2>5, <2>6, <2>7, <2>8, <2>9, <2>10 DEF EntryNext
  <2> QED BY <2>a, <2>11 DEF ReachInv
<1>3. ReachInv => WriteUpdateReaches
  BY DEF ReachInv
<1> QED BY <1>1, <1>2, <1>3, PTL DEF EntrySpec
=============================================================================
