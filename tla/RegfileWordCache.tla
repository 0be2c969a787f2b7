-------------------------- MODULE RegfileWordCache --------------------------
(***************************************************************************)
(* regfile_dev_wordcache of the C++ host library: while it is enabled,     *)
(* writes are listed, up to seqlen_max of them, and reach the device       *)
(* behind it as one sequence.                                              *)
(***************************************************************************)
EXTENDS Integers, Sequences, RegfileMainDev

CONSTANTS ListValue,
          ListMask,     \* ListMask[w]: the masks w is written with
          SeqlenMax     \* maxseq of the constructor

(* With an empty list the first write would be stored past its end.        *)
ASSUME ListAssumption ==
  /\ SeqlenMax \in Nat \ {0}
  /\ ListValue \subseteq SUBSET Bit /\ ListMask \in [Word -> SUBSET (SUBSET Bit)]

VARIABLES main_hw,      \* the registers behind main_dev
          list,         \* addr_list, value_list, mask_list up to seqlen
          list_enabled, \* cache_enabled
          list_call     \* the last call that returned

listVars == <<main_hw, list, list_enabled, list_call>>

WordCacheInit == /\ main_hw \in Registers
                 /\ list = <<>>
                 /\ list_enabled = FALSE
                 /\ list_call = [op |-> "none"]

Entry(w, value, mask) == [addr |-> w, value |-> value, mask |-> mask]

(* rfdev_write_sequence: the registers after the entries of l, in order.   *)
(* Fault: from the last entry to the first.                                *)
WrittenAll_Backwards(h, l) ==
  LET after[k \in 0 .. Len(l)] ==
        IF k = 0 THEN h
        ELSE LET e == l[Len(l) + 1 - k] IN Written(after[k - 1], e.addr, e.value, e.mask)
  IN  after[Len(l)]

WrittenAll(h, l) ==
  LET after[k \in 0 .. Len(l)] ==
        IF k = 0 THEN h ELSE Written(after[k - 1], l[k].addr, l[k].value, l[k].mask)
  IN  after[Len(l)]

(* cache_flush: the registers, and the list, after it. *)
FlushedFrom(l) == IF list_enabled THEN WrittenAll(main_hw, l) ELSE main_hw
LeftOf(l) == IF list_enabled THEN <<>> ELSE l

-----------------------------------------------------------------------------
(* rfdev_write *)
PassOnEntry(e) == /\ ~list_enabled
                  /\ main_hw' = Written(main_hw, e.addr, e.value, e.mask)
                  /\ list_call' = WriteCall(e.addr, e.value, e.mask)
                  /\ UNCHANGED <<list, list_enabled>>

(* Fault: the list is full only when it is past its end. *)
Full_Past(l) == Len(l) > SeqlenMax
Full(l) == Len(l) >= SeqlenMax

Put(e) == /\ list_enabled
          /\ LET l == Append(list, e)
             IN  /\ main_hw' = IF Full(l) THEN FlushedFrom(l) ELSE main_hw
                 /\ list' = IF Full(l) THEN LeftOf(l) ELSE l
          /\ list_call' = WriteCall(e.addr, e.value, e.mask)
          /\ UNCHANGED list_enabled

ListRead(w) == /\ main_hw' = FlushedFrom(list)
               /\ list' = LeftOf(list)
               /\ list_call' = [op |-> "read", word |-> w, value |-> FlushedFrom(list)[w]]
               /\ UNCHANGED list_enabled

ListEnable == /\ list_enabled' = TRUE
              /\ UNCHANGED <<main_hw, list, list_call>>

ListDisable == /\ main_hw' = FlushedFrom(list)
               /\ list' = LeftOf(list)
               /\ list_enabled' = FALSE
               /\ UNCHANGED list_call

ListDrive(w, value) == /\ main_hw' = Driven(main_hw, w, value)
                       /\ UNCHANGED <<list, list_enabled, list_call>>

WordCacheNext ==
  \/ \E w \in Word : \E value \in ListValue, mask \in ListMask[w] :
        PassOnEntry(Entry(w, value, mask)) \/ Put(Entry(w, value, mask))
  \/ \E w \in Word : ListRead(w)
  \/ ListEnable
  \/ ListDisable
  \/ \E w \in Word : \E value \in SUBSET (Bit \ Writable[w]) : ListDrive(w, value)

WordCacheSpec == WordCacheInit /\ [][WordCacheNext]_listVars

-----------------------------------------------------------------------------
(* The next write has a place in the lists, which are seqlen_max long, and *)
(* nothing is listed while the cache is off (rfdev_write, cache_disable).  *)
RoomForNext == /\ Len(list) < SeqlenMax
               /\ list # <<>> => list_enabled

(* The register file as the caller has written it. *)
seen_list == WrittenAll(main_hw, list)

ListRF == INSTANCE RegisterFile WITH
            reg <- seen_list, last <- list_call, Value <- ListValue, Mask <- UNION {ListMask[w] : w \in Word}

(* Behind the cache each write looks done when it returns, and a read      *)
(* answers it, whatever was listed, flushed, enabled or disabled.          *)
WordCacheImplements == ListRF!RegisterSpec
=============================================================================
