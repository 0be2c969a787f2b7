--------------------------- MODULE RegfileBitCache ---------------------------
(***************************************************************************)
(* regfile_dev_bitcache of the C++ host library: while it is enabled, the  *)
(* fields of one entry that are written after each other are gathered and  *)
(* reach the device behind it as one write.                                *)
(***************************************************************************)
EXTENDS RegfileMainDev

CONSTANTS Value,
          Mask,         \* Mask[w]: the masks w is written with
          Unused        \* the unused_masks that callers give

ASSUME BitCacheAssumption ==
  /\ Value \subseteq SUBSET Bit /\ Unused \subseteq SUBSET Bit
  /\ Mask \in [Word -> SUBSET (SUBSET Bit)]

Cache == [addr : Word, value : SUBSET Bit, mask : SUBSET Bit,
          unused_mask : SUBSET Bit, valid : BOOLEAN]

VARIABLES hw,           \* the registers behind main_dev
          cache,        \* the write that waits, if cache.valid
          cache_enabled,
          last          \* the last call that returned

cacheVars == <<hw, cache, cache_enabled, last>>

BitCacheInit ==
  /\ hw \in Registers
  /\ cache \in [addr : Word, value : {{}}, mask : {{}}, unused_mask : {{}},
               valid : {FALSE}]
  /\ cache_enabled = FALSE
  /\ last = [op |-> "none"]

(* cache_flush: the registers, and the cache, after it.                    *)
Pending == cache_enabled /\ cache.valid
Landed == IF Pending THEN Written(hw, cache.addr, cache.value, cache.mask) ELSE hw
Emptied == IF Pending THEN [cache EXCEPT !.valid = FALSE] ELSE cache

(* Fault: a write under a mask that overlaps is gathered as well. *)
Gathers_Overlap(w, mask, unused) == cache.addr = w /\ cache.unused_mask = unused

Gathers(w, mask, unused) == /\ cache.addr = w
                            /\ cache.unused_mask = unused
                            /\ cache.mask \cap mask = {}

-----------------------------------------------------------------------------
(* rfdev_write *)
PassOn(w, value, mask) ==
  /\ ~cache_enabled
  /\ hw' = Written(hw, w, value, mask)
  /\ last' = WriteCall(w, value, mask)
  /\ UNCHANGED <<cache, cache_enabled>>

Gather(w, value, mask, unused) ==
  /\ cache_enabled
  /\ cache.valid
  /\ Gathers(w, mask, unused)
  /\ cache' = [cache EXCEPT !.mask = @ \cup mask,
                            !.value = Merge(@, value, mask)]
  /\ last' = WriteCall(w, value, mask)
  /\ UNCHANGED <<hw, cache_enabled>>

StartOver(w, value, mask, unused) ==
  /\ cache_enabled
  /\ ~(cache.valid /\ Gathers(w, mask, unused))
  /\ hw' = Landed
  /\ cache' = [addr |-> w, value |-> value, mask |-> mask,
               unused_mask |-> unused, valid |-> TRUE]
  /\ last' = WriteCall(w, value, mask)
  /\ UNCHANGED cache_enabled

(* rfdev_read.  Fault: the device is read before the cache is flushed. *)
Read_Stale(w) == /\ hw' = Landed
                 /\ cache' = Emptied
                 /\ last' = [op |-> "read", word |-> w, value |-> hw[w]]
                 /\ UNCHANGED cache_enabled

Read(w) == /\ hw' = Landed
           /\ cache' = Emptied
           /\ last' = [op |-> "read", word |-> w, value |-> Landed[w]]
           /\ UNCHANGED cache_enabled

CacheEnable == /\ cache_enabled' = TRUE
               /\ UNCHANGED <<hw, cache, last>>

(* Fault: the cache is switched off before it is flushed. *)
CacheDisable_NoFlush == /\ cache_enabled' = FALSE
                        /\ UNCHANGED <<hw, cache, last>>

CacheDisable == /\ hw' = Landed
                /\ cache' = Emptied
                /\ cache_enabled' = FALSE
                /\ UNCHANGED last

Drive(w, value) == /\ hw' = Driven(hw, w, value)
                   /\ UNCHANGED <<cache, cache_enabled, last>>

BitCacheNext ==
  \/ \E w \in Word : \E value \in Value, mask \in Mask[w], unused \in Unused :
        \/ PassOn(w, value, mask)
        \/ Gather(w, value, mask, unused)
        \/ StartOver(w, value, mask, unused)
  \/ \E w \in Word : Read(w)
  \/ CacheEnable
  \/ CacheDisable
  \/ \E w \in Word : \E value \in SUBSET (Bit \ Writable[w]) : Drive(w, value)

BitCacheSpec == BitCacheInit /\ [][BitCacheNext]_cacheVars

-----------------------------------------------------------------------------
BitCacheTypeOK == /\ hw \in Registers
                  /\ cache \in Cache
                  /\ cache_enabled \in BOOLEAN

(* Nothing waits in a cache that is switched off, where no flush would     *)
(* ever find it (cache_disable, cache_flush).                              *)
OnlyEnabledHolds == BitCacheTypeOK /\ (cache.valid => cache_enabled)

(* A bit that waits in the cache is not overwritten there: it reaches the  *)
(* register before another write of the same bit does, so that a value     *)
(* that triggers something and its removal both arrive (rfdev_write).      *)
Held == /\ cache'.valid
        /\ cache'.addr = cache.addr
        /\ cache.mask \subseteq cache'.mask
        /\ cache'.value \cap cache.mask = cache.value \cap cache.mask
Arrived == LET w == cache.addr
               arriving == cache.mask \cap Writable[w]
           IN  hw'[w] \cap arriving = cache.value \cap arriving
NoWriteOvertaken == [][cache.valid => Held \/ Arrived]_cacheVars

(* The register file as the caller has written it. *)
seen == IF cache.valid THEN Written(hw, cache.addr, cache.value, cache.mask) ELSE hw

RF == INSTANCE RegisterFile WITH reg <- seen, Mask <- UNION {Mask[w] : w \in Word}

(* Behind the cache each write looks done when it returns, and a read      *)
(* answers it, whatever was gathered, flushed, enabled or disabled.        *)
ImplementsRegisterFile == RF!RegisterSpec
=============================================================================
