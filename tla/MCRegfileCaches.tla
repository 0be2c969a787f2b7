--------------------------- MODULE MCRegfileCaches ---------------------------
(***************************************************************************)
(* Both caches of the C++ host library for TLC, one at a time: two words   *)
(* with two writable bits; bit 2 is a status bit of word 0 and unused in   *)
(* word 1.                                                                 *)
(***************************************************************************)
EXTENDS RegfileBitCache, RegfileWordCache, TLC

MCWritable == [w \in Word |-> {0, 1}]
MCMask == [w \in Word |-> {{0}, {1}, Bit}]
MCValue == {{}, {0}, {1, 2}, Bit}
MCListMask == [w \in Word |-> {{0}, Bit}]
MCListValue == {{0}, {1, 2}}

(* A test makes the one cache or the other; the registers behind the one   *)
(* that is not used are all ones.                                          *)
VARIABLE used
Ones == [w \in Word |-> Bit]
CachesInit == /\ BitCacheInit
              /\ WordCacheInit
              /\ \/ used = "bitcache" /\ main_hw = Ones
                 \/ used = "wordcache" /\ hw = Ones /\ cache.addr = CHOOSE w \in Word : TRUE

UseBitCache  == used = "bitcache" /\ BitCacheNext /\ UNCHANGED <<listVars, used>>
UseWordCache == used = "wordcache" /\ WordCacheNext /\ UNCHANGED <<cacheVars, used>>

CachesSpec == CachesInit /\ [][UseBitCache \/ UseWordCache]_<<cacheVars, listVars, used>>
=============================================================================
