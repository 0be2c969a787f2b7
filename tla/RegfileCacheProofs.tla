-------------------------- MODULE RegfileCacheProofs --------------------------
(***************************************************************************)
(* Theorems about the two caches of the C++ host library, for all words,   *)
(* bits, masks and values and lists of any length: the caches hide nothing *)
(* and lose nothing.                                                       *)
(***************************************************************************)
EXTENDS RegfileBitCache, RegfileWordCache, Recursion

LEMMA WrittenType ==
  ASSUME NEW h \in Registers, NEW w \in Word, NEW value, NEW mask
  PROVE  Written(h, w, value, mask) \in Registers
<1>1. Merge(h[w], value, mask \cap Writable[w]) \in SUBSET Bit
  BY MainDevAssumption DEF Merge, Registers
<1> QED BY <1>1 DEF Written, Registers

LEMMA LandedType ==
  ASSUME BitCacheTypeOK
  PROVE  Landed \in Registers /\ Emptied \in Cache
<1>1. cache.addr \in Word
  BY DEF BitCacheTypeOK, Cache
<1> QED BY <1>1, WrittenType DEF BitCacheTypeOK, Landed, Emptied, Cache

LEMMA EmptiedIsOff ==
  ASSUME OnlyEnabledHolds
  PROVE  ~Emptied.valid
BY DEF OnlyEnabledHolds, BitCacheTypeOK, Cache, Emptied, Pending

(* Nothing waits in a cache that is switched off. *)
THEOREM BitCacheOnlyEnabledHolds == BitCacheSpec => []OnlyEnabledHolds
<1>1. BitCacheInit => OnlyEnabledHolds
  BY DEF BitCacheInit, Registers, OnlyEnabledHolds, BitCacheTypeOK, Cache
<1>2. OnlyEnabledHolds /\ [BitCacheNext]_cacheVars => OnlyEnabledHolds'
  <2> SUFFICES ASSUME OnlyEnabledHolds, [BitCacheNext]_cacheVars
               PROVE  OnlyEnabledHolds'
    OBVIOUS
  <2> USE DEF OnlyEnabledHolds, BitCacheTypeOK
  <2>1. ASSUME NEW w \in Word, NEW value \in Value, NEW mask \in Mask[w], NEW unused \in Unused
        PROVE  /\ PassOn(w, value, mask) => OnlyEnabledHolds'
               /\ Gather(w, value, mask, unused) => OnlyEnabledHolds'
               /\ StartOver(w, value, mask, unused) => OnlyEnabledHolds'
    <3>1. value \in SUBSET Bit /\ mask \in SUBSET Bit /\ unused \in SUBSET Bit
      BY BitCacheAssumption
    <3>2. CASE PassOn(w, value, mask)
      BY <3>2, WrittenType DEF PassOn
    <3>3. CASE Gather(w, value, mask, unused)
      BY <3>1, <3>3 DEF Gather, Merge, Cache
    <3>4. CASE StartOver(w, value, mask, unused)
      BY <3>1, <3>4, LandedType DEF StartOver, Cache
    <3> QED BY <3>2, <3>3, <3>4 DEF PassOn, Gather, StartOver
  <2>2. ASSUME NEW w \in Word, Read(w)
        PROVE  OnlyEnabledHolds'
    BY <2>2, LandedType, EmptiedIsOff DEF Read
  <2>3. CASE CacheEnable
    BY <2>3 DEF CacheEnable
  <2>4. CASE CacheDisable
    BY <2>4, LandedType, EmptiedIsOff DEF CacheDisable
  <2>5. ASSUME NEW w \in Word, NEW value \in SUBSET (Bit \ Writable[w]), Drive(w, value)
        PROVE  OnlyEnabledHolds'
    BY <2>5 DEF Drive, Driven, Merge, Registers
  <2>6. CASE UNCHANGED cacheVars
    BY <2>6 DEF cacheVars
  <2> QED BY <2>1, <2>2, <2>3, <2>4, <2>5, <2>6 DEF BitCacheNext
<1> QED BY <1>1, <1>2, PTL DEF BitCacheSpec

-----------------------------------------------------------------------------
LEMMA LandedIsSeen ==
  ASSUME OnlyEnabledHolds
  PROVE  Landed = seen
BY DEF OnlyEnabledHolds, Landed, Pending, seen

LEMMA EmptiedIsEmpty ==
  ASSUME OnlyEnabledHolds, hw' = Landed, cache' = Emptied
  PROVE  seen' = seen
BY EmptiedIsOff, LandedIsSeen DEF seen

LEMMA GatherWrites ==
  ASSUME OnlyEnabledHolds, NEW w \in Word, NEW value \in Value, NEW mask \in Mask[w],
         NEW unused \in Unused, Gather(w, value, mask, unused)
  PROVE  seen' = Written(seen, w, value, mask)
<1> DEFINE W == Writable[w]
<1>1. cache.addr = w /\ cache.valid
  BY DEF Gather, Gathers
<1>2. /\ cache'.addr = w /\ cache'.valid
      /\ cache'.mask = cache.mask \cup mask
      /\ cache'.value = Merge(cache.value, value, mask)
      /\ hw' = hw
  BY <1>1 DEF Gather, OnlyEnabledHolds, BitCacheTypeOK, Cache
<1>3. Merge(hw[w], Merge(cache.value, value, mask), (cache.mask \cup mask) \cap W)
        = Merge(Merge(hw[w], cache.value, cache.mask \cap W), value, mask \cap W)
  BY DEF Merge
<1>4. seen' = [hw EXCEPT ![w] = Merge(@, Merge(cache.value, value, mask),
                                      (cache.mask \cup mask) \cap W)]
  BY <1>2 DEF seen, Written
<1>5. seen = [hw EXCEPT ![w] = Merge(@, cache.value, cache.mask \cap W)]
  BY <1>1 DEF seen, Written
<1>6. Written(seen, w, value, mask)
        = [hw EXCEPT ![w] = Merge(Merge(@, cache.value, cache.mask \cap W), value, mask \cap W)]
  BY <1>5 DEF Written, OnlyEnabledHolds, BitCacheTypeOK
<1> QED BY <1>3, <1>4, <1>6

LEMMA DriveDrives ==
  ASSUME OnlyEnabledHolds, NEW w \in Word, NEW value \in SUBSET (Bit \ Writable[w]), Drive(w, value)
  PROVE  seen' = [seen EXCEPT ![w] = Merge(@, value, Bit \ Writable[w])]
<1>1. CASE ~cache.valid
  BY <1>1 DEF Drive, Driven, seen
<1>2. CASE cache.valid
  <2> DEFINE a == cache.addr
  <2>1. a \in Word /\ hw \in Registers
    BY DEF OnlyEnabledHolds, BitCacheTypeOK, Cache
  <2>2. /\ seen = [hw EXCEPT ![a] = Merge(@, cache.value, cache.mask \cap Writable[a])]
        /\ seen' = [hw' EXCEPT ![a] = Merge(@, cache.value, cache.mask \cap Writable[a])]
    BY <1>2 DEF Drive, Driven, seen, Written
  <2>3. Merge(Merge(hw[w], value, Bit \ Writable[w]), cache.value, cache.mask \cap Writable[w])
          = Merge(Merge(hw[w], cache.value, cache.mask \cap Writable[w]), value, Bit \ Writable[w])
    BY DEF Merge
  <2>4. CASE a = w
    BY <2>1, <2>2, <2>3, <2>4 DEF Drive, Driven
  <2>5. CASE a # w
    BY <2>1, <2>2, <2>5 DEF Drive, Driven
  <2> QED BY <2>4, <2>5
<1> QED BY <1>1, <1>2

(* The cached device implements the register file: for any words, masks    *)
(* and values, each write is seen by every later read, at once.            *)
THEOREM BitCacheImplementsRegisterFile == BitCacheSpec => ImplementsRegisterFile
<1>1. BitCacheInit => RF!RegisterInit
  BY DEF BitCacheInit, Registers, RF!RegisterInit, seen
<1>2. ASSUME OnlyEnabledHolds, [BitCacheNext]_cacheVars
      PROVE  [RF!RegisterNext]_(RF!registerVars)
  <2>1. ASSUME NEW w \in Word, NEW value \in Value, NEW mask \in Mask[w],
               seen' = Written(seen, w, value, mask), last' = WriteCall(w, value, mask)
        PROVE  RF!RegisterNext
    <3>1. RF!Write(w, value, mask)
      BY <2>1 DEF Written, WriteCall, Merge, RF!Write, RF!Merge
    <3>2. mask \in UNION {Mask[x] : x \in Word}
      OBVIOUS
    <3> QED BY <3>1, <3>2 DEF RF!RegisterNext
  <2>2. ASSUME NEW w \in Word, NEW value \in Value, NEW mask \in Mask[w],
               PassOn(w, value, mask)
        PROVE  RF!RegisterNext
    <3>1. seen' = Written(seen, w, value, mask)
      BY <1>2, <2>2 DEF PassOn, OnlyEnabledHolds, seen
    <3> QED BY <2>1, <2>2, <3>1 DEF PassOn
  <2>3. ASSUME NEW w \in Word, NEW value \in Value, NEW mask \in Mask[w],
               NEW unused \in Unused, Gather(w, value, mask, unused)
        PROVE  RF!RegisterNext
    BY <1>2, <2>1, <2>3, GatherWrites DEF Gather
  <2>4. ASSUME NEW w \in Word, NEW value \in Value, NEW mask \in Mask[w],
               NEW unused \in Unused, StartOver(w, value, mask, unused)
        PROVE  RF!RegisterNext
    <3>1. seen' = Written(hw', w, value, mask)
      BY <2>4 DEF StartOver, seen
    <3>2. hw' = seen
      BY <1>2, <2>4, LandedIsSeen DEF StartOver
    <3> QED BY <2>1, <2>4, <3>1, <3>2 DEF StartOver
  <2>5. ASSUME NEW w \in Word, Read(w)
        PROVE  RF!RegisterNext
    <3>1. seen' = seen /\ Landed = seen
      BY <1>2, <2>5, EmptiedIsEmpty, LandedIsSeen DEF Read
    <3>2. RF!Read(w)
      BY <2>5, <3>1 DEF Read, RF!Read
    <3> QED BY <3>2 DEF RF!RegisterNext
  <2>6. CASE CacheEnable
    BY <2>6 DEF CacheEnable, seen, RF!registerVars
  <2>7. CASE CacheDisable
    BY <1>2, <2>7, EmptiedIsEmpty DEF CacheDisable, RF!registerVars
  <2>8. ASSUME NEW w \in Word, NEW value \in SUBSET (Bit \ Writable[w]), Drive(w, value)
        PROVE  RF!RegisterNext
    <3>1. RF!Drive(w, value)
      BY <1>2, <2>8, DriveDrives DEF Drive, Driven, Merge, RF!Drive, RF!Merge
    <3> QED BY <3>1 DEF RF!RegisterNext
  <2>9. CASE UNCHANGED cacheVars
    BY <2>9 DEF cacheVars, seen, RF!registerVars
  <2> QED BY <1>2, <2>2, <2>3, <2>4, <2>5, <2>6, <2>7, <2>8, <2>9 DEF BitCacheNext
<1> QED BY <1>1, <1>2, BitCacheOnlyEnabledHolds, PTL
        DEF BitCacheSpec, ImplementsRegisterFile, RF!RegisterSpec

-----------------------------------------------------------------------------
LEMMA LandedArrives ==
  ASSUME OnlyEnabledHolds, cache.valid, hw' = Landed
  PROVE  Arrived
<1>1. cache.addr \in Word /\ hw \in Registers
  BY DEF OnlyEnabledHolds, BitCacheTypeOK, Cache
<1>2. hw'[cache.addr] = Merge(hw[cache.addr], cache.value, cache.mask \cap Writable[cache.addr])
  BY <1>1 DEF OnlyEnabledHolds, Landed, Pending, Written, Registers
<1> QED BY <1>2 DEF Merge, Arrived

(* A bit that waits in the cache reaches its register before it is written *)
(* again.                                                                  *)
THEOREM BitCacheNoWriteOvertaken == BitCacheSpec => NoWriteOvertaken
<1>1. ASSUME OnlyEnabledHolds, [BitCacheNext]_cacheVars, cache.valid
      PROVE  Held \/ Arrived
  <2>1. CASE UNCHANGED cache
    BY <1>1, <2>1 DEF Held
  <2>2. CASE hw' = Landed
    BY <1>1, <2>2, LandedArrives
  <2>3. ASSUME NEW w \in Word, NEW value \in Value, NEW mask \in Mask[w],
               NEW unused \in Unused, Gather(w, value, mask, unused)
        PROVE  Held
    <3>1. /\ cache'.valid /\ cache'.addr = cache.addr
          /\ cache'.mask = cache.mask \cup mask
          /\ cache'.value = Merge(cache.value, value, mask)
      BY <1>1, <2>3 DEF Gather, OnlyEnabledHolds, BitCacheTypeOK, Cache
    <3>2. cache.mask \cap mask = {}
      BY <2>3 DEF Gather, Gathers
    <3> QED BY <3>1, <3>2 DEF Held, Merge
  <2> QED BY <1>1, <2>1, <2>2, <2>3
          DEF BitCacheNext, PassOn, StartOver, Read, CacheEnable, CacheDisable, Drive, cacheVars
<1> QED BY <1>1, BitCacheOnlyEnabledHolds, PTL DEF BitCacheSpec, NoWriteOvertaken

-----------------------------------------------------------------------------
(***************************************************************************)
(* The word cache.  Its list is written entry by entry: what is known of   *)
(* one write is carried along the list.                                    *)
(***************************************************************************)
Entries == [addr : Word, value : ListValue, mask : UNION {ListMask[w] : w \in Word}]

LEMMA EntriesType ==
  /\ \A e \in Entries : e.addr \in Word
  /\ \A w \in Word, value \in ListValue : \A mask \in ListMask[w] :
        /\ Entry(w, value, mask) \in Entries
        /\ Entry(w, value, mask).addr = w
        /\ Entry(w, value, mask).value = value
        /\ Entry(w, value, mask).mask = mask
BY DEF Entries, Entry

LEMMA NoEntries == <<>> \in Seq(Entries) /\ Len(<<>>) = 0 /\ Len(<<>>) < SeqlenMax
<1>1. SeqlenMax \in Nat /\ SeqlenMax # 0
  BY ListAssumption
<1> QED BY <1>1

(* a[k]: the registers after the first k entries of l. *)
AfterEach(a, h, l) ==
  /\ a \in [0 .. Len(l) -> Registers]
  /\ a[0] = h
  /\ \A k \in 1 .. Len(l) : a[k] = Written(a[k - 1], l[k].addr, l[k].value, l[k].mask)

LEMMA RegisterSteps ==
  ASSUME NEW h \in Registers, NEW n \in Nat, NEW F \in [1 .. n -> [Registers -> Registers]]
  PROVE  \E a \in [0 .. n -> Registers] : a[0] = h /\ \A k \in 1 .. n : a[k] = F[k][a[k - 1]]
BY StepsExist

LEMMA WrittenOneByOne ==
  ASSUME NEW h \in Registers, NEW l \in Seq(Entries)
  PROVE  \E a : AfterEach(a, h, l) /\ WrittenAll(h, l) = a[Len(l)]
<1> DEFINE n == Len(l)
           W(r, k) == Written(r, l[k].addr, l[k].value, l[k].mask)
           F == [k \in 1 .. n |-> [r \in Registers |-> W(r, k)]]
           After == CHOOSE after : after = [k \in 0 .. n |-> IF k = 0 THEN h ELSE W(after[k - 1], k)]
<1>1. n \in Nat /\ \A k \in 1 .. n : l[k].addr \in Word
  <2>1. n \in Nat /\ \A k \in 1 .. n : l[k] \in Entries
    OBVIOUS
  <2> QED BY <2>1, EntriesType
<1>2. \A k \in 1 .. n : \A r \in Registers : W(r, k) \in Registers
  BY <1>1, WrittenType
<1>3. WrittenAll(h, l) = After[n]
  BY DEF WrittenAll
<1> HIDE DEF n, W
<1>4. F \in [1 .. n -> [Registers -> Registers]]
  BY <1>2
<1>5. \A k \in 1 .. n : \A r \in Registers : F[k][r] = W(r, k)
  OBVIOUS
<1> HIDE DEF F
<1>6. PICK a \in [0 .. n -> Registers] : a[0] = h /\ \A k \in 1 .. n : a[k] = F[k][a[k - 1]]
  BY <1>1, <1>4, RegisterSteps
<1>7. \A k \in 1 .. n : a[k] = W(a[k - 1], k)
  <2> SUFFICES ASSUME NEW k \in 1 .. n PROVE a[k] = W(a[k - 1], k)
    OBVIOUS
  <2>1. k - 1 \in 0 .. n
    BY <1>1
  <2> QED BY <1>5, <1>6, <2>1
<1>8. a = [k \in 0 .. n |-> IF k = 0 THEN h ELSE W(a[k - 1], k)]
  <2>1. a = [k \in 0 .. n |-> a[k]]
    OBVIOUS
  <2>2. \A k \in 0 .. n : a[k] = IF k = 0 THEN h ELSE W(a[k - 1], k)
    BY <1>1, <1>6, <1>7
  <2> QED BY <2>1, <2>2
<1>9. After = [k \in 0 .. n |-> IF k = 0 THEN h ELSE W(After[k - 1], k)]
  BY <1>8
<1> HIDE DEF After
<1>10. 0 .. n \subseteq {k \in 0 .. n : After[k] = a[k]}
  <2> DEFINE T == {k \in 0 .. n : After[k] = a[k]}
  <2>1. 0 \in T
    BY <1>1, <1>6, <1>9
  <2>2. ASSUME NEW k \in 1 .. n, k - 1 \in T PROVE k \in T
    <3>1. k \in 0 .. n /\ k # 0
      BY <1>1
    <3> QED BY <1>7, <1>9, <2>2, <3>1
  <2> HIDE DEF T
  <2> QED BY <1>1, <2>1, <2>2, StepsReach DEF T
<1>11. n \in 0 .. n
  BY <1>1
<1>12. AfterEach(a, h, l)
  BY <1>6, <1>7 DEF AfterEach, n, W
<1> QED BY <1>3, <1>10, <1>11, <1>12 DEF n

LEMMA WrittenNone ==
  ASSUME NEW h \in Registers
  PROVE  WrittenAll(h, <<>>) = h
<1>1. PICK a : AfterEach(a, h, <<>>) /\ WrittenAll(h, <<>>) = a[Len(<<>>)]
  BY NoEntries, WrittenOneByOne
<1> QED BY <1>1, NoEntries DEF AfterEach

LEMMA WrittenAllType ==
  ASSUME NEW h \in Registers, NEW l \in Seq(Entries)
  PROVE  WrittenAll(h, l) \in Registers
<1>1. Len(l) \in 0 .. Len(l)
  OBVIOUS
<1> QED BY <1>1, WrittenOneByOne DEF AfterEach

(* An entry put at the end of the list is written last. *)
LEMMA WrittenLast ==
  ASSUME NEW h \in Registers, NEW l \in Seq(Entries), NEW e \in Entries
  PROVE  WrittenAll(h, Append(l, e)) = Written(WrittenAll(h, l), e.addr, e.value, e.mask)
<1> DEFINE l2 == Append(l, e)
           n == Len(l)
<1>1. /\ l2 \in Seq(Entries) /\ Len(l2) = n + 1 /\ l2[n + 1] = e /\ n \in Nat
      /\ \A k \in 1 .. n : l2[k] = l[k]
  OBVIOUS
<1>2. PICK a : AfterEach(a, h, l) /\ WrittenAll(h, l) = a[n]
  BY WrittenOneByOne
<1> HIDE DEF l2
<1>3. PICK b : AfterEach(b, h, l2) /\ WrittenAll(h, l2) = b[Len(l2)]
  BY <1>1, WrittenOneByOne
<1> HIDE DEF n
<1>4. 0 .. n \subseteq {k \in 0 .. n : b[k] = a[k]}
  <2> DEFINE T == {k \in 0 .. n : b[k] = a[k]}
  <2>1. 0 \in T
    BY <1>1, <1>2, <1>3 DEF AfterEach
  <2>2. ASSUME NEW k \in 1 .. n, k - 1 \in T PROVE k \in T
    <3>1. k \in 0 .. n /\ k \in 1 .. Len(l2) /\ k \in 1 .. Len(l)
      BY <1>1 DEF n
    <3> QED BY <1>1, <1>2, <1>3, <2>2, <3>1 DEF AfterEach
  <2> HIDE DEF T
  <2> QED BY <1>1, <2>1, <2>2, StepsReach DEF T
<1>5. n \in 0 .. n /\ n + 1 \in 1 .. Len(l2) /\ (n + 1) - 1 = n
  BY <1>1
<1>6. b[n + 1] = Written(b[n], e.addr, e.value, e.mask)
  BY <1>1, <1>3, <1>5 DEF AfterEach
<1> QED BY <1>1, <1>2, <1>3, <1>4, <1>5, <1>6 DEF l2

(* What the hardware drives and what the bus writes are apart. *)
LEMMA DrivenApart ==
  ASSUME NEW h \in Registers, NEW w \in Word, NEW v \in Word, NEW driven, NEW value, NEW mask
  PROVE  Written(Driven(h, w, driven), v, value, mask) = Driven(Written(h, v, value, mask), w, driven)
<1>1. Merge(Merge(h[w], driven, Bit \ Writable[w]), value, mask \cap Writable[w])
        = Merge(Merge(h[w], value, mask \cap Writable[w]), driven, Bit \ Writable[w])
  BY DEF Merge
<1>2. CASE v = w
  <2>1. Written(Driven(h, w, driven), v, value, mask)
          = [h EXCEPT ![w] = Merge(Merge(h[w], driven, Bit \ Writable[w]), value, mask \cap Writable[w])]
    BY <1>2 DEF Written, Driven, Registers
  <2>2. Driven(Written(h, v, value, mask), w, driven)
          = [h EXCEPT ![w] = Merge(Merge(h[w], value, mask \cap Writable[w]), driven, Bit \ Writable[w])]
    BY <1>2 DEF Written, Driven, Registers
  <2> QED BY <1>1, <2>1, <2>2
<1>3. CASE v # w
  BY <1>3 DEF Written, Driven, Registers
<1> QED BY <1>2, <1>3

LEMMA DrivenBehind ==
  ASSUME NEW h \in Registers, NEW l \in Seq(Entries), NEW w \in Word,
         NEW driven \in SUBSET (Bit \ Writable[w])
  PROVE  WrittenAll(Driven(h, w, driven), l) = Driven(WrittenAll(h, l), w, driven)
<1> DEFINE n == Len(l)
<1>1. n \in Nat /\ \A k \in 1 .. n : l[k].addr \in Word
  <2>1. n \in Nat /\ \A k \in 1 .. n : l[k] \in Entries
    OBVIOUS
  <2> QED BY <2>1, EntriesType
<1>2. Driven(h, w, driven) \in Registers
  BY DEF Driven, Registers, Merge
<1>3. PICK a : AfterEach(a, h, l) /\ WrittenAll(h, l) = a[n]
  BY WrittenOneByOne
<1>4. PICK b : AfterEach(b, Driven(h, w, driven), l) /\ WrittenAll(Driven(h, w, driven), l) = b[n]
  BY <1>2, WrittenOneByOne
<1>5. 0 .. n \subseteq {k \in 0 .. n : b[k] = Driven(a[k], w, driven)}
  <2> DEFINE T == {k \in 0 .. n : b[k] = Driven(a[k], w, driven)}
  <2>1. 0 \in T
    BY <1>1, <1>3, <1>4 DEF AfterEach
  <2>2. ASSUME NEW k \in 1 .. n, k - 1 \in T PROVE k \in T
    <3>1. k \in 0 .. n /\ k - 1 \in 0 .. n /\ a[k - 1] \in Registers
      BY <1>1, <1>3 DEF AfterEach
    <3>2. /\ a[k] = Written(a[k - 1], l[k].addr, l[k].value, l[k].mask)
          /\ b[k] = Written(b[k - 1], l[k].addr, l[k].value, l[k].mask)
      BY <1>3, <1>4 DEF AfterEach
    <3> QED BY <1>1, <2>2, <3>1, <3>2, DrivenApart
  <2> HIDE DEF T
  <2> QED BY <1>1, <2>1, <2>2, StepsReach DEF T
<1>6. n \in 0 .. n
  BY <1>1
<1> QED BY <1>3, <1>4, <1>5, <1>6

-----------------------------------------------------------------------------
ListInv == /\ main_hw \in Registers /\ list \in Seq(Entries) /\ list_enabled \in BOOLEAN
           /\ RoomForNext

(* After a flush, or with an empty list, the registers are as they were    *)
(* seen.                                                                   *)
LEMMA FlushedIsSeen ==
  ASSUME ListInv
  PROVE  /\ FlushedFrom(list) = seen_list /\ FlushedFrom(list) \in Registers
         /\ LeftOf(list) = <<>> /\ WrittenAll(FlushedFrom(list), <<>>) = seen_list
<1>1. CASE list = <<>>
  BY <1>1, WrittenNone DEF ListInv, FlushedFrom, LeftOf, seen_list
<1>2. CASE list # <<>>
  <2>1. list_enabled
    BY <1>2 DEF ListInv, RoomForNext
  <2> QED BY <2>1, WrittenAllType, WrittenNone DEF ListInv, FlushedFrom, LeftOf, seen_list
<1> QED BY <1>1, <1>2

LEMMA PutStep ==
  ASSUME ListInv, NEW e \in Entries, Put(e)
  PROVE  ListInv' /\ seen_list' = Written(seen_list, e.addr, e.value, e.mask)
<1> DEFINE l == Append(list, e)
<1>1. l \in Seq(Entries) /\ Len(l) = Len(list) + 1 /\ Len(list) \in Nat
  BY DEF ListInv
<1>2. WrittenAll(main_hw, l) = Written(seen_list, e.addr, e.value, e.mask)
  BY WrittenLast DEF ListInv, seen_list
<1>3. WrittenAll(main_hw, l) \in Registers
  BY <1>1, WrittenAllType DEF ListInv
<1>4. CASE Full(l)
  <2>1. main_hw' = WrittenAll(main_hw, l) /\ list' = <<>> /\ list_enabled'
    BY <1>4 DEF Put, FlushedFrom, LeftOf
  <2>3. seen_list' = main_hw'
    BY <1>3, <2>1, WrittenNone DEF seen_list
  <2> QED BY <1>2, <1>3, <2>1, <2>3, NoEntries DEF ListInv, RoomForNext, Put
<1>5. CASE ~Full(l)
  <2>1. main_hw' = main_hw /\ list' = l /\ list_enabled' /\ list_enabled' = list_enabled
    BY <1>5 DEF Put
  <2>2. Len(l) < SeqlenMax
    BY <1>1, <1>5, ListAssumption DEF Full
  <2> HIDE DEF l
  <2>3. seen_list' = WrittenAll(main_hw, l)
    BY <2>1 DEF seen_list
  <2> QED BY <1>1, <1>2, <2>1, <2>2, <2>3 DEF ListInv, RoomForNext
<1> QED BY <1>4, <1>5

LEMMA PassOnStep ==
  ASSUME ListInv, NEW e \in Entries, PassOnEntry(e)
  PROVE  ListInv' /\ seen_list' = Written(seen_list, e.addr, e.value, e.mask)
<1>1. list = <<>> /\ list' = <<>> /\ main_hw' = Written(main_hw, e.addr, e.value, e.mask)
  BY DEF PassOnEntry, ListInv, RoomForNext
<1>2. main_hw' \in Registers
  BY <1>1, EntriesType, WrittenType DEF ListInv
<1>3. seen_list = main_hw /\ seen_list' = main_hw'
  BY <1>1, <1>2, WrittenNone DEF ListInv, seen_list
<1> QED BY <1>1, <1>2, <1>3 DEF PassOnEntry, ListInv, RoomForNext

LEMMA FlushStep ==
  ASSUME ListInv, main_hw' = FlushedFrom(list), list' = LeftOf(list), list_enabled' \in BOOLEAN
  PROVE  ListInv' /\ seen_list' = seen_list
<1> QED BY NoEntries, FlushedIsSeen DEF ListInv, RoomForNext, seen_list

LEMMA DriveStep ==
  ASSUME ListInv, NEW w \in Word, NEW value \in SUBSET (Bit \ Writable[w]), ListDrive(w, value)
  PROVE  ListInv' /\ seen_list' = Driven(seen_list, w, value)
<1>1. main_hw' = Driven(main_hw, w, value) /\ list' = list /\ list_enabled' = list_enabled
  BY DEF ListDrive
<1>2. main_hw' \in Registers
  BY <1>1 DEF ListInv, Driven, Registers, Merge
<1> QED BY <1>1, <1>2, DrivenBehind DEF ListInv, RoomForNext, seen_list

LEMMA ListStep ==
  ASSUME ListInv, [WordCacheNext]_listVars
  PROVE  ListInv' /\ [ListRF!RegisterNext]_(ListRF!registerVars)
<1>1. ASSUME NEW w \in Word, NEW value \in ListValue, NEW mask \in ListMask[w],
             seen_list' = Written(seen_list, w, value, mask), list_call' = WriteCall(w, value, mask)
      PROVE  ListRF!RegisterNext
  <2>1. ListRF!Write(w, value, mask)
    BY <1>1 DEF Written, WriteCall, Merge, ListRF!Write, ListRF!Merge
  <2>2. mask \in UNION {ListMask[x] : x \in Word}
    OBVIOUS
  <2> QED BY <2>1, <2>2 DEF ListRF!RegisterNext
<1>2. ASSUME NEW w \in Word, NEW value \in ListValue, NEW mask \in ListMask[w],
             PassOnEntry(Entry(w, value, mask)) \/ Put(Entry(w, value, mask))
      PROVE  ListInv' /\ ListRF!RegisterNext
  <2> DEFINE e == Entry(w, value, mask)
  <2>1. e \in Entries /\ e.addr = w /\ e.value = value /\ e.mask = mask
    BY EntriesType
  <2> HIDE DEF e
  <2>2. PassOnEntry(e) \/ Put(e)
    BY <1>2 DEF e
  <2>3. ListInv' /\ seen_list' = Written(seen_list, w, value, mask)
    BY <2>1, <2>2, PassOnStep, PutStep
  <2>4. list_call' = WriteCall(w, value, mask)
    BY <2>1, <2>2 DEF PassOnEntry, Put
  <2> QED BY <1>1, <2>3, <2>4
<1>3. ASSUME NEW w \in Word, ListRead(w)
      PROVE  ListInv' /\ ListRF!RegisterNext
  <2>1. ListInv' /\ seen_list' = seen_list /\ FlushedFrom(list) = seen_list
    BY <1>3, FlushStep, FlushedIsSeen DEF ListRead, ListInv
  <2>2. ListRF!Read(w)
    BY <1>3, <2>1 DEF ListRead, ListRF!Read
  <2> QED BY <2>1, <2>2 DEF ListRF!RegisterNext
<1>4. CASE ListEnable
  BY <1>4 DEF ListEnable, ListInv, RoomForNext, seen_list, ListRF!registerVars
<1>5. CASE ListDisable
  BY <1>5, FlushStep DEF ListDisable, ListRF!registerVars
<1>6. ASSUME NEW w \in Word, NEW value \in SUBSET (Bit \ Writable[w]), ListDrive(w, value)
      PROVE  ListInv' /\ ListRF!RegisterNext
  <2>1. ListInv' /\ ListRF!Drive(w, value)
    BY <1>6, DriveStep DEF ListDrive, Driven, Merge, ListRF!Drive, ListRF!Merge
  <2> QED BY <2>1 DEF ListRF!RegisterNext
<1>7. CASE UNCHANGED listVars
  BY <1>7 DEF listVars, ListInv, RoomForNext, seen_list, ListRF!registerVars
<1> QED BY <1>2, <1>3, <1>4, <1>5, <1>6, <1>7 DEF WordCacheNext

LEMMA ListStarts == WordCacheInit => ListInv /\ ListRF!RegisterInit
<1> SUFFICES ASSUME WordCacheInit PROVE ListInv /\ ListRF!RegisterInit
  OBVIOUS
<1>2. ListInv
  BY NoEntries DEF WordCacheInit, ListInv, RoomForNext
<1>3. seen_list \in Registers
  BY WrittenNone DEF WordCacheInit, seen_list
<1> QED BY <1>2, <1>3 DEF WordCacheInit, Registers, ListRF!RegisterInit

(* A write that is put in the lists never finds them full, and what is     *)
(* listed is not forgotten by switching the cache off.                     *)
THEOREM WordCacheRoomForNext == WordCacheSpec => []RoomForNext
<1>1. ListInv => RoomForNext
  BY DEF ListInv
<1> QED BY <1>1, ListStarts, ListStep, PTL DEF WordCacheSpec

(* However many writes are listed when the list is flushed, because it is  *)
(* full, read or switched off: every write is seen by every later read, at *)
(* once, and no other bit changes.                                         *)
THEOREM WordCacheImplementsRegisterFile == WordCacheSpec => WordCacheImplements
<1>1. ASSUME ListInv, [WordCacheNext]_listVars
      PROVE  [ListRF!RegisterNext]_(ListRF!registerVars)
  BY <1>1, ListStep
<1> QED BY <1>1, ListStarts, ListStep, PTL DEF WordCacheSpec, WordCacheImplements, ListRF!RegisterSpec
=============================================================================
