-------------------------- MODULE RegfileApbProofs --------------------------
(***************************************************************************)
(* Theorems about RegfileApb, for any entries, registers, handshakes and   *)
(* accesses, and synchronizers of any depth.                               *)
(***************************************************************************)
EXTENDS RegfileApb, TLAPS

-----------------------------------------------------------------------------
(* Type correctness. *)

LEMMA ShiftedType ==
  ASSUME NEW S, NEW pipe \in Pipe(S), NEW in \in S
  PROVE  Shifted(pipe, in) \in Pipe(S)
<1>1. ASSUME NEW k \in 1 .. SyncDepth
      PROVE  (IF k = 1 THEN in ELSE pipe[k - 1]) \in S
  <2>1. k # 1 => k - 1 \in 1 .. SyncDepth
    BY ApbAssumption
  <2> QED BY <2>1 DEF Pipe
<1> QED BY <1>1 DEF Shifted, Pipe

LEMMA StoredBits ==
  ASSUME NEW e \in Entry
  PROVE  /\ Stored(e) \subseteq Bit /\ Stores(e) \subseteq Stored(e)
         /\ GoesBack(e) \subseteq Triggers(e)
<1>1. Trigger[e] \subseteq SUBSET Bit /\ Plain[e] \subseteq Bit
  BY ApbAssumption
<1> QED BY <1>1 DEF Stored, Stores, Selected, Triggers, GoesBack

LEMMA RegistersType ==
  ASSUME ApbTypeOK, Registers
  PROVE  /\ reg' \in [Entry -> SUBSET Bit]
         /\ \A e \in Entry : reg'[e] \subseteq Stored(e)
         /\ trg' \subseteq Fields
<1>1. ASSUME NEW e \in Entry
      PROVE  (reg[e] \ (Stores(e) \cup GoesBack(e))) \cup (request.wdata \cap Stores(e))
                \cup (Reset[e] \cap GoesBack(e)) \subseteq Stored(e)
  BY StoredBits DEF ApbTypeOK, Stored
<1>2. ASSUME NEW e \in Entry
      PROVE  (reg[e] \ (Stores(e) \cup GoesBack(e))) \cup (request.wdata \cap Stores(e))
                \cup (Reset[e] \cap GoesBack(e)) \subseteq Bit
  BY <1>1, StoredBits
<1>3. trg' \subseteq Fields
  BY DEF ApbTypeOK, Registers, Loaded
<1> QED BY <1>1, <1>2, <1>3 DEF Registers

LEMMA PosedgeType ==
  ASSUME ApbTypeOK, Posedge
  PROVE  /\ reg' \in [Entry -> SUBSET Bit]
         /\ \A e \in Entry : reg'[e] \subseteq Stored(e)
         /\ trg' \subseteq Fields
         /\ write_permitted' \in BOOLEAN /\ read_permitted' \in BOOLEAN
         /\ reg_hs' \in [Handshakes -> BOOLEAN]
         /\ sync_ack' \in [Handshakes -> Pipe(BOOLEAN)]
         /\ \A e \in Entry : sync_bits'[e] \in Pipe(SUBSET Sampled[e])
         /\ sync_delay' \in Pipe(BOOLEAN)
         /\ ready_sync_delay_r' \in BOOLEAN
         /\ ack' = ack /\ signals' = signals
<1>1. /\ write_permitted' \in BOOLEAN /\ read_permitted' \in BOOLEAN
  BY DEF Posedge, Permissions, NextWritePermitted, NextReadPermitted, ApbTypeOK
<1>2. reg_hs' \in [Handshakes -> BOOLEAN]
  BY DEF Posedge, Requesting
<1>3. sync_ack' \in [Handshakes -> Pipe(BOOLEAN)]
  BY ShiftedType DEF Posedge, Synchronizers, ApbTypeOK
<1>4. \A e \in Entry : sync_bits'[e] \in Pipe(SUBSET Sampled[e])
  BY ShiftedType DEF Posedge, Synchronizers, ApbTypeOK
<1>5. StartsDelay \in BOOLEAN
  BY DEF StartsDelay
<1>6. sync_delay' \in Pipe(BOOLEAN)
  BY <1>5, ShiftedType DEF Posedge, Synchronizers, ApbTypeOK
<1>7. ready_sync_delay_r' \in BOOLEAN
  BY DEF Posedge, Synchronizers
<1> QED BY <1>1, <1>2, <1>3, <1>4, <1>6, <1>7, RegistersType DEF Posedge, designVars

LEMMA TypeInit == ApbInit => ApbTypeOK
<1> SUFFICES ASSUME ApbInit PROVE ApbTypeOK
  OBVIOUS
<1>1. /\ reg \in [Entry -> SUBSET Bit]
      /\ \A e \in Entry : reg[e] \subseteq Stored(e)
  BY StoredBits DEF ApbInit
<1>2. /\ sync_ack \in [Handshakes -> Pipe(BOOLEAN)]
      /\ sync_delay \in Pipe(BOOLEAN)
  BY DEF ApbInit, Pipe
<1>3. \A e \in Entry : sync_bits[e] \in Pipe(SUBSET Sampled[e])
  BY DEF ApbInit, Pipe
<1> QED BY <1>1, <1>2, <1>3 DEF ApbInit, ApbTypeOK

LEMMA TypeStep == ApbTypeOK /\ [ApbNext]_vars => ApbTypeOK'
<1> SUFFICES ASSUME ApbTypeOK, [ApbNext]_vars PROVE ApbTypeOK'
  OBVIOUS
<1>1. CASE Clock
  <2>1. Posedge /\ phase' \in {"idle", "setup", "access"} /\ request' \in Request \cup {Released}
    BY <1>1 DEF Clock, Setup, Enable, Wait, Rest, Access, busVars, ApbTypeOK
  <2> QED BY <2>1, PosedgeType DEF ApbTypeOK
<1>2. ASSUME NEW h \in Handshakes, Answer(h) PROVE ApbTypeOK'
  BY <1>2 DEF Answer, ApbTypeOK, busVars, entryVars, syncVars
<1>3. ASSUME NEW e \in Entry, NEW bits \in SUBSET Sampled[e], Drive(e, bits) PROVE ApbTypeOK'
  <2>1. bits \in SUBSET Bit
    BY ApbAssumption
  <2>2. /\ signals' \in [Entry -> SUBSET Bit]
        /\ \A x \in Entry : signals'[x] \subseteq Sampled[x]
    BY <1>3, <2>1 DEF Drive, ApbTypeOK
  <2> QED BY <1>3, <2>2 DEF Drive, ApbTypeOK, busVars, entryVars, syncVars
<1>4. CASE UNCHANGED vars
  BY <1>4 DEF ApbTypeOK, vars, busVars, entryVars, syncVars, designVars
<1> QED BY <1>1, <1>2, <1>3, <1>4 DEF ApbNext

(* Type correctness of bus, registers and synchronizers; only bits with a  *)
(* register behind them are ever stored, whatever is selected.             *)
THEOREM ApbTypeCorrect == ApbSpec => []ApbTypeOK
<1> QED BY TypeInit, TypeStep, PTL DEF ApbSpec

-----------------------------------------------------------------------------
(* Handshakes.  The synchronizer holds the answers of the last cycles:     *)
(* after a change of the answer the new value fills it from the input on,  *)
(* and the request changes only when it has come out at the end.           *)

Filled(h, value) == \A k \in 1 .. SyncDepth : sync_ack[h][k] = value
Filling(h, value) == \A j, k \in 1 .. SyncDepth :
                       j <= k /\ sync_ack[h][k] = value => sync_ack[h][j] = value

HandshakeInv ==
  \A h \in Handshakes :
    /\ reg_hs[h] => Access /\ Requests(h)
    /\ reg_hs[h] /\ ~ack[h] => Filled(h, FALSE)
    /\ reg_hs[h] /\ ack[h] => Filling(h, TRUE) /\ seen.acked
    /\ ~reg_hs[h] /\ ack[h] => Filled(h, TRUE)
    /\ ~reg_hs[h] /\ ~ack[h] => Filling(h, FALSE)

(* A word is about one handshake. *)
LEMMA OneHandshake ==
  ASSUME NEW g \in Handshakes, NEW h \in Handshakes, Requests(g), Requests(h)
  PROVE  g = h
BY DEF Requests, At

LEMMA NotReady ==
  ASSUME NEW h \in Handshakes, Requests(h), ~(AckSeen(h) /\ reg_hs[h])
  PROVE  ~Ready
BY OneHandshake DEF Ready

(* While the answer is not there the access goes on, with its permission.  *)
LEMMA StillRequested ==
  ASSUME ApbTypeOK, Clock, NEW h \in Handshakes, Access, Requests(h),
         ~(AckSeen(h) /\ reg_hs[h])
  PROVE  Wait /\ Access' /\ Requests(h)'
<1>1. Wait
  BY NotReady DEF Clock, Setup, Enable, Rest, Ended, Access
<1>2. request' = request /\ Access'
  BY <1>1 DEF Wait, busVars, Access
<1>3. PICK e \in Entry : /\ Handshake[e] = h /\ At(e) /\ Allowed(e)
                         /\ Sampled[e] \cup Direct[e] = {} => request.write /\ phase # "idle"
  BY DEF Requests
<1>4. ~At(ProtEntry)
  BY <1>3, ProtAssumption DEF At, Handshakes
<1>5. ProtOk' = ProtOk
  <2>1. ProtBit \notin Stores(ProtEntry)
    BY <1>4 DEF Stores, Storing
  <2>2. ProtBit \notin GoesBack(ProtEntry)
    BY ProtAssumption, ApbAssumption DEF GoesBack
  <2>3. ProtBit \in reg'[ProtEntry] <=> ProtBit \in reg[ProtEntry]
    BY <1>1, <2>1, <2>2, ProtAssumption DEF Wait, Posedge, Registers
  <2> QED BY <1>2, <2>3 DEF ProtOk
<1>6. Requests(h)'
  BY <1>2, <1>3, <1>5 DEF Requests, At, Allowed, Access
<1> QED BY <1>1, <1>2, <1>6

LEMMA ShiftedAck ==
  ASSUME ApbTypeOK, Posedge, NEW h \in Handshakes, NEW k \in 1 .. SyncDepth
  PROVE  sync_ack'[h][k] = IF k = 1 THEN ack[h] ELSE sync_ack[h][k - 1]
BY DEF Posedge, Synchronizers, Shifted

(* A value that fills the synchronizer goes on to, and one that fills it   *)
(* altogether stays.                                                       *)
LEMMA GoesOnFilling ==
  ASSUME ApbTypeOK, Posedge, NEW h \in Handshakes, NEW value \in BOOLEAN,
         ack[h] = value
  PROVE  /\ Filling(h, value) => Filling(h, value)'
         /\ Filled(h, value) => Filled(h, value)'
<1>1. ASSUME Filled(h, value) PROVE Filled(h, value)'
  <2> SUFFICES ASSUME NEW k \in 1 .. SyncDepth PROVE sync_ack'[h][k] = value
    BY DEF Filled
  <2>1. k # 1 => k - 1 \in 1 .. SyncDepth
    BY ApbAssumption
  <2> QED BY <1>1, <2>1, ShiftedAck DEF Filled
<1>2. ASSUME Filling(h, value) PROVE Filling(h, value)'
  <2> SUFFICES ASSUME NEW j \in 1 .. SyncDepth, NEW k \in 1 .. SyncDepth,
                      j <= k, sync_ack'[h][k] = value
               PROVE  sync_ack'[h][j] = value
    BY DEF Filling
  <2>1. CASE j = 1
    BY <2>1, ShiftedAck
  <2>2. CASE j # 1
    <3>1. j - 1 \in 1 .. SyncDepth /\ k - 1 \in 1 .. SyncDepth /\ j - 1 <= k - 1 /\ k # 1
      BY <2>2, ApbAssumption
    <3> QED BY <1>2, <2>2, <3>1, ShiftedAck DEF Filling
  <2> QED BY <2>1, <2>2
<1> QED BY <1>1, <1>2

(* What has come out at the end has filled it. *)
LEMMA Through ==
  ASSUME ApbTypeOK, NEW h \in Handshakes, NEW value \in BOOLEAN,
         Filling(h, value), AckSeen(h) = value
  PROVE  Filled(h, value)
BY ApbAssumption DEF Filling, Filled, AckSeen

LEMMA FilledSeen ==
  ASSUME NEW h \in Handshakes, NEW value \in BOOLEAN, Filled(h, value)
  PROVE  AckSeen(h) = value /\ Filling(h, value)
BY ApbAssumption DEF Filled, Filling, AckSeen

LEMMA HandshakeInit == ApbInit => HandshakeInv
<1> SUFFICES ASSUME ApbInit, NEW h \in Handshakes
             PROVE  ~reg_hs[h] /\ ~ack[h] /\ Filling(h, FALSE)
  BY DEF HandshakeInv
<1>1. ~reg_hs[h] /\ ~ack[h]
  BY DEF ApbInit
<1>2. \A k \in 1 .. SyncDepth : sync_ack[h][k] = FALSE
  <2>1. sync_ack[h] \in Pipe({FALSE})
    BY DEF ApbInit
  <2> QED BY <2>1 DEF Pipe
<1> QED BY <1>1, <1>2 DEF Filling

(* The step of the clock, one case for each change of the request. *)
LEMMA HandshakeClock ==
  ASSUME ApbTypeOK, HandshakeInv, Clock, NEW h \in Handshakes
  PROVE  /\ reg_hs'[h] => Access' /\ Requests(h)'
         /\ reg_hs'[h] /\ ~ack'[h] => Filled(h, FALSE)'
         /\ reg_hs'[h] /\ ack'[h] => Filling(h, TRUE)' /\ seen'.acked
         /\ ~reg_hs'[h] /\ ack'[h] => Filled(h, TRUE)'
         /\ ~reg_hs'[h] /\ ~ack'[h] => Filling(h, FALSE)'
         /\ ~reg_hs[h] /\ reg_hs'[h] => ~ack[h]
         /\ reg_hs[h] /\ ~reg_hs'[h] => ack[h]
<1>1. Posedge
  BY DEF Clock, Setup, Enable, Wait, Rest
<1>2. ack' = ack /\ ack[h] \in BOOLEAN /\ AckSeen(h) \in BOOLEAN /\ reg_hs[h] \in BOOLEAN
  BY <1>1, ApbAssumption DEF Posedge, designVars, ApbTypeOK, AckSeen, Pipe
<1>3. reg_hs'[h] <=> (reg_hs[h] \/ Raises(h)) /\ ~Lowers(h)
  BY <1>1 DEF Posedge, Requesting
<1>4. CASE reg_hs[h] /\ ~AckSeen(h)
  <2>1. Access /\ Requests(h) /\ Wait /\ Access' /\ Requests(h)'
    BY <1>4, StillRequested DEF HandshakeInv
  <2>2. reg_hs'[h]
    BY <1>3, <1>4, <2>1 DEF Lowers
  <2>3. seen'.acked = seen.acked
    BY <2>1 DEF Wait, Noted
  <2>4. ack[h] => Filling(h, TRUE)'
    BY <1>1, <1>2, <1>4, GoesOnFilling DEF HandshakeInv
  <2>5. ~ack[h] => Filled(h, FALSE)'
    BY <1>1, <1>2, <1>4, GoesOnFilling DEF HandshakeInv
  <2> QED BY <1>2, <1>4, <2>1, <2>2, <2>3, <2>4, <2>5 DEF HandshakeInv
<1>5. CASE reg_hs[h] /\ AckSeen(h)
  <2>1. ~reg_hs'[h]
    BY <1>3, <1>5 DEF Lowers
  <2>2. ack[h]
    BY <1>2, <1>5, FilledSeen DEF HandshakeInv
  <2>3. Filled(h, TRUE)'
    BY <1>1, <1>2, <1>5, <2>2, Through, GoesOnFilling DEF HandshakeInv
  <2> QED BY <1>2, <1>5, <2>1, <2>2, <2>3
<1>6. CASE ~reg_hs[h] /\ Raises(h)
  <2>1. Access /\ Requests(h) /\ ~AckSeen(h)
    BY <1>6 DEF Raises
  <2>2. ~ack[h] /\ Filled(h, FALSE)
    BY <1>2, <1>6, <2>1, FilledSeen, Through DEF HandshakeInv
  <2>3. Access' /\ Requests(h)'
    BY <1>6, <2>1, StillRequested
  <2>4. Filled(h, FALSE)'
    BY <1>1, <1>2, <2>2, GoesOnFilling
  <2>5. reg_hs'[h]
    BY <1>3, <1>6, <2>1 DEF Lowers
  <2> QED BY <1>2, <1>6, <2>2, <2>3, <2>4, <2>5
<1>7. CASE ~reg_hs[h] /\ ~Raises(h)
  <2>1. ~reg_hs'[h]
    BY <1>3, <1>7
  <2>2. ack[h] => Filled(h, TRUE)'
    BY <1>1, <1>2, <1>7, GoesOnFilling DEF HandshakeInv
  <2>3. ~ack[h] => Filling(h, FALSE)'
    BY <1>1, <1>2, <1>7, GoesOnFilling DEF HandshakeInv
  <2> QED BY <1>2, <1>7, <2>1, <2>2, <2>3
<1> QED BY <1>2, <1>4, <1>5, <1>6, <1>7

(* A peer changes its answer only when the old one has come through. *)
LEMMA HandshakeAnswer ==
  ASSUME ApbTypeOK, HandshakeInv, NEW g \in Handshakes, Answer(g)
  PROVE  HandshakeInv'
<1> SUFFICES ASSUME NEW h \in Handshakes
    PROVE  /\ reg_hs'[h] => Access' /\ Requests(h)'
           /\ reg_hs'[h] /\ ~ack'[h] => Filled(h, FALSE)'
           /\ reg_hs'[h] /\ ack'[h] => Filling(h, TRUE)' /\ seen'.acked
           /\ ~reg_hs'[h] /\ ack'[h] => Filled(h, TRUE)'
           /\ ~reg_hs'[h] /\ ~ack'[h] => Filling(h, FALSE)'
  BY DEF HandshakeInv
<1>1. /\ phase' = phase /\ request' = request /\ reg' = reg
      /\ reg_hs' = reg_hs /\ sync_ack' = sync_ack
  BY DEF Answer, busVars, entryVars, syncVars
<1>2. /\ Access' = Access /\ Requests(h)' = Requests(h)
      /\ \A value \in BOOLEAN : /\ Filled(h, value)' = Filled(h, value)
                               /\ Filling(h, value)' = Filling(h, value)
  BY <1>1 DEF Access, Requests, At, Allowed, ProtOk, Filled, Filling
<1>3. seen'.acked = (seen.acked \/ reg_hs[g])
  BY DEF Answer, ApbTypeOK
<1>4. CASE g = h
  <2>1. ack'[h] = reg_hs[h] /\ ack[h] # reg_hs[h]
    BY <1>4 DEF Answer, ApbTypeOK
  <2>2. reg_hs[h] => Filling(h, TRUE)
    <3>1. reg_hs[h] => Filled(h, FALSE)
      BY <2>1 DEF HandshakeInv, ApbTypeOK
    <3> QED BY <3>1 DEF Filling, Filled
  <2>3. ~reg_hs[h] => Filling(h, FALSE)
    <3>1. ~reg_hs[h] => Filled(h, TRUE)
      BY <2>1 DEF HandshakeInv, ApbTypeOK
    <3> QED BY <3>1 DEF Filling, Filled
  <2> QED BY <1>1, <1>2, <1>3, <1>4, <2>1, <2>2, <2>3 DEF HandshakeInv
<1>5. CASE g # h
  <2>1. ack'[h] = ack[h]
    BY <1>5 DEF Answer, ApbTypeOK
  <2> QED BY <1>1, <1>2, <1>3, <2>1 DEF HandshakeInv
<1> QED BY <1>4, <1>5

LEMMA HandshakeStep ==
  ASSUME ApbTypeOK, HandshakeInv, [ApbNext]_vars
  PROVE  /\ HandshakeInv'
         /\ FourPhases
<1>1. CASE Clock
  BY <1>1, HandshakeClock DEF HandshakeInv, FourPhases
<1>2. ASSUME NEW h \in Handshakes, Answer(h) PROVE HandshakeInv' /\ reg_hs' = reg_hs
  BY <1>2, HandshakeAnswer DEF Answer, syncVars
<1>3. ASSUME UNCHANGED <<busVars, entryVars, syncVars, ack>>, seen'.acked = seen.acked
      PROVE  HandshakeInv' /\ reg_hs' = reg_hs
  BY <1>3 DEF busVars, entryVars, syncVars, HandshakeInv, Access, Requests, At, Allowed,
              ProtOk, Filled, Filling
<1>4. ASSUME NEW e \in Entry, NEW bits \in SUBSET Sampled[e], Drive(e, bits)
      PROVE  HandshakeInv' /\ reg_hs' = reg_hs
  BY <1>3, <1>4 DEF Drive
<1>5. ASSUME UNCHANGED vars PROVE HandshakeInv' /\ reg_hs' = reg_hs
  BY <1>3, <1>5 DEF vars, designVars
<1>6. reg_hs' = reg_hs => FourPhases
  BY DEF FourPhases
<1> QED BY <1>1, <1>2, <1>4, <1>5, <1>6 DEF ApbNext

LEMMA HandshakeAlways == ApbSpec => [](ApbTypeOK /\ HandshakeInv)
<1>1. ApbInit => ApbTypeOK /\ HandshakeInv
  BY TypeInit, HandshakeInit
<1>2. ApbTypeOK /\ HandshakeInv /\ [ApbNext]_vars => (ApbTypeOK /\ HandshakeInv)'
  BY TypeStep, HandshakeStep
<1> QED BY <1>1, <1>2, PTL DEF ApbSpec

(* The four phases of every handshake are obeyed, however deep the         *)
(* synchronizers are and however soon the master comes back.               *)
THEOREM ApbHandshakeObeyed == ApbSpec => HandshakeObeyed
<1>1. ApbTypeOK /\ HandshakeInv /\ [ApbNext]_vars => [FourPhases]_vars
  BY HandshakeStep
<1> QED BY <1>1, HandshakeAlways, PTL DEF ApbSpec, HandshakeObeyed

(* An access with a handshake ends with the answer that was given to it.   *)
THEOREM ApbAnsweredForIt == ApbSpec => []AnsweredForIt
<1>1. ASSUME ApbTypeOK, HandshakeInv PROVE AnsweredForIt
  <2> SUFFICES ASSUME NEW h \in Handshakes, Ended, Requests(h) PROVE seen.acked
    BY DEF AnsweredForIt
  <2>1. AckSeen(h) /\ reg_hs[h]
    BY NotReady DEF Ended
  <2>2. ack[h]
    BY <1>1, <2>1, FilledSeen DEF HandshakeInv, ApbTypeOK
  <2> QED BY <1>1, <2>1, <2>2 DEF HandshakeInv
<1> QED BY <1>1, HandshakeAlways, PTL

-----------------------------------------------------------------------------
(* What the bus sees of the plain registers. *)

(* A read is permitted only at an entry. *)
PermittedInv == Access /\ ~request.write /\ read_permitted => request.addr \in Entry

LEMMA PermittedStep == ApbTypeOK /\ PermittedInv /\ [ApbNext]_vars => PermittedInv'
<1> SUFFICES ASSUME ApbTypeOK, PermittedInv, [ApbNext]_vars PROVE PermittedInv'
  OBVIOUS
<1>1. CASE Enable \/ Wait
  <2>1. Posedge /\ phase # "idle" /\ request' = request
    BY <1>1 DEF Enable, Wait, Access, busVars
  <2>2. ~request.write => read_permitted' = NextReadPermitted
    BY <2>1 DEF Posedge, Permissions
  <2>3. NextReadPermitted => request.addr \in Entry
    BY DEF NextReadPermitted, At
  <2> QED BY <2>1, <2>2, <2>3 DEF PermittedInv
<1>2. CASE Rest \/ \E r \in Request : Setup(r)
  BY <1>2 DEF Rest, Setup, PermittedInv, Access
<1>3. CASE UNCHANGED <<busVars, entryVars>>
  BY <1>3 DEF busVars, entryVars, PermittedInv, Access
<1>4. ASSUME NEW h \in Handshakes, Answer(h) PROVE UNCHANGED <<busVars, entryVars>>
  BY <1>4 DEF Answer
<1>5. ASSUME NEW e, NEW bits, Drive(e, bits) PROVE UNCHANGED <<busVars, entryVars>>
  BY <1>5 DEF Drive
<1>6. UNCHANGED vars => UNCHANGED <<busVars, entryVars>>
  BY DEF vars
<1> QED BY <1>1, <1>2, <1>3, <1>4, <1>5, <1>6 DEF ApbNext, Clock

(* Plain bits change only where they take the write data. *)
LEMMA PlainStep ==
  ASSUME ApbTypeOK, Posedge, NEW e \in Entry
  PROVE  reg'[e] \cap Plain[e] =
           IF Storing(e)
           THEN RF!Merge(reg[e] \cap Plain[e], request.wdata, Selected(Bit) \cap Plain[e])
           ELSE reg[e] \cap Plain[e]
<1>1. Plain[e] \subseteq Bit /\ Triggers(e) \cap Plain[e] = {}
  BY ApbAssumption DEF Triggers
<1>2. GoesBack(e) \cap Plain[e] = {}
  BY <1>1, StoredBits
<1>3. reg'[e] = (reg[e] \ (Stores(e) \cup GoesBack(e))) \cup (request.wdata \cap Stores(e))
                \cup (Reset[e] \cap GoesBack(e))
  BY DEF Posedge, Registers
<1>4. CASE ~Storing(e)
  <2>1. Stores(e) = {}
    BY <1>4 DEF Stores
  <2> QED BY <1>2, <1>3, <1>4, <2>1
<1>5. CASE Storing(e)
  <2>1. Stores(e) \cap Plain[e] = Selected(Bit) \cap Plain[e]
    <3>1. \A f \in Trigger[e] : f \cap Plain[e] = {}
      BY ApbAssumption
    <3> QED BY <1>1, <1>5, <3>1 DEF Stores, Selected
  <2> QED BY <1>2, <1>3, <1>5, <2>1 DEF RF!Merge
<1> QED BY <1>4, <1>5

LEMMA RequestType ==
  ASSUME ApbTypeOK
  PROVE  request.wdata \in SUBSET Bit /\ Selected(Bit) \in SUBSET Bit
BY ApbAssumption DEF ApbTypeOK, Selected

LEMMA ReadPlain ==
  ASSUME ApbTypeOK, NEW e \in Entry
  PROVE  ReadValue(e) \cap Plain[e] = reg[e] \cap Plain[e]
<1>1. sync_bits[e][SyncDepth] \subseteq Sampled[e]
  BY ApbAssumption DEF ApbTypeOK, Pipe
<1>2. Sampled[e] \cap Plain[e] = {}
  BY ApbAssumption DEF Stored
<1> QED BY <1>1, <1>2 DEF ReadValue

LEMMA BusStep ==
  ASSUME ApbTypeOK, PermittedInv, Posedge, Took
  PROVE  [RF!RegisterNext]_(RF!registerVars)
<1>2. ASSUME NEW w \in Entry, Storing(w) PROVE RF!RegisterNext
  <2>1. request.addr = w /\ \A e \in Entry : Storing(e) => e = w
    BY <1>2 DEF Storing, At
  <2>2. last' = [op |-> "write", word |-> w, value |-> request.wdata, mask |-> Selected(Bit)]
    BY <1>2, <2>1 DEF Took
  <2>3. [e \in Entry |-> reg'[e] \cap Plain[e]]
          = [[e \in Entry |-> reg[e] \cap Plain[e]] EXCEPT
               ![w] = RF!Merge(@, request.wdata, Selected(Bit) \cap Plain[w])]
    BY <1>2, <2>1, PlainStep
  <2>4. PICK value \in SUBSET Bit, mask \in SUBSET Bit :
          value = request.wdata /\ mask = Selected(Bit)
    BY RequestType
  <2>5. RF!Write(w, value, mask)
    BY <2>2, <2>3, <2>4 DEF RF!Write
  <2> QED BY <2>5 DEF RF!RegisterNext
<1>3. CASE ~ \E e \in Entry : Storing(e)
  <2>1. [e \in Entry |-> reg'[e] \cap Plain[e]] = [e \in Entry |-> reg[e] \cap Plain[e]]
    BY <1>3, PlainStep
  <2>2. CASE Ended /\ ~request.write /\ ~Err
    <3>1. request.addr \in Entry
      BY <2>2 DEF Ended, Err, PermittedInv
    <3>2. last' = [op |-> "read", word |-> request.addr,
                   value |-> reg[request.addr] \cap Plain[request.addr]]
      BY <1>3, <2>2, <3>1, ReadPlain DEF Took
    <3>3. RF!Read(request.addr)
      BY <2>1, <3>1, <3>2 DEF RF!Read
    <3> QED BY <3>1, <3>3 DEF RF!RegisterNext
  <2>3. CASE ~(Ended /\ ~request.write /\ ~Err)
    <3>1. last' = last
      BY <1>3, <2>3 DEF Took
    <3> QED BY <2>1, <3>1 DEF RF!registerVars
  <2> QED BY <2>2, <2>3
<1> QED BY <1>2, <1>3

(* Seen from the bus the plain registers are the abstract register file:   *)
(* each write that is not refused changes its selected bits at one         *)
(* instant, whatever it waits for, and nothing else changes them.          *)
THEOREM ApbImplementsRegisterFile == ApbSpec => ImplementsRegisterFile
<1>1. ApbInit => RF!RegisterInit
  <2> SUFFICES ASSUME ApbInit PROVE RF!RegisterInit
    OBVIOUS
  <2>1. [e \in Entry |-> reg[e] \cap Plain[e]] \in [Entry -> SUBSET Bit]
    BY TypeInit DEF ApbTypeOK
  <2> QED BY <2>1 DEF ApbInit, RF!RegisterInit
<1>2. ApbInit => PermittedInv
  BY DEF ApbInit, PermittedInv, Access
<1>3. ApbTypeOK /\ PermittedInv /\ [ApbNext]_vars => [RF!RegisterNext]_(RF!registerVars)
  <2> SUFFICES ASSUME ApbTypeOK, PermittedInv, [ApbNext]_vars
               PROVE  [RF!RegisterNext]_(RF!registerVars)
    OBVIOUS
  <2>1. Clock => Posedge /\ Took
    BY DEF Clock, Setup, Enable, Wait, Rest
  <2>2. UNCHANGED <<entryVars, last>> => UNCHANGED RF!registerVars
    BY DEF entryVars, RF!registerVars
  <2>3. ASSUME NEW h \in Handshakes, Answer(h) PROVE UNCHANGED <<entryVars, last>>
    BY <2>3 DEF Answer
  <2>4. ASSUME NEW e, NEW bits, Drive(e, bits) PROVE UNCHANGED <<entryVars, last>>
    BY <2>4 DEF Drive
  <2>5. UNCHANGED vars => UNCHANGED <<entryVars, last>>
    BY DEF vars
  <2> QED BY <2>1, <2>2, <2>3, <2>4, <2>5, BusStep DEF ApbNext
<1> QED BY <1>1, <1>2, <1>3, TypeInit, TypeStep, PermittedStep, PTL
        DEF ApbSpec, ImplementsRegisterFile, RF!RegisterSpec
-----------------------------------------------------------------------------
(* What a current access has seen.  The signal of its entry is among what  *)
(* it saw.                                                                 *)
SeenOK ==
  /\ seen \in [stored : BOOLEAN, loaded : SUBSET Fields, acked : BOOLEAN,
               signals : SUBSET (SUBSET Bit)]
  /\ \A e \in Entry : Access /\ At(e) => signals[e] \in seen.signals

(* The synchronizer that measures the delay holds one mark, from the setup *)
(* of an access with synchronized bits until it ends; the bits up to where *)
(* the mark has come are of this access.  The answer of a handshake comes  *)
(* after the mark.                                                         *)
DelayRuns == (\E k \in 1 .. SyncDepth : sync_delay[k]) \/ ready_sync_delay_r
DelayInv ==
  /\ DelayRuns <=> Access /\ \E e \in Entry : At(e) /\ Sampled[e] # {}
  /\ \A k \in 1 .. SyncDepth : sync_delay[k] =>
       /\ ~ready_sync_delay_r
       /\ \A j \in 1 .. SyncDepth : sync_delay[j] => j = k
       /\ \A h \in Handshakes : \A j \in k .. SyncDepth : reg_hs[h] => ~sync_ack[h][j]
       /\ \A e \in Entry : \A j \in 1 .. k : At(e) => sync_bits[e][j] \in seen.signals
  /\ ready_sync_delay_r =>
       \A e \in Entry : \A j \in 1 .. SyncDepth : At(e) => sync_bits[e][j] \in seen.signals

(* After its first cycle a write without a store has no permission.        *)
LaterCycle == \/ \E h \in Handshakes : reg_hs[h]
              \/ \E k \in 2 .. SyncDepth : sync_delay[k]
              \/ ready_sync_delay_r
PermissionInv ==
  Access /\ request.write /\ ~seen.stored =>
    /\ write_permitted <=> NextWritePermitted
    /\ LaterCycle => ~write_permitted

ErrInv == Access /\ request.write /\ seen.stored =>
            write_permitted /\ (NextWritePermitted \/ Ready)

(* A store loads all the triggers that it selects, once. *)
LoadInv ==
  /\ trg = IF Access THEN seen.loaded ELSE {}
  /\ seen.loaded # {} => seen.stored
  /\ \A p \in Fields : Access /\ seen.stored /\ At(p[1]) /\ Selected(p[2]) # {} => p \in seen.loaded

AwayInv == \A p \in Fields : Away(p) => p \in trg

LEMMA ClockKeeps ==
  ASSUME ApbTypeOK, Posedge
  PROVE  /\ ack' = ack /\ signals' = signals
         /\ \A h \in Handshakes : reg_hs'[h] <=> (reg_hs[h] \/ Raises(h)) /\ ~Lowers(h)
         /\ \A k \in 1 .. SyncDepth : sync_delay'[k] = IF k = 1 THEN StartsDelay ELSE sync_delay[k - 1]
         /\ \A e \in Entry, k \in 1 .. SyncDepth :
              sync_bits'[e][k] = IF k = 1 THEN signals[e] ELSE sync_bits[e][k - 1]
         /\ ready_sync_delay_r' = ((ready_sync_delay_r \/ sync_delay[SyncDepth]) /\ ~Ready)
BY DEF Posedge, Requesting, Synchronizers, Shifted, designVars

(* The steps in which the design and its peers move leave the bus alone.   *)
Outside == /\ UNCHANGED <<busVars, entryVars, syncVars>>
           /\ seen'.stored = seen.stored /\ seen'.loaded = seen.loaded
           /\ seen.signals \subseteq seen'.signals

LEMMA Steps ==
  ASSUME ApbTypeOK, SeenOK, [ApbNext]_vars
  PROVE  \/ \E r \in Request : Setup(r)
         \/ Enable \/ Wait \/ Rest
         \/ Outside
<1>1. ASSUME NEW h \in Handshakes, Answer(h) PROVE Outside
  BY <1>1 DEF Answer, Outside, SeenOK
<1>2. ASSUME NEW e \in Entry, NEW bits \in SUBSET Sampled[e], Drive(e, bits) PROVE Outside
  BY <1>2 DEF Drive, Outside, SeenOK
<1>3. UNCHANGED vars => Outside
  BY DEF vars, Outside
<1> QED BY <1>1, <1>2, <1>3 DEF ApbNext, Clock

LEMMA SeenInit == ApbInit => SeenOK
BY DEF ApbInit, SeenOK, Unseen, Access

LEMMA SeenStep ==
  ASSUME ApbTypeOK, SeenOK, [ApbNext]_vars
  PROVE  SeenOK'
<1> DEFINE T == [stored : BOOLEAN, loaded : SUBSET Fields, acked : BOOLEAN,
                 signals : SUBSET (SUBSET Bit)]
<1>0. Unseen \in T
  BY DEF Unseen
<1>1. ASSUME NEW r \in Request, Setup(r) PROVE SeenOK'
  BY <1>0, <1>1 DEF Setup, SeenOK, Access
<1>2. CASE Rest
  BY <1>0, <1>2 DEF Rest, SeenOK, Access
<1>3. CASE Enable
  <2>1. /\ seen' = [Unseen EXCEPT !.signals = {signals[e] : e \in {x \in Entry : At(x)}}]
        /\ request' = request /\ signals' = signals
    BY <1>3, ClockKeeps DEF Enable
  <2>2. {signals[e] : e \in {x \in Entry : At(x)}} \in SUBSET (SUBSET Bit)
    BY DEF ApbTypeOK
  <2>3. seen' \in T /\ seen'.signals = {signals[e] : e \in {x \in Entry : At(x)}}
    BY <1>0, <2>1, <2>2 DEF Unseen
  <2> QED BY <2>1, <2>3 DEF SeenOK, At
<1>4. CASE Wait
  <2>1. /\ seen' = Noted /\ request' = request /\ phase' = phase /\ signals' = signals
    BY <1>4, ClockKeeps DEF Wait, busVars
  <2>2. Loaded \subseteq Fields
    BY DEF Loaded
  <2>3. seen' \in T /\ seen'.signals = seen.signals
    BY <2>1, <2>2 DEF Noted, SeenOK
  <2> QED BY <2>1, <2>3 DEF SeenOK, At, Access
<1>5. ASSUME NEW h \in Handshakes, Answer(h) PROVE SeenOK'
  <2>1. /\ request' = request /\ phase' = phase /\ signals' = signals
        /\ seen' = [seen EXCEPT !.acked = @ \/ reg_hs[h]] /\ reg_hs[h] \in BOOLEAN
    BY <1>5 DEF Answer, busVars, ApbTypeOK
  <2>2. seen' \in T /\ seen'.signals = seen.signals
    BY <2>1 DEF SeenOK
  <2> QED BY <2>1, <2>2 DEF SeenOK, At, Access
<1>6. ASSUME NEW e \in Entry, NEW bits \in SUBSET Sampled[e], Drive(e, bits) PROVE SeenOK'
  <2>1. /\ request' = request /\ phase' = phase /\ signals' = [signals EXCEPT ![e] = bits]
        /\ seen' = [seen EXCEPT !.signals = IF At(e) /\ Access THEN @ \cup {bits} ELSE @]
    BY <1>6 DEF Drive, busVars
  <2>2. bits \in SUBSET Bit
    BY ApbAssumption
  <2>3. /\ seen' \in T
        /\ seen'.signals = IF At(e) /\ Access THEN seen.signals \cup {bits} ELSE seen.signals
    BY <2>1, <2>2 DEF SeenOK
  <2>4. ASSUME NEW x \in Entry, Access, At(x) PROVE signals'[x] \in seen'.signals
    BY <2>1, <2>3, <2>4 DEF SeenOK, ApbTypeOK
  <2> QED BY <2>1, <2>3, <2>4 DEF SeenOK, At, Access
<1>7. CASE UNCHANGED vars
  BY <1>7 DEF vars, busVars, designVars, SeenOK, At, Access
<1> QED BY <1>1, <1>2, <1>3, <1>4, <1>5, <1>6, <1>7 DEF ApbNext, Clock
LEMMA DelayInit == ApbInit => DelayInv
<1> SUFFICES ASSUME ApbInit PROVE DelayInv
  OBVIOUS
<1>1. \A k \in 1 .. SyncDepth : ~sync_delay[k]
  BY DEF ApbInit, Pipe
<1>2. ~ready_sync_delay_r /\ ~Access
  BY DEF ApbInit, Access
<1> QED BY <1>1, <1>2 DEF DelayInv, DelayRuns

(* An access with synchronized bits does not end before the mark has come  *)
(* out, be it by the delay or by a handshake.                              *)
LEMMA MarkOut ==
  ASSUME ApbTypeOK, DelayInv, Ended, NEW k \in 1 .. SyncDepth, sync_delay[k]
  PROVE  k = SyncDepth
<1> SUFFICES ASSUME k # SyncDepth PROVE FALSE
  OBVIOUS
<1>1. SyncDepth \in 1 .. SyncDepth /\ SyncDepth \in k .. SyncDepth
  BY ApbAssumption
<1>2. ~ready_sync_delay_r /\ ~sync_delay[SyncDepth]
  BY <1>1 DEF DelayInv
<1>3. \A h \in Handshakes : reg_hs[h] => ~AckSeen(h)
  BY <1>1 DEF DelayInv, AckSeen
<1>4. \E e \in Entry : At(e) /\ Sampled[e] # {}
  BY DEF DelayInv, DelayRuns
<1> QED BY <1>2, <1>3, <1>4 DEF Ended, Ready, DelayDone

(* Between accesses there is no mark. *)
LEMMA DelayBetween ==
  ASSUME ApbTypeOK, DelayInv, Posedge, phase = "idle" \/ Ended, ~Access'
  PROVE  DelayInv'
<1>1. phase # "setup"
  BY DEF Ended, Access
<1>2. ASSUME NEW k \in 1 .. SyncDepth PROVE ~sync_delay'[k]
  <2>1. CASE k = 1
    BY <1>1, <2>1, ClockKeeps DEF StartsDelay
  <2>2. CASE k # 1
    <3>1. k - 1 \in 1 .. SyncDepth /\ k - 1 # SyncDepth
      BY <2>2, ApbAssumption
    <3>2. ~sync_delay[k - 1]
      <4>1. CASE Ended
        BY <3>1, <4>1, MarkOut
      <4>2. CASE phase = "idle"
        BY <3>1, <4>2 DEF DelayInv, DelayRuns, Access
      <4> QED BY <4>1, <4>2
    <3> QED BY <2>2, <3>2, ClockKeeps
  <2> QED BY <2>1, <2>2
<1>3. ~ready_sync_delay_r'
  <2>1. CASE Ended
    BY <2>1, ClockKeeps DEF Ended
  <2>2. CASE phase = "idle"
    <3>1. ~ready_sync_delay_r /\ ~sync_delay[SyncDepth]
      BY <2>2, ApbAssumption DEF DelayInv, DelayRuns, Access
    <3> QED BY <3>1, ClockKeeps
  <2> QED BY <2>1, <2>2
<1>4. ~DelayRuns'
  BY <1>2, <1>3 DEF DelayRuns
<1> QED BY <1>2, <1>3, <1>4 DEF DelayInv

LEMMA DelayEnable ==
  ASSUME ApbTypeOK, SeenOK, DelayInv, Enable
  PROVE  DelayInv'
<1>1. /\ Posedge /\ phase = "setup" /\ Access' /\ request' = request
      /\ seen' = [Unseen EXCEPT !.signals = {signals[e] : e \in {x \in Entry : At(x)}}]
  BY DEF Enable, Access
<1>2. \A k \in 1 .. SyncDepth : ~sync_delay[k]
  BY <1>1 DEF DelayInv, DelayRuns, Access
<1>3. ~ready_sync_delay_r
  BY <1>1 DEF DelayInv, DelayRuns, Access
<1>4. \A k \in 1 .. SyncDepth :
        sync_delay'[k] <=> k = 1 /\ \E e \in Entry : At(e) /\ Sampled[e] # {}
  <2> SUFFICES ASSUME NEW k \in 1 .. SyncDepth
               PROVE  sync_delay'[k] <=> k = 1 /\ \E e \in Entry : At(e) /\ Sampled[e] # {}
    OBVIOUS
  <2>1. k # 1 => k - 1 \in 1 .. SyncDepth
    BY ApbAssumption
  <2>2. sync_delay'[k] = IF k = 1 THEN StartsDelay ELSE sync_delay[k - 1]
    BY <1>1, ClockKeeps
  <2>3. StartsDelay <=> \E e \in Entry : At(e) /\ Sampled[e] # {}
    BY <1>1 DEF StartsDelay
  <2> QED BY <1>2, <2>1, <2>2, <2>3
<1>5. ~ready_sync_delay_r'
  <2>1. ~sync_delay[SyncDepth]
    BY <1>2, ApbAssumption
  <2> QED BY <1>1, <1>3, <2>1, ClockKeeps
<1>6. \A h \in Handshakes : ~reg_hs'[h]
  BY <1>1, ClockKeeps DEF Lowers, Access
<1>7. \A e \in Entry : At(e) => sync_bits'[e][1] \in seen'.signals
  <2>1. seen'.signals = {signals[e] : e \in {x \in Entry : At(x)}}
    BY <1>1 DEF Unseen
  <2>2. \A e \in Entry : sync_bits'[e][1] = signals[e]
    BY <1>1, ClockKeeps, ApbAssumption
  <2> QED BY <2>1, <2>2
<1>8. 1 \in 1 .. SyncDepth
  BY ApbAssumption
<1>9. DelayRuns' <=> \E e \in Entry : At(e) /\ Sampled[e] # {}
  BY <1>4, <1>5, <1>8 DEF DelayRuns
<1>10. \A e \in Entry : At(e)' <=> At(e)
  BY <1>1 DEF At
<1>11. ASSUME NEW k \in 1 .. SyncDepth, sync_delay'[k]
       PROVE  /\ ~ready_sync_delay_r'
              /\ \A j \in 1 .. SyncDepth : sync_delay'[j] => j = k
              /\ \A h \in Handshakes : \A j \in k .. SyncDepth : reg_hs'[h] => ~sync_ack'[h][j]
              /\ \A e \in Entry : \A j \in 1 .. k : At(e)' => sync_bits'[e][j] \in seen'.signals
  <2>1. k = 1
    BY <1>4, <1>11
  <2>2. \A j \in 1 .. k : j = 1
    BY <2>1
  <2> QED BY <1>4, <1>5, <1>6, <1>7, <1>10, <2>1, <2>2
<1> QED BY <1>1, <1>5, <1>9, <1>10, <1>11 DEF DelayInv

LEMMA DelayWait ==
  ASSUME ApbTypeOK, HandshakeInv, SeenOK, DelayInv, Wait
  PROVE  DelayInv'
<1>1. /\ Posedge /\ ~Ready /\ Access /\ Access' /\ request' = request
      /\ phase' = phase /\ seen' = Noted
  BY DEF Wait, busVars, Access
<1>2. seen'.signals = seen.signals
  BY <1>1 DEF Noted, SeenOK
<1>3. \A e \in Entry : At(e)' <=> At(e)
  BY <1>1 DEF At
<1>4. ASSUME NEW k \in 1 .. SyncDepth
      PROVE  sync_delay'[k] <=> k # 1 /\ sync_delay[k - 1]
  <2>1. ~StartsDelay
    BY <1>1 DEF StartsDelay, Access
  <2>2. sync_delay'[k] = IF k = 1 THEN StartsDelay ELSE sync_delay[k - 1]
    BY <1>1, ClockKeeps
  <2>3. k # 1 => k - 1 \in 1 .. SyncDepth
    BY ApbAssumption
  <2> QED BY <2>1, <2>2, <2>3 DEF ApbTypeOK, Pipe
<1>5. ready_sync_delay_r' <=> ready_sync_delay_r \/ sync_delay[SyncDepth]
  BY <1>1, ClockKeeps, ApbAssumption DEF ApbTypeOK, Pipe
<1>6. DelayRuns' <=> DelayRuns
  <2>1. ASSUME NEW k \in 1 .. SyncDepth, sync_delay[k] PROVE DelayRuns'
    <3>1. CASE k = SyncDepth
      BY <1>5, <2>1, <3>1 DEF DelayRuns
    <3>2. CASE k # SyncDepth
      <4>1. k + 1 \in 1 .. SyncDepth /\ k + 1 # 1 /\ (k + 1) - 1 = k
        BY <3>2, ApbAssumption
      <4>2. sync_delay'[k + 1]
        BY <1>4, <2>1, <4>1
      <4> QED BY <4>1, <4>2 DEF DelayRuns
    <3> QED BY <3>1, <3>2
  <2>2. ASSUME NEW k \in 1 .. SyncDepth, sync_delay'[k] PROVE DelayRuns
    <3>1. k - 1 \in 1 .. SyncDepth
      BY <1>4, <2>2, ApbAssumption
    <3> QED BY <1>4, <2>2, <3>1 DEF DelayRuns
  <2>3. SyncDepth \in 1 .. SyncDepth
    BY ApbAssumption
  <2> QED BY <1>5, <2>1, <2>2, <2>3 DEF DelayRuns
<1>7. ASSUME NEW e \in Entry, At(e), NEW m \in 1 .. SyncDepth,
             \A j \in 1 .. m : j # 1 => sync_bits[e][j - 1] \in seen.signals
      PROVE  \A j \in 1 .. m : sync_bits'[e][j] \in seen'.signals
  <2> SUFFICES ASSUME NEW j \in 1 .. m PROVE sync_bits'[e][j] \in seen.signals
    BY <1>2
  <2>1. signals[e] \in seen.signals
    BY <1>1, <1>7 DEF SeenOK
  <2>2. j \in 1 .. SyncDepth
    BY ApbAssumption
  <2>3. sync_bits'[e][j] = IF j = 1 THEN signals[e] ELSE sync_bits[e][j - 1]
    BY <1>1, <2>2, ClockKeeps
  <2> QED BY <1>7, <2>1, <2>3
<1>8. ASSUME NEW k \in 1 .. SyncDepth, sync_delay'[k]
      PROVE  /\ ~ready_sync_delay_r'
             /\ \A j \in 1 .. SyncDepth : sync_delay'[j] => j = k
             /\ \A h \in Handshakes : \A j \in k .. SyncDepth : reg_hs'[h] => ~sync_ack'[h][j]
             /\ \A e \in Entry : \A j \in 1 .. k : At(e)' => sync_bits'[e][j] \in seen'.signals
  <2>1. k # 1 /\ k - 1 \in 1 .. SyncDepth /\ k - 1 # SyncDepth /\ sync_delay[k - 1]
    BY <1>4, <1>8, ApbAssumption
  <2>2. /\ ~ready_sync_delay_r
        /\ \A j \in 1 .. SyncDepth : sync_delay[j] => j = k - 1
        /\ \A h \in Handshakes : \A j \in (k - 1) .. SyncDepth : reg_hs[h] => ~sync_ack[h][j]
        /\ \A e \in Entry : \A j \in 1 .. (k - 1) : At(e) => sync_bits[e][j] \in seen.signals
    BY <2>1 DEF DelayInv
  <2>3. ~ready_sync_delay_r'
    BY <1>5, <2>1, <2>2, ApbAssumption
  <2>4. ASSUME NEW j \in 1 .. SyncDepth, sync_delay'[j] PROVE j = k
    <3>1. j # 1 /\ sync_delay[j - 1] /\ j - 1 \in 1 .. SyncDepth
      BY <1>4, <2>4, ApbAssumption
    <3>2. j - 1 = k - 1
      BY <2>2, <3>1
    <3> QED BY <3>2
  <2>5. ASSUME NEW h \in Handshakes, NEW j \in k .. SyncDepth, reg_hs'[h] PROVE ~sync_ack'[h][j]
    <3>1. j \in 1 .. SyncDepth /\ j # 1 /\ j - 1 \in (k - 1) .. SyncDepth /\ j - 1 \in 1 .. SyncDepth
      BY <2>1, ApbAssumption
    <3>2. sync_ack'[h][j] = sync_ack[h][j - 1]
      BY <1>1, <3>1, ShiftedAck
    <3>3. CASE reg_hs[h]
      BY <2>2, <3>1, <3>2, <3>3
    <3>4. CASE ~reg_hs[h]
      <4>1. ~AckSeen(h)
        BY <1>1, <2>5, <3>4, ClockKeeps DEF Raises
      <4>2. ~ack[h] => Filling(h, FALSE)
        BY <3>4 DEF HandshakeInv
      <4>3. ack[h] => Filled(h, TRUE)
        BY <3>4 DEF HandshakeInv
      <4>4. Filled(h, FALSE)
        <5>1. ~ack[h]
          BY <4>1, <4>3, FilledSeen
        <5>2. AckSeen(h) = FALSE
          BY <4>1, ApbAssumption DEF AckSeen, ApbTypeOK, Pipe
        <5> QED BY <4>2, <5>1, <5>2, Through
      <4> QED BY <3>1, <3>2, <4>4 DEF Filled
    <3> QED BY <3>3, <3>4
  <2>6. ASSUME NEW e \in Entry, At(e) PROVE \A j \in 1 .. k : sync_bits'[e][j] \in seen'.signals
    <3>1. ASSUME NEW j \in 1 .. k, j # 1 PROVE sync_bits[e][j - 1] \in seen.signals
      <4>1. j - 1 \in 1 .. (k - 1)
        BY <3>1
      <4> QED BY <2>2, <2>6, <4>1
    <3> QED BY <1>7, <2>6, <3>1
  <2> QED BY <1>3, <2>3, <2>4, <2>5, <2>6
<1>9. ASSUME ready_sync_delay_r', NEW e \in Entry, At(e)
      PROVE  \A j \in 1 .. SyncDepth : sync_bits'[e][j] \in seen'.signals
  <2>1. SyncDepth \in 1 .. SyncDepth
    BY ApbAssumption
  <2>2. \A j \in 1 .. SyncDepth : sync_bits[e][j] \in seen.signals
    BY <1>5, <1>9, <2>1 DEF DelayInv
  <2>3. ASSUME NEW j \in 1 .. SyncDepth, j # 1 PROVE sync_bits[e][j - 1] \in seen.signals
    <3>1. j - 1 \in 1 .. SyncDepth
      BY <2>3, ApbAssumption
    <3> QED BY <2>2, <3>1
  <2> QED BY <1>7, <1>9, <2>1, <2>3
<1>10. DelayRuns' <=> Access' /\ \E e \in Entry : At(e)' /\ Sampled[e] # {}
  BY <1>1, <1>3, <1>6 DEF DelayInv
<1> QED BY <1>3, <1>8, <1>9, <1>10 DEF DelayInv

LEMMA DelayOutside ==
  ASSUME SeenOK, DelayInv, Outside
  PROVE  DelayInv'
BY DEF Outside, busVars, entryVars, syncVars, DelayInv, DelayRuns, Access, At

(* The delay of the synchronizers is measured for the access that waits. *)
LEMMA DelayStep ==
  ASSUME ApbTypeOK, HandshakeInv, SeenOK, DelayInv, [ApbNext]_vars
  PROVE  DelayInv'
<1>1. ASSUME NEW r \in Request, Setup(r) PROVE DelayInv'
  BY <1>1, DelayBetween DEF Setup, Access
<1>2. CASE Rest
  BY <1>2, DelayBetween DEF Rest, Access
<1> QED BY <1>1, <1>2, Steps, DelayEnable, DelayWait, DelayOutside
(* Whatever a read waits for, the synchronized bits that it returns are    *)
(* those of a moment since it was enabled: not the ones of the last read,  *)
(* nor values that were still in the synchronizer.                         *)
THEOREM ApbReadsAreFresh == ApbSpec => []ReadsAreFresh
<1>1. ApbInit => ApbTypeOK /\ HandshakeInv /\ SeenOK /\ DelayInv
  BY TypeInit, HandshakeInit, SeenInit, DelayInit
<1>2. ASSUME ApbTypeOK, HandshakeInv, SeenOK, DelayInv, [ApbNext]_vars
      PROVE  (ApbTypeOK /\ HandshakeInv /\ SeenOK /\ DelayInv)'
  BY <1>2, TypeStep, HandshakeStep, SeenStep, DelayStep
<1>3. ASSUME ApbTypeOK, DelayInv PROVE ReadsAreFresh
  <2> SUFFICES ASSUME NEW e \in Entry, Ended, At(e), Sampled[e] # {}
               PROVE  \E s \in seen.signals : ReadValue(e) \cap Sampled[e] = s \cap Sampled[e]
    BY DEF ReadsAreFresh
  <2>1. sync_bits[e][SyncDepth] \in seen.signals
    <3>1. SyncDepth \in 1 .. SyncDepth
      BY ApbAssumption
    <3>2. DelayRuns
      BY <1>3 DEF DelayInv, Ended
    <3>3. ready_sync_delay_r \/ sync_delay[SyncDepth]
      BY <1>3, <3>2, MarkOut DEF DelayRuns
    <3> QED BY <1>3, <3>1, <3>3 DEF DelayInv
  <2>2. reg[e] \cap Sampled[e] = {}
    BY <1>3, ApbAssumption DEF ApbTypeOK
  <2> QED BY <2>1, <2>2 DEF ReadValue
<1> QED BY <1>1, <1>2, <1>3, PTL DEF ApbSpec

-----------------------------------------------------------------------------
(* Permissions and stores. *)

(* The protection changes only where a write stores to its register. *)
LEMMA ProtectionStays ==
  ASSUME ApbTypeOK, Posedge, ~Storing(ProtEntry)
  PROVE  ProtBit \in reg'[ProtEntry] <=> ProtBit \in reg[ProtEntry]
<1>1. Stores(ProtEntry) = {}
  BY DEF Stores
<1>2. ProtBit \notin GoesBack(ProtEntry)
  BY ProtAssumption, ApbAssumption DEF GoesBack
<1> QED BY <1>1, <1>2, ProtAssumption DEF Posedge, Registers

LEMMA PermissionStays ==
  ASSUME ApbTypeOK, Posedge, ~Storing(ProtEntry), request' = request
  PROVE  NextWritePermitted' <=> NextWritePermitted
BY ProtectionStays DEF NextWritePermitted, At, Allowed, ProtOk

LEMMA StoresPermitted ==
  ASSUME Access, request.write
  PROVE  NextWritePermitted <=> \E e \in Entry : Storing(e)
BY DEF NextWritePermitted, Storing

LEMMA PermissionInit == ApbInit => PermissionInv /\ ErrInv
BY DEF ApbInit, PermissionInv, ErrInv, Access

LEMMA WaitNotes ==
  ASSUME ApbTypeOK, SeenOK, Wait
  PROVE  /\ Posedge /\ ~Ready /\ Access /\ request' = request /\ phase' = phase /\ Access'
         /\ seen'.stored = (seen.stored \/ \E e \in Entry : Storing(e))
         /\ seen'.loaded = seen.loaded \cup Loaded
         /\ trg' = trg \cup Loaded
         /\ request.write => write_permitted' = NextWritePermitted
BY DEF Wait, busVars, Noted, SeenOK, Access, Posedge, Registers, Permissions

LEMMA EnableNotes ==
  ASSUME ApbTypeOK, Enable
  PROVE  /\ Posedge /\ phase = "setup" /\ ~Access /\ Access' /\ request' = request
         /\ ~seen'.stored /\ seen'.loaded = {}
         /\ request.write => write_permitted' = NextWritePermitted
BY DEF Enable, Unseen, Access, Posedge, Permissions

(* In its first cycle an access has no request, and its mark is in front.  *)
LEMMA FirstCycle ==
  ASSUME ApbTypeOK, DelayInv, Enable
  PROVE  ~LaterCycle'
<1>1. Posedge /\ phase = "setup" /\ ~Access
  BY EnableNotes
<1>2. \A k \in 1 .. SyncDepth : ~sync_delay[k]
  BY <1>1 DEF DelayInv, DelayRuns
<1>3. ~ready_sync_delay_r
  BY <1>1 DEF DelayInv, DelayRuns
<1>4. \A h \in Handshakes : ~reg_hs'[h]
  BY <1>1, ClockKeeps DEF Lowers
<1>5. ASSUME NEW k \in 2 .. SyncDepth PROVE ~sync_delay'[k]
  <2>1. k \in 1 .. SyncDepth /\ k # 1 /\ k - 1 \in 1 .. SyncDepth
    BY ApbAssumption
  <2> QED BY <1>1, <1>2, <2>1, ClockKeeps
<1>6. ~ready_sync_delay_r'
  <2>1. ~sync_delay[SyncDepth]
    BY <1>2, ApbAssumption
  <2> QED BY <1>1, <1>3, <2>1, ClockKeeps
<1> QED BY <1>4, <1>5, <1>6 DEF LaterCycle

LEMMA PermissionStep ==
  ASSUME ApbTypeOK, SeenOK, DelayInv, PermissionInv, [ApbNext]_vars
  PROVE  PermissionInv'
<1>1. CASE ~Access'
  BY <1>1 DEF PermissionInv
<1>2. CASE Enable
  <2>1. /\ Posedge /\ ~Access /\ request' = request
        /\ request.write => write_permitted' = NextWritePermitted
    BY <1>2, EnableNotes
  <2>2. NextWritePermitted' <=> NextWritePermitted
    BY <2>1, PermissionStays DEF Storing
  <2> QED BY <1>2, <2>1, <2>2, FirstCycle DEF PermissionInv
<1>3. CASE Wait
  <2> SUFFICES ASSUME request.write, ~seen'.stored
               PROVE  (write_permitted' <=> NextWritePermitted') /\ ~write_permitted'
    BY <1>3, WaitNotes DEF PermissionInv
  <2>1. ~NextWritePermitted /\ \A e \in Entry : ~Storing(e)
    BY <1>3, WaitNotes, StoresPermitted
  <2>2. ~NextWritePermitted'
    BY <1>3, <2>1, WaitNotes, PermissionStays, ProtAssumption
  <2> QED BY <1>3, <2>1, <2>2, WaitNotes
<1>4. CASE Outside
  BY <1>4 DEF Outside, busVars, entryVars, syncVars, PermissionInv, Access,
              NextWritePermitted, At, Allowed, ProtOk, LaterCycle
<1>5. (\E r \in Request : Setup(r)) \/ Rest => ~Access'
  BY DEF Setup, Rest, Access
<1> QED BY <1>1, <1>2, <1>3, <1>4, <1>5, Steps

(* A write to the entry that holds the protection takes two cycles at      *)
(* most, unless it waits for the delay of synchronized bits there.         *)
LEMMA ErrStep ==
  ASSUME Sampled[ProtEntry] = {},
         ApbTypeOK, SeenOK, PermissionInv, ErrInv, [ApbNext]_vars
  PROVE  ErrInv'
<1>1. CASE ~Access'
  BY <1>1 DEF ErrInv
<1>2. CASE Enable
  BY <1>2, EnableNotes DEF ErrInv
<1>3. CASE Wait
  <2> SUFFICES ASSUME request.write, seen'.stored
               PROVE  write_permitted' /\ (NextWritePermitted' \/ Ready')
    BY <1>3, WaitNotes DEF ErrInv
  <2>1. NextWritePermitted
    BY <1>3, WaitNotes, StoresPermitted DEF ErrInv
  <2>2. write_permitted'
    BY <1>3, <2>1, WaitNotes
  <2>3. CASE ~At(ProtEntry)
    BY <1>3, <2>1, <2>3, WaitNotes, PermissionStays DEF Storing
  <2>4. CASE At(ProtEntry)
    <3>1. \A e \in Entry : At(e) => e = ProtEntry
      BY <2>4 DEF At
    <3>2. Storing(ProtEntry)
      BY <1>3, <2>1, <3>1, WaitNotes, StoresPermitted DEF Storing
    <3>3. request' = request /\ trg' = trg \cup Loaded
      BY <1>3, WaitNotes
    <3>4. \A h \in Handshakes : ~Requests(h)'
      BY <3>1, <3>3, ProtAssumption DEF Requests, At, Handshakes
    <3>5. ASSUME NEW e \in Entry, TriggerWrite(e)' PROVE TriggerReady(e)'
      <4>1. e = ProtEntry
        BY <3>1, <3>3, <3>5 DEF TriggerWrite, At
      <4>2. PICK b \in Triggers(e) : ByteOf[b] \in request.bytesel
        BY <3>3, <3>5 DEF TriggerWrite, Selected
      <4>3. PICK f \in Trigger[e] : b \in f
        BY <4>2 DEF Triggers
      <4>4. Selected(f) # {}
        BY <4>2, <4>3 DEF Selected
      <4>5. <<e, f>> \in Fields
        BY <4>3 DEF Fields
      <4>6. <<e, f>> \in trg \cup Loaded
        BY <3>2, <4>1, <4>4, <4>5 DEF Loaded, Loads
      <4> QED BY <3>3, <4>3, <4>6 DEF TriggerReady
    <3>6. ~ \E e \in Entry : At(e)' /\ Sampled[e] # {}
      BY <3>1, <3>3 DEF At
    <3> QED BY <2>2, <3>4, <3>5, <3>6 DEF Ready
  <2> QED BY <2>2, <2>3, <2>4
<1>4. CASE Outside
  BY <1>4 DEF Outside, busVars, entryVars, syncVars, ErrInv, Access,
              NextWritePermitted, At, Allowed, ProtOk, Ready, Requests, AckSeen,
              DelayDone, TriggerWrite, TriggerReady, Selected
<1>5. (\E r \in Request : Setup(r)) \/ Rest => ~Access'
  BY DEF Setup, Rest, Access
<1> QED BY <1>1, <1>2, <1>3, <1>4, <1>5, Steps

LEMMA PermissionAlways ==
  ApbSpec => [](ApbTypeOK /\ HandshakeInv /\ SeenOK /\ DelayInv /\ PermissionInv)
<1>1. ApbInit => ApbTypeOK /\ HandshakeInv /\ SeenOK /\ DelayInv /\ PermissionInv
  BY TypeInit, HandshakeInit, SeenInit, DelayInit, PermissionInit
<1>2. ASSUME ApbTypeOK, HandshakeInv, SeenOK, DelayInv, PermissionInv, [ApbNext]_vars
      PROVE  (ApbTypeOK /\ HandshakeInv /\ SeenOK /\ DelayInv /\ PermissionInv)'
  BY <1>2, TypeStep, HandshakeStep, SeenStep, DelayStep, PermissionStep
<1> QED BY <1>1, <1>2, PTL DEF ApbSpec

(* slverr tells a refused write from a stored one, in every access of      *)
(* every length, unless the protection is kept with synchronized bits:     *)
(* there a write may lose its permission by what it stored itself.         *)
THEOREM ApbErrTells ==
  ASSUME Sampled[ProtEntry] = {}
  PROVE  ApbSpec => []ErrTells
<1>1. ApbInit => ErrInv
  BY PermissionInit
<1>2. ASSUME ApbTypeOK, SeenOK, PermissionInv, ErrInv, [ApbNext]_vars PROVE ErrInv'
  BY <1>2, ErrStep
<1>3. ASSUME ApbTypeOK, SeenOK, PermissionInv, ErrInv PROVE ErrTells
  <2> SUFFICES ASSUME Ended, request.write PROVE Err <=> ~Noted.stored
    BY DEF ErrTells
  <2>1. Noted.stored = (seen.stored \/ \E e \in Entry : Storing(e))
    BY <1>3 DEF Noted, SeenOK
  <2>2. Access /\ (Err <=> ~write_permitted)
    BY DEF Ended, Err
  <2>3. CASE seen.stored
    BY <1>3, <2>1, <2>2, <2>3 DEF ErrInv
  <2>4. CASE ~seen.stored
    BY <1>3, <2>1, <2>2, <2>4, StoresPermitted DEF PermissionInv
  <2> QED BY <2>3, <2>4
<1> QED BY <1>1, <1>2, <1>3, PermissionAlways, PTL DEF ApbSpec
-----------------------------------------------------------------------------
(* Triggers. *)

LEMMA LoadInit == ApbInit => LoadInv /\ AwayInv
<1> SUFFICES ASSUME ApbInit PROVE LoadInv /\ AwayInv
  OBVIOUS
<1>1. LoadInv
  BY DEF ApbInit, LoadInv, Access, Unseen
<1>2. ASSUME NEW p \in Fields PROVE ~Away(p)
  <2>1. p[1] \in Entry /\ p[2] \in Trigger[p[1]]
    BY DEF Fields
  <2>2. p[2] \subseteq Stored(p[1])
    BY <2>1 DEF Stored, Triggers
  <2> QED BY <2>1, <2>2 DEF ApbInit, Away
<1> QED BY <1>1, <1>2 DEF AwayInv

(* A register that was loaded goes back, and another leaves its reset      *)
(* value only by being loaded.                                             *)
LEMMA TriggerStep ==
  ASSUME ApbTypeOK, Posedge, NEW e \in Entry, NEW f \in Trigger[e]
  PROVE  /\ <<e, f>> \in trg => ~Away(<<e, f>>)'
         /\ ~Away(<<e, f>>) /\ Away(<<e, f>>)' => <<e, f>> \in Loaded /\ <<e, f>> \notin trg
<1>1. reg'[e] = (reg[e] \ (Stores(e) \cup GoesBack(e))) \cup (request.wdata \cap Stores(e))
                \cup (Reset[e] \cap GoesBack(e))
  BY DEF Posedge, Registers
<1>2. f \cap Plain[e] = {} /\ \A g \in Trigger[e] \ {f} : f \cap g = {}
  BY ApbAssumption
<1>3. CASE <<e, f>> \in trg
  <2>1. f \subseteq GoesBack(e)
    BY <1>3 DEF GoesBack
  <2>2. f \cap Stores(e) = {}
    BY <1>2, <1>3 DEF Stores, Selected
  <2>3. reg'[e] \cap f = Reset[e] \cap f
    BY <1>1, <2>1, <2>2
  <2> QED BY <1>3, <2>3 DEF Away
<1>4. CASE <<e, f>> \notin trg
  <2>1. f \cap GoesBack(e) = {}
    BY <1>2, <1>4 DEF GoesBack
  <2>2. CASE f \cap Stores(e) = {}
    <3>1. reg'[e] \cap f = reg[e] \cap f
      BY <1>1, <2>1, <2>2
    <3> QED BY <1>4, <3>1 DEF Away
  <2>3. CASE f \cap Stores(e) # {}
    <3>1. Storing(e) /\ Selected(f) # {}
      BY <2>3 DEF Stores, Selected
    <3>2. <<e, f>> \in Loaded
      BY <1>4, <3>1 DEF Loaded, Loads, Fields
    <3> QED BY <1>4, <3>2
  <2> QED BY <2>2, <2>3
<1> QED BY <1>3, <1>4

LEMMA AwayStep ==
  ASSUME ApbTypeOK, SeenOK, AwayInv, [ApbNext]_vars
  PROVE  AwayInv'
<1>1. CASE Posedge
  <2> SUFFICES ASSUME NEW e \in Entry, NEW f \in Trigger[e], Away(<<e, f>>)'
               PROVE  <<e, f>> \in trg'
    BY DEF AwayInv, Fields
  <2>1. <<e, f>> \in Fields
    BY DEF Fields
  <2>2. <<e, f>> \notin trg
    BY <1>1, TriggerStep
  <2>3. <<e, f>> \in Loaded
    BY <1>1, <2>1, <2>2, TriggerStep DEF AwayInv
  <2> QED BY <1>1, <2>3 DEF Posedge, Registers
<1>2. CASE Outside
  BY <1>2 DEF Outside, entryVars, AwayInv, Away
<1>3. Posedge \/ Outside
  BY Steps DEF Setup, Enable, Wait, Rest
<1> QED BY <1>1, <1>2, <1>3

(* An access that stores does so in its first cycle; one that stores in    *)
(* its last cycle loads no trigger then.  With a synchronizer of a single  *)
(* register a write to an entry that also holds synchronized bits would    *)
(* end at once and load its triggers for the next access.                  *)
DelayLastsLonger == SyncDepth > 1 \/ \A e \in Entry : Trigger[e] = {} \/ Sampled[e] = {}

(* An access that selects triggers and ends is in a later cycle, or there  *)
(* is a trigger that was loaded.                                           *)
LEMMA EndsLater ==
  ASSUME DelayLastsLonger, ApbTypeOK, DelayInv, Ended, NEW e \in Entry, NEW f \in Trigger[e],
         request.write, At(e), Selected(f) # {}
  PROVE  LaterCycle \/ trg # {}
<1>1. CASE \E h \in Handshakes : Requests(h)
  BY <1>1 DEF Ended, Ready, LaterCycle
<1>2. CASE (~ \E h \in Handshakes : Requests(h)) /\ \E x \in Entry : At(x) /\ Sampled[x] # {}
  <2>1. Sampled[e] # {}
    BY <1>2 DEF At
  <2>2. SyncDepth \in 2 .. SyncDepth
    BY <2>1, ApbAssumption DEF DelayLastsLonger
  <2>3. sync_delay[SyncDepth] \/ ready_sync_delay_r
    BY <1>2 DEF Ended, Ready, DelayDone
  <2> QED BY <2>2, <2>3 DEF LaterCycle
<1>3. CASE /\ ~ \E h \in Handshakes : Requests(h)
           /\ ~ \E x \in Entry : At(x) /\ Sampled[x] # {}
  <2>1. TriggerWrite(e)
    BY DEF TriggerWrite, Selected, Triggers
  <2>2. TriggerReady(e)
    BY <1>3, <2>1 DEF Ended, Ready
  <2> QED BY <2>2 DEF TriggerReady
<1> QED BY <1>1, <1>2, <1>3

LEMMA LoadedLast ==
  ASSUME DelayLastsLonger, ApbTypeOK, SeenOK, DelayInv, PermissionInv, LoadInv, Ended
  PROVE  Loaded = {}
<1> SUFFICES ASSUME NEW p \in Loaded PROVE FALSE
  OBVIOUS
<1>0. PICK e \in Entry : \E g \in Trigger[e] : p = <<e, g>>
  BY DEF Loaded, Fields
<1>1. PICK f \in Trigger[e] : p = <<e, f>>
  BY <1>0
<1>2. Storing(e) /\ Selected(f) # {} /\ <<e, f>> \notin trg /\ <<e, f>> \in Fields
  BY <1>1 DEF Loaded, Loads
<1>3. Access /\ request.write /\ At(e) /\ trg = seen.loaded
  BY <1>2 DEF Storing, LoadInv
<1>4. ~seen.stored
  BY <1>2, <1>3 DEF LoadInv
<1>5. write_permitted /\ ~LaterCycle
  BY <1>2, <1>3, <1>4, StoresPermitted DEF PermissionInv
<1>6. trg = {}
  BY <1>3, <1>4 DEF LoadInv
<1> QED BY <1>2, <1>3, <1>5, <1>6, EndsLater

LEMMA LoadStep ==
  ASSUME DelayLastsLonger, ApbTypeOK, SeenOK, DelayInv, PermissionInv, LoadInv, [ApbNext]_vars
  PROVE  LoadInv'
<1>1. Access => \A p : p \in Loaded => \E e \in Entry : Storing(e)
  BY DEF Loaded, Loads, Fields
<1>2. ~Access => Loaded = {}
  BY DEF Loaded, Loads, Storing
<1>3. ASSUME phase = "idle" \/ Ended, Posedge, ~Access', seen' = Unseen
      PROVE  LoadInv'
  <2>1. Loaded = {}
    BY <1>2, <1>3, LoadedLast DEF Access
  <2>2. trg' = {}
    BY <1>3, <2>1 DEF Posedge, Registers, LoadInv, Ended, Access
  <2> QED BY <1>3, <2>2 DEF LoadInv, Unseen
<1>4. CASE Enable
  <2>1. trg' = {}
    BY <1>2, <1>4, EnableNotes DEF Posedge, Registers, LoadInv
  <2> QED BY <1>4, <2>1, EnableNotes DEF LoadInv
<1>5. CASE Wait
  <2>1. trg' = seen'.loaded
    BY <1>5, WaitNotes DEF LoadInv
  <2>2. seen'.loaded # {} => seen'.stored
    BY <1>1, <1>5, WaitNotes DEF LoadInv
  <2>3. ASSUME NEW p \in Fields, seen'.stored, At(p[1])', (Selected(p[2]) # {})'
        PROVE  p \in seen'.loaded
    <3>1. At(p[1]) /\ Selected(p[2]) # {}
      BY <1>5, <2>3, WaitNotes DEF At, Selected
    <3>2. CASE seen.stored
      BY <1>5, <2>3, <3>1, <3>2, WaitNotes DEF LoadInv
    <3>3. CASE ~seen.stored
      <4>1. PICK e \in Entry : Storing(e)
        BY <1>5, <2>3, <3>3, WaitNotes
      <4>2. p = <<p[1], p[2]>> /\ p[2] \in Trigger[p[1]]
        BY DEF Fields
      <4>3. p[1] = e
        BY <3>1, <4>1 DEF At, Storing
      <4>4. p \in trg \cup Loaded
        BY <2>3, <3>1, <4>1, <4>2, <4>3 DEF Loaded, Loads
      <4> QED BY <1>5, <2>1, <4>4, WaitNotes
    <3> QED BY <3>2, <3>3
  <2> QED BY <1>5, <2>1, <2>2, <2>3, WaitNotes DEF LoadInv
<1>6. CASE Outside
  BY <1>6 DEF Outside, busVars, entryVars, LoadInv, Access, At, Selected
<1>7. CASE Rest
  BY <1>3, <1>7 DEF Rest, Access
<1>8. ASSUME NEW r \in Request, Setup(r) PROVE LoadInv'
  BY <1>3, <1>8 DEF Setup, Access
<1> QED BY <1>4, <1>5, <1>6, <1>7, <1>8, Steps

(* What ends with its permission has loaded what it selects. *)
LEMMA EndsLoaded ==
  ASSUME DelayLastsLonger, ApbTypeOK, DelayInv, PermissionInv, LoadInv,
         NEW p \in Fields, Ended, request.write, ~Err, At(p[1]), Selected(p[2]) # {}
  PROVE  p \in seen.loaded
<1>1. Access /\ write_permitted /\ trg = seen.loaded
  BY DEF Ended, Err, LoadInv
<1>2. p[1] \in Entry /\ p[2] \in Trigger[p[1]]
  BY DEF Fields
<1>3. seen.stored
  <2>1. LaterCycle \/ trg # {}
    BY <1>2, EndsLater
  <2> QED BY <1>1, <2>1 DEF LoadInv, PermissionInv
<1> QED BY <1>1, <1>3 DEF LoadInv

(* A signal that is driven as it is changes nothing. *)
LEMMA SameSignal ==
  ASSUME ApbTypeOK, SeenOK, NEW e \in Entry, NEW bits \in SUBSET Sampled[e], Drive(e, bits),
         UNCHANGED designVars
  PROVE  UNCHANGED vars
<1>1. bits = signals[e]
  BY DEF Drive, designVars, ApbTypeOK
<1>2. seen' = [seen EXCEPT !.signals = IF At(e) /\ Access THEN @ \cup {bits} ELSE @]
  BY DEF Drive
<1>3. (IF At(e) /\ Access THEN seen.signals \cup {bits} ELSE seen.signals) = seen.signals
  BY <1>1 DEF SeenOK
<1>4. seen' = seen
  BY <1>2, <1>3 DEF SeenOK
<1> QED BY <1>4 DEF Drive, designVars, vars

LEMMA OnceStep ==
  ASSUME ApbTypeOK, SeenOK, LoadInv, AwayInv, [ApbNext]_vars, ~ UNCHANGED vars, NEW p \in Fields
  PROVE  /\ Away(p) /\ UNCHANGED designVars => ~Away(p)'
         /\ ~Away(p) /\ Away(p)' => p \notin seen.loaded
<1> PICK e \in Entry : \E g \in Trigger[e] : p = <<e, g>>
  BY DEF Fields
<1>0. PICK f \in Trigger[e] : p = <<e, f>>
  OBVIOUS
<1>1. CASE Clock
  <2>0. Posedge
    BY <1>1 DEF Clock, Setup, Enable, Wait, Rest
  <2>1. Away(p) => p \in trg
    BY DEF AwayInv
  <2>2. p \in trg => ~Away(p)'
    BY <1>0, <2>0, TriggerStep
  <2>3. ~Away(p) /\ Away(p)' => p \in Loaded /\ p \notin trg
    BY <1>0, <2>0, TriggerStep
  <2>4. p \in Loaded => Access
    BY DEF Loaded, Loads, Storing
  <2>5. Access => trg = seen.loaded
    BY DEF LoadInv
  <2> QED BY <2>1, <2>2, <2>3, <2>4, <2>5
<1>2. ASSUME NEW h \in Handshakes, Answer(h)
      PROVE  ~ UNCHANGED designVars /\ Away(p)' = Away(p)
  BY <1>2 DEF Answer, designVars, entryVars, Away, ApbTypeOK
<1>3. ASSUME NEW x \in Entry, NEW bits \in SUBSET Sampled[x], Drive(x, bits)
      PROVE  ~ UNCHANGED designVars /\ Away(p)' = Away(p)
  BY <1>3, SameSignal DEF Drive, entryVars, Away
<1> QED BY <1>1, <1>2, <1>3 DEF ApbNext

(* A trigger register is away from its reset value for one cycle, once in  *)
(* an access, and in every write of it that is not refused, whatever its   *)
(* entry waits for.                                                        *)
THEOREM ApbTriggersOnce ==
  ASSUME DelayLastsLonger
  PROVE  ApbSpec => TriggersOnce
<1> DEFINE Once == \A p \in Fields :
             /\ Away(p) /\ UNCHANGED designVars => ~Away(p)'
             /\ ~Away(p) /\ Away(p)' => p \notin seen.loaded
             /\ Ended /\ phase' # "access" /\ request.write /\ ~Err
                  /\ At(p[1]) /\ Selected(p[2]) # {} => p \in seen.loaded
<1>1. ApbInit => LoadInv /\ AwayInv
  BY LoadInit
<1>2. ASSUME ApbTypeOK, SeenOK, DelayInv, PermissionInv, LoadInv, AwayInv, [ApbNext]_vars
      PROVE  (LoadInv /\ AwayInv)'
  BY <1>2, LoadStep, AwayStep
<1>3. ASSUME ApbTypeOK, SeenOK, DelayInv, PermissionInv, LoadInv, AwayInv, [ApbNext]_vars
      PROVE  [Once]_vars
  <2> SUFFICES ASSUME ~ UNCHANGED vars PROVE Once
    OBVIOUS
  <2>1. ASSUME NEW p \in Fields, Ended, request.write, ~Err, At(p[1]), Selected(p[2]) # {}
        PROVE  p \in seen.loaded
    BY <1>3, <2>1, EndsLoaded
  <2> QED BY <1>3, <2>1, OnceStep
<1> QED BY <1>1, <1>2, <1>3, PermissionAlways, PTL DEF ApbSpec, TriggersOnce
=============================================================================
