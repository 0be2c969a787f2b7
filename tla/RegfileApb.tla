----------------------------- MODULE RegfileApb -----------------------------
(***************************************************************************)
(* The register file that the template regfile.wtf.vh generates in         *)
(* Verilog, between an APB master, the rest of the design, which drives    *)
(* the read signals, and peers that answer handshakes from other clocks.   *)
(*                                                                         *)
(* Each step of the clock is one action: all the registers of the          *)
(* template take their next values from the current ones, and the master   *)
(* moves on.  Peers and signals change at any time between.  A number is   *)
(* the set of the positions of its ones; reset is left out.                *)
(***************************************************************************)
EXTENDS Naturals

CONSTANTS
  Entry, Bit,
  Other,          \* addresses without an entry
  ByteOf,         \* ByteOf[b]: the byte of bit b
  Plain,          \* Plain[e]: bits of the registers RW of e
  Trigger,        \* Trigger[e]: the bits of each register TRW of e
  Sampled,        \* Sampled[e]: bits of the registers RS of e
  Direct,         \* Direct[e]: bits of the registers R of e, wires to signals
  Reset,          \* Reset[e]: the reset value of e
  Protected,      \* entries with the flag protected
  ProtEntry, ProtBit,   \* the register behind the signal prot_enable
  Handshake,      \* Handshake[e]: the handshake of e, or NoHandshake
  NoHandshake,
  SyncDepth,      \* registers in a row in a synchronizer
  Request,        \* the accesses the master may make
  Released        \* what the master drives between accesses

Handshakes == {Handshake[e] : e \in Entry} \ {NoHandshake}
Triggers(e) == UNION Trigger[e]
Stored(e) == Plain[e] \cup Triggers(e)
Fields == UNION {{e} \X Trigger[e] : e \in Entry}

ASSUME ApbAssumption ==
  /\ Plain \in [Entry -> SUBSET Bit] /\ Sampled \in [Entry -> SUBSET Bit]
  /\ Direct \in [Entry -> SUBSET Bit] /\ Reset \in [Entry -> SUBSET Bit]
  /\ Trigger \in [Entry -> SUBSET (SUBSET Bit)]
  /\ \A e \in Entry : \A f \in Trigger[e] :
       f # {} /\ f \cap Plain[e] = {} /\ \A g \in Trigger[e] \ {f} : f \cap g = {}
  /\ \A e \in Entry : Sampled[e] \cap Stored(e) = {}
  /\ Protected \subseteq Entry
  /\ Entry \cap Other = {}
  /\ SyncDepth \in Nat \ {0}
  /\ Request \cup {Released} \subseteq [addr : Entry \cup Other, write : BOOLEAN, wdata : SUBSET Bit,
                                     bytesel : SUBSET {ByteOf[b] : b \in Bit}, prot : BOOLEAN]

(* The register that switches the protection on is a plain one and not     *)
(* itself behind a handshake: an access could lose its permission on the   *)
(* way.                                                                    *)
ASSUME ProtAssumption ==
  /\ ProtEntry \in Entry /\ ProtBit \in Plain[ProtEntry]
  /\ Handshake[ProtEntry] = NoHandshake

VARIABLES
  phase,          \* of the master: "idle", "setup" (sel), "access" (sel, enable)
  request,        \* what the master drives
  reg,            \* reg[e]: the stored bits of e
  trg,            \* the trigger registers that hold a value, as <<entry, bits>>
  write_permitted, read_permitted,
  reg_hs,         \* reg_hs[h]: the request of handshake h
  sync_ack,       \* sync_ack[h]: the synchronizer of its answer
  sync_bits,      \* sync_bits[e]: the synchronizer of the registers RS of e
  sync_delay,     \* the synchronizer that measures their delay
  ready_sync_delay_r,
  ack,            \* ack[h]: the answer of the peer
  signals,        \* signals[e]: what the design drives on the signals RS of e
  last,           \* the access that took effect last
  seen            \* of the current access: stores, loads, answers and signals

busVars == <<phase, request>>
entryVars == <<reg, trg, write_permitted, read_permitted>>
syncVars == <<reg_hs, sync_ack, sync_bits, sync_delay, ready_sync_delay_r>>
designVars == <<ack, signals>>
vars == <<busVars, entryVars, syncVars, designVars, last, seen>>

Pipe(S) == [1 .. SyncDepth -> S]
Unseen == [stored |-> FALSE, loaded |-> {}, acked |-> FALSE, signals |-> {}]

ApbInit ==
  /\ phase = "idle"
  /\ request = Released
  /\ reg = [e \in Entry |-> Reset[e] \cap Stored(e)]
  /\ trg = {}
  /\ write_permitted = FALSE /\ read_permitted = FALSE
  /\ reg_hs = [h \in Handshakes |-> FALSE]
  /\ sync_ack \in [Handshakes -> Pipe({FALSE})]
  /\ sync_bits \in [Entry -> Pipe({{}})]
  /\ sync_delay \in Pipe({FALSE})
  /\ ready_sync_delay_r = FALSE
  /\ ack = [h \in Handshakes |-> FALSE]
  /\ signals = [e \in Entry |-> {}]
  /\ last = [op |-> "none"]
  /\ seen = Unseen

-----------------------------------------------------------------------------
(* The combinational signals. *)
At(e) == request.addr = e
Selected(bits) == {b \in bits : ByteOf[b] \in request.bytesel}
Access == phase = "access"

ProtOk == request.prot \/ ProtBit \notin reg[ProtEntry]
Allowed(e) == e \in Protected => ProtOk

(* A write cycle that reaches the registers of e. *)
Storing(e) == Access /\ request.write /\ At(e) /\ Allowed(e) /\ Stored(e) # {}

AckSeen(h) == sync_ack[h][SyncDepth]

(* The cycles a handshake is about: writes only, where there is nothing to *)
(* read.  The signal w_sel needs sel.                                      *)
Requests(h) == \E e \in Entry :
  /\ Handshake[e] = h /\ At(e) /\ Allowed(e)
  /\ Sampled[e] \cup Direct[e] = {} => request.write /\ phase # "idle"

(* Fault: the delay of the synchronizer is not waited for. *)
DelayDone_Always == TRUE
DelayDone == sync_delay[SyncDepth] \/ ready_sync_delay_r

(* A trigger register answers the write with the cycle after it was        *)
(* loaded.  Later assignments win: handshakes over RS over triggers.       *)
TriggerWrite(e) == At(e) /\ request.write /\ Selected(Triggers(e)) # {}
TriggerReady(e) == \E f \in Trigger[e] : <<e, f>> \in trg

Ready ==
  IF \E h \in Handshakes : Requests(h)
  THEN \E h \in Handshakes : Requests(h) /\ AckSeen(h) /\ reg_hs[h]
  ELSE IF \E e \in Entry : At(e) /\ Sampled[e] # {} THEN DelayDone
  ELSE \A e \in Entry : TriggerWrite(e) => TriggerReady(e)

Err == /\ Access
       /\ IF request.write THEN ~write_permitted ELSE ~read_permitted

(* Fault: the protection is left out of the answer. *)
NextWritePermitted_Open == \E e \in Entry : At(e) /\ Stored(e) # {}
NextWritePermitted == \E e \in Entry : At(e) /\ Stored(e) # {} /\ Allowed(e)
NextReadPermitted == \E e \in Entry : At(e) /\ Allowed(e)

(* What a read returns, but for the wires. *)
ReadValue(e) == reg[e] \cup sync_bits[e][SyncDepth]

-----------------------------------------------------------------------------
(* The registers of the template at a step of the clock. *)
Permissions ==
  /\ write_permitted' = IF phase # "idle" /\ request.write THEN NextWritePermitted
                        ELSE write_permitted
  /\ read_permitted' = IF phase # "idle" /\ ~request.write THEN NextReadPermitted
                       ELSE read_permitted

Loads(e, f) == Storing(e) /\ Selected(f) # {} /\ <<e, f>> \notin trg
Loaded == {p \in Fields : Loads(p[1], p[2])}

(* The bits that take the write data, and those that go back to reset.     *)
(* Faults: bits of bytes that are not selected, or of triggers that were   *)
(* loaded take it.                                                         *)
Stores_AnyByte(e) == IF Storing(e)
  THEN Plain[e] \cup Selected(UNION {f \in Trigger[e] : <<e, f>> \notin trg}) ELSE {}
Stores_Again(e) == IF Storing(e) THEN Selected(Stored(e)) ELSE {}

Stores(e) == IF Storing(e)
             THEN Selected(Plain[e] \cup UNION {f \in Trigger[e] : <<e, f>> \notin trg})
             ELSE {}
GoesBack(e) == UNION {f \in Trigger[e] : <<e, f>> \in trg}

Registers ==
  /\ reg' = [e \in Entry |-> (reg[e] \ (Stores(e) \cup GoesBack(e)))
                             \cup (request.wdata \cap Stores(e))
                             \cup (Reset[e] \cap GoesBack(e))]
  /\ trg' = (IF Ready THEN {} ELSE trg) \cup Loaded

(* Request raised while the answer is low, withdrawn when it is high or no *)
(* access is left.  Faults: raised while the last answer is still there,   *)
(* raised in the setup cycle, lowered without an answer.                   *)
Raises_Again(h) == Access /\ Requests(h)
Raises_Early(h) == phase = "setup" /\ Requests(h) /\ ~AckSeen(h)
Lowers_Unanswered(h) == ~Access \/ reg_hs[h]
Raises(h) == Access /\ Requests(h) /\ ~AckSeen(h)
Lowers(h) == ~Access \/ (reg_hs[h] /\ AckSeen(h))
Requesting == reg_hs' = [h \in Handshakes |-> (reg_hs[h] \/ Raises(h)) /\ ~Lowers(h)]

(* The synchronizers, modules of the user. *)
Shifted(pipe, in) == [k \in 1 .. SyncDepth |-> IF k = 1 THEN in ELSE pipe[k - 1]]
StartsDelay == phase = "setup" /\ \E e \in Entry : At(e) /\ Sampled[e] # {}
Synchronizers ==
  /\ sync_ack' = [h \in Handshakes |-> Shifted(sync_ack[h], ack[h])]
  /\ sync_bits' = [e \in Entry |-> Shifted(sync_bits[e], signals[e])]
  /\ sync_delay' = Shifted(sync_delay, StartsDelay)
  /\ ready_sync_delay_r' = ((ready_sync_delay_r \/ sync_delay[SyncDepth]) /\ ~Ready)

Posedge == Permissions /\ Registers /\ Requesting /\ Synchronizers /\ UNCHANGED designVars

-----------------------------------------------------------------------------
(* The bus master: an access is set up for a cycle and then enabled until  *)
(* it is ready; another may follow at once.                                *)
Ended == Access /\ Ready

(* What an access has shown so far. *)
Noted == [seen EXCEPT !.stored = @ \/ \E e \in Entry : Storing(e),
                      !.loaded = @ \cup Loaded]

Took ==
  last' = IF \E e \in Entry : Storing(e)
          THEN [op |-> "write", word |-> request.addr, value |-> request.wdata,
                mask |-> Selected(Bit)]
          ELSE IF Ended /\ ~request.write /\ ~Err
          THEN [op |-> "read", word |-> request.addr,
                value |-> ReadValue(request.addr) \cap Plain[request.addr]]
          ELSE last

Setup(r) ==
  /\ phase = "idle" \/ Ended
  /\ Posedge
  /\ Took
  /\ phase' = "setup"
  /\ request' = r
  /\ seen' = Unseen

Enable ==
  /\ phase = "setup"
  /\ Posedge
  /\ Took
  /\ phase' = "access"
  /\ seen' = [Unseen EXCEPT !.signals = {signals[e] : e \in {x \in Entry : At(x)}}]
  /\ UNCHANGED request

Wait ==
  /\ Access /\ ~Ready
  /\ Posedge
  /\ Took
  /\ seen' = Noted
  /\ UNCHANGED busVars

(* No access in the next cycle. *)
Rest ==
  /\ phase = "idle" \/ Ended
  /\ Posedge
  /\ Took
  /\ phase' = "idle"
  /\ request' = Released
  /\ seen' = Unseen

Clock == (\E r \in Request : Setup(r)) \/ Enable \/ Wait \/ Rest

(* A peer answers a request, and takes the answer back. *)
Answer(h) ==
  /\ ack[h] # reg_hs[h]
  /\ ack' = [ack EXCEPT ![h] = reg_hs[h]]
  /\ seen' = [seen EXCEPT !.acked = @ \/ reg_hs[h]]
  /\ UNCHANGED <<busVars, entryVars, syncVars, signals, last>>

(* The design drives a read signal. *)
Drive(e, bits) ==
  /\ signals' = [signals EXCEPT ![e] = bits]
  /\ seen' = [seen EXCEPT !.signals = IF At(e) /\ Access THEN @ \cup {bits} ELSE @]
  /\ UNCHANGED <<busVars, entryVars, syncVars, ack, last>>

ApbNext ==
  \/ Clock
  \/ \E h \in Handshakes : Answer(h)
  \/ \E e \in Entry : \E bits \in SUBSET Sampled[e] : Drive(e, bits)

ApbSpec == ApbInit /\ [][ApbNext]_vars

(* The clock runs on while an access waits, and a peer answers in the end; *)
(* nothing makes a signal change or the master ask.                        *)
ApbFairSpec == /\ ApbSpec
               /\ WF_vars(Wait)
               /\ \A h \in Handshakes : WF_vars(Answer(h))

-----------------------------------------------------------------------------
ApbTypeOK ==
  /\ phase \in {"idle", "setup", "access"}
  /\ request \in Request \cup {Released}
  /\ reg \in [Entry -> SUBSET Bit]
  /\ \A e \in Entry : reg[e] \subseteq Stored(e)
  /\ trg \subseteq Fields
  /\ write_permitted \in BOOLEAN /\ read_permitted \in BOOLEAN
  /\ reg_hs \in [Handshakes -> BOOLEAN]
  /\ sync_ack \in [Handshakes -> Pipe(BOOLEAN)]
  /\ \A e \in Entry : sync_bits[e] \in Pipe(SUBSET Sampled[e])
  /\ sync_delay \in Pipe(BOOLEAN)
  /\ ready_sync_delay_r \in BOOLEAN
  /\ ack \in [Handshakes -> BOOLEAN]
  /\ signals \in [Entry -> SUBSET Bit]
  /\ \A e \in Entry : signals[e] \subseteq Sampled[e]

(* Four phases: the request rises only while the peer's answer is low, and *)
(* falls only while it is high, although the answer is seen late and the   *)
(* master may come back at once (always block of reg_<handshake>).         *)
FourPhases == \A h \in Handshakes :
  /\ (~reg_hs[h] /\ reg_hs'[h]) => ~ack[h]
  /\ (reg_hs[h] /\ ~reg_hs'[h]) => ack[h]
HandshakeObeyed == [][FourPhases]_vars

(* An access that needs a handshake ends with an answer given to it and    *)
(* not to the access before.                                               *)
AnsweredForIt ==
  \A h \in Handshakes : Ended /\ Requests(h) => seen.acked

(* The synchronized bits a read returns are those of a moment since the    *)
(* access was enabled, not older (ready_sync_delay).                       *)
ReadsAreFresh ==
  \A e \in Entry :
    Ended /\ At(e) /\ Sampled[e] # {} =>
      \E s \in seen.signals : ReadValue(e) \cap Sampled[e] = s \cap Sampled[e]

(* A trigger register leaves its reset value for one cycle at most, once   *)
(* in an access, and does so in every write of it that is not refused.     *)
Away(p) == reg[p[1]] \cap p[2] # Reset[p[1]] \cap p[2]
TriggersOnce ==
  [][\A p \in Fields :
       /\ Away(p) /\ UNCHANGED designVars => ~Away(p)'
       /\ ~Away(p) /\ Away(p)' => p \notin seen.loaded
       /\ Ended /\ phase' # "access" /\ request.write /\ ~Err
            /\ At(p[1]) /\ Selected(p[2]) # {} => p \in seen.loaded]_vars

(* slverr tells a write that was refused from one that was stored, though  *)
(* it is decided a cycle earlier than the store.                           *)
ErrTells == Ended /\ request.write => (Err <=> ~Noted.stored)

(* Whatever waits for a handshake, a synchronizer or a trigger, every      *)
(* access gets its ready, as the bus master of the tests expects.          *)
AccessEnds == Access ~> Ended

(* The plain registers seen from the bus are the register file that the    *)
(* software counts on.                                                     *)
RF == INSTANCE RegisterFile WITH
        Word <- Entry, Writable <- Plain, Value <- SUBSET Bit, Mask <- SUBSET Bit,
        reg <- [e \in Entry |-> reg[e] \cap Plain[e]]
ImplementsRegisterFile == RF!RegisterSpec
=============================================================================
