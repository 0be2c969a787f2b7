---------------------------- MODULE MCRegfileApb ----------------------------
(***************************************************************************)
(* RegfileApb for TLC: two bytes, of bits 0 and 1 and of bit 2.            *)
(*   ctrl    protected; bit 0 switches the protection on                   *)
(*   cmd     trigger registers: bit 0, and bits 1 and 2                    *)
(*   status  a synchronized bit 0                                        *)
(*   sample  read by a handshake: bit 0                                    *)
(*   mailbox written by the same handshake: bit 0                          *)
(***************************************************************************)
EXTENDS RegfileApb, TLC

CONSTANTS ctrl, cmd, status, sample, mailbox, nowhere, strobe

Only(e, bits) == [x \in Entry |-> IF x = e THEN bits ELSE {}]
MCByteOf == [b \in Bit |-> IF b = 2 THEN 1 ELSE 0]
MCPlain == ctrl :> {0} @@ cmd :> {} @@ status :> {} @@ sample :> {} @@ mailbox :> {0}
MCTrigger == Only(cmd, {{0}, {1, 2}})
MCSampled == Only(status, {0})
MCDirect == Only(sample, {0})
MCReset == Only(cmd, {1})
MCHandshake == [e \in Entry |-> IF e \in {sample, mailbox} THEN strobe ELSE NoHandshake]

Ask(addr, write, wdata, bytesel, prot) ==
  [addr |-> addr, write |-> write, wdata |-> wdata, bytesel |-> bytesel, prot |-> prot]
MCRequest ==
  {Ask(a, w, {0, 2}, {0, 1}, FALSE) : a \in Entry \cup Other, w \in BOOLEAN}
  \cup {Ask(cmd, TRUE, {0, 2}, {1}, FALSE), Ask(mailbox, TRUE, {}, {1}, FALSE)}
  \cup {Ask(ctrl, w, wdata, {0}, TRUE) : w \in BOOLEAN, wdata \in {{}, {0}}}
MCReleased == Ask(status, FALSE, {}, {}, FALSE)
=============================================================================
