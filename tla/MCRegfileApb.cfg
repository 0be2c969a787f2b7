CONSTANTS
  ctrl = ctrl
  cmd = cmd
  status = status
  sample = sample
  mailbox = mailbox
  nowhere = nowhere
  strobe = strobe
  Entry = {ctrl, cmd, status, sample, mailbox}
  Bit = {0, 1, 2}
  Other = {nowhere}
  ByteOf <- MCByteOf
  Plain <- MCPlain
  Trigger <- MCTrigger
  Sampled <- MCSampled
  Direct <- MCDirect
  Reset <- MCReset
  Protected = {ctrl}
  ProtEntry = ctrl
  ProtBit = 0
  Handshake <- MCHandshake
  NoHandshake = NoHandshake
  SyncDepth = 2
  Request <- MCRequest
  Released <- MCReleased
SPECIFICATION ApbFairSpec
INVARIANTS
  AnsweredForIt
  ReadsAreFresh
  ErrTells
PROPERTIES
  HandshakeObeyed
  TriggersOnce
  AccessEnds
  ImplementsRegisterFile
