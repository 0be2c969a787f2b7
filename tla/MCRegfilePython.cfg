CONSTANTS
  cpu = cpu
  host = host
  Master = {cpu, host}
  own_simple = 0
  own_subword = 1
  shared_simple = 2
  shared_subword = 3
  Word = {0, 1, 2, 3}
  WordBytes = 4
  ByteBits = 1
  Size = {1, 2, 4}
  Subword = {1, 3}
  None = None
  Writable <- MCWritable
  WriteMask <- MCWriteMask
  Value <- MCValue
  Masks <- MCMasks
  cfg = cfg
  mode = mode
  status = status
  RegisterBits = {0, 1, 2}
  Past = 3
  Field = {cfg, mode, status}
  FieldMask <- MCFieldMask
  write_mask = {0, 1}
  Reset = {1}
  Numbers <- MCNumbers
  Copy = {copy}
  Entry = entry
  NoOne = no_one
  Uses <- Apart
SPECIFICATION PythonSpec
CONSTRAINT OneWord
INVARIANTS
  ReadStillHolds
  NeedsUpdateTells
  WriteUpdateReaches
PROPERTIES
  ImplementsRegisterFile
