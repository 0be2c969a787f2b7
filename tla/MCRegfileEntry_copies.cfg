CONSTANTS
  cfg = cfg
  mode = mode
  status = status
  RegisterBits = {0, 1, 2}
  Past = 3
  Field = {cfg, mode, status}
  FieldMask <- MCFieldMask
  write_mask = {0, 1}
  Reset = {1}
  Numbers <- MCNumbers
  Copy = {copy}
  Entry = entry
  NoOne = no_one
  Uses <- Copied
SPECIFICATION EntrySpec
INVARIANTS
  WriteUpdateReaches
