CONSTANTS
  Word = {0, 1}
  Bit = {0, 1, 2}
  Writable <- MCWritable
  Value <- MCValue
  Mask <- MCMask
  Unused = {{}, {2}}
  ListValue <- MCListValue
  ListMask <- MCListMask
  SeqlenMax = 3
SPECIFICATION CachesSpec
INVARIANTS
  OnlyEnabledHolds
  RoomForNext
PROPERTIES
  NoWriteOvertaken
  ImplementsRegisterFile
  WordCacheImplements
