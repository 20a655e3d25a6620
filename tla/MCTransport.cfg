SPECIFICATION FairSpec
CONSTANTS
  Heads <- SomeHeads
  HelloLen = 3
  HelloMax = 2
  RecordLen = 3
  RecordMax = 3
  NameLen = 3
  NameTail = 1
  MaxLength = 2
  MaxTimeouts = 2
  Disguises <- SomeDisguises
  SaltLen = 1
  HeadLen = 2
  TagLen = 1
  BufferLen = 4
  Records <- SomeRecords
INVARIANTS
  ReadsInOrder
  NothingLost
PROPERTIES
  Arrives
CHECK_DEADLOCK FALSE
