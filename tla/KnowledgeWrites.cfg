SPECIFICATION FairSpec
CONSTANTS
  vocabulary = vocabulary
  template = template
  a = a
  b = b
  w1 = w1
  w2 = w2
  Records <- MCRecords
  Vocab <- MCVocab
  Tokens = {a}
  ApiWriters = {w1, w2}
  Seeder = seeder
  SeedPack <- MCSeedPack
  MaxRows = 1
INVARIANTS
  VersionHistory
  CurrentIsLatest
  EventsOfCommittedVersions
  ReferencesWereDeclared
  SeedWritesOnce
PROPERTIES
  RequestsFinish
  IsVersionedRegister
CHECK_DEADLOCK FALSE
