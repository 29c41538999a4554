SPECIFICATION Spec
CONSTANTS
  c1 = c1
  c2 = c2
  t1 = t1
  t2 = t2
  NoRow = NoRow
  Chunks = {c1, c2}
  Tickets = {t1}
  TicketChunks <- MCTicketChunks
  Parallelism = 2
  MaxAttempts = 2
  RetryPoints = {0}
  MaxPlaced = 1
  MaxCrashes = 1
INVARIANTS
  TypeOK
  StoredHasFile
  DamageOnlyByCrash
  ProcessedTicketKnown
  ConfirmedIsPublished
PROPERTIES
  MoveKeepsChunk
  KeepsChunks
CHECK_DEADLOCK FALSE
