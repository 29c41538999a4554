SPECIFICATION Spec
CONSTANTS
  c1 = c1
  c2 = c2
  t1 = t1
  t2 = t2
  NoRow = NoRow
  Chunks = {c1}
  Tickets = {t1, t2}
  TicketChunks <- MCOneChunk
  Parallelism = 2
  MaxAttempts = 2
  RetryPoints = {0}
  MaxPlaced = 2
  MaxCrashes = 1
PROPERTY
  TempDrained
CHECK_DEADLOCK FALSE
