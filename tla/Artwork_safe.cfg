SPECIFICATION ArtSpec
CONSTANTS
  Sources = {0, 1, 2}
  Chunks = {1, 2, 3, 4, 5, 6}
  NoChunk = NoChunk
  ChunkSize = 5
  HeaderLength = 1
  Redundancy = 2
  Multiplier = 3
  Modulus = 31
  Cdf <- MCCdf
  NoState = NoState
  FingerprintSize = 2
  ImageMaxSize = 12
  ThumbnailMaxSize = 3
  MaxChunkSize = 5
  MaxLubyChunks = 5
  MaxInteger = 1000
  Lengths = {1, 2, 4, 5, 8, 9, 10, 12}
  FirstSeeds = {0, 1, 2, 5, 11, 17, 24}
  Forms <- MCForms
  Ages = {0, 1, 2}
  MaxDistance = 1
  NoTicket = NoTicket
INVARIANTS
  ArtTypeOK
  DecodesExactly
  PlacedMatchesTicket
  ServedIsImage
  FullSetServes
PROPERTIES
  KeepsPromise
  DecodingShrinks
  DecodingEnds
CHECK_DEADLOCK FALSE
