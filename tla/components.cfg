SPECIFICATION Spec
CONSTANTS
  SeedUrls <- MCSeedUrls
  References <- MCReferences
  Lower <- MCLower
  Reachable <- MCReachable
  Lines <- MCLines
  MaxLines = 4
  Paths <- MCPaths
  Agents = {"niyah"}
  Query = {"q"}
  Length <- MCLength
  Occurrences <- MCOccurrences
  ConfigFiles <- MCConfigFiles
  HandConfigs <- MCHandConfigs
  BlobSizes <- MCBlobSizes
  Byte = {"a", "b"}
  Code <- MCCode
  Vocabularies <- MCVocabularies
  Prompts <- MCPrompts
  Name = {"m1", "m2"}
  Claim = {"niyah", "m", "m1"}
  OfEngine = {"niyah"}
  NameHas <- MCNameHas
  MiniConfigs <- MCMiniConfigs
  FileSizes = {60, 28}
  MiniPrompts <- MCMiniPrompts
  Specials <- MCSpecials
  ByteValues <- MCByteValues
  Nul = "NUL"
  VocabTexts <- MCVocabTexts
  MaxTokens = 12
  Capacity = 3
  BodySizes = {0, 1, 3}
  MaxBody = 2
  MaxDepth = 2
  MaxDocuments = 3
  MaxSeeds = 2
  Limits = {1}
  Envelope = {e1, e2}
  ClaimId = {"a", "b"}
  MaxNodes = 2
  MaxEdges = 2
  Scale = 2
  Floats = {1, 3}
  NoEnvelope = NoEnvelope
  short = short  long = long  other = other
  Content = {short, long, other}
  FirstRoom = 1
  MaxStored = 3
  NodeId = {"a", "b"}
  FirstNodes = 1
  FirstEdges = 1
  FirstOut = 1
  MaxGraphEdges = 3
  WordSize = 32
  Align = 4
  FloatSize = 4
  PoolSize = 12
  DefaultSize = 8
  Bases = {0, 3}
  Key = {"k1", "k2"}
  NULL = NULL
  MaxNewTokens = 2
  Hash = {"h1", "h2"}
  Absent = Absent
  MaxNew = 2
  MaxLayers = 2
  MaxDim = 4
  MaxHeads = 4
  MaxSeq = 4
  MaxTokenLen = 2
  MaxVocab = 10
INVARIANTS FrontierSound IdentifierUnused UrlsSound RobotsDecision
  GraphSound UnverifiedMovesNothing HandlesName EdgesListedOnce
  BlocksApart StoredInPlace LogitsSound RoundTrip ClaimsBacked LoadedIsWhole
PROPERTIES CrawlEnds
CHECK_DEADLOCK FALSE
