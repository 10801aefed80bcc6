SPECIFICATION MCSpec
CONSTANTS
  Documents <- MCDocuments
  Streams <- MCStreams
  MaxDocuments = 3
  Gap = Gap
  Absent = Absent
  Null = Null
  NotAMapping = NotAMapping
  None = None
  Tokens <- MCTokens
  KeyDigits = {"1", "2", "7z"}
  KeyProtocols = {"https://", "git+ssh://"}
  PlainNames = {"a", "7z"}
  Scopes = {"s"}
  KeyHosts = {"h"}
  Versions = {"1", "2"}
  KeyUrls <- MCUrls
  KeyPeers <- MCPeers
  KeyValues <- MCValues
  Written <- MCWritten
  Name = "p"
  RegistryHosts = {"reg"}
  ForgeHosts = {"codeload"}
  Implied <- TamperImplied
  Inputs <- TamperInputs
  Dirs = {"root", "web"}
  Root = "root"
  Up <- LockUp
  Paths <- LockPaths
  Rank <- LockRank
  NpmNames = {"npm"}
  Options <- LockOptions
  FirstTree <- LockFirst
  ManifestKinds <- LockManifests
  MaxEdits = 1
  MaxMerges = 3
  MaxAcks = 1
INVARIANT DroppedCriticalIsReported
CHECK_DEADLOCK FALSE
