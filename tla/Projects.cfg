SPECIFICATION MCSpec
CONSTANTS
  Npm <- MCNpm
  Python <- MCPython
  NpmLocks = {"cl"}
  UvLocks = {"cu"}
  Dir <- MCDir
  Skipped = {"ab", "an", "ap", "cb", "cn"}
  Vendored = {"an", "cn"}
  Prefix = {"a", "ab", "an", "ap"}
  Nowhere = "nowhere"
  Changes <- MCChanges
  IgnoreSets <- MCIgnored
  IncludeFiles <- MCIncludeFiles
  Recognised = {"scanned", "skipped"}
  Scanned = {"scanned"}
  Present <- MCPresent
  MaxDepth = 3
  IncludeGraphs <- MCGraphs
  LinkMembers = {"a", "b"}
  LinkNames = {"x", "y"}
  LinkTrees <- MCLinkTrees
  NoFile = NoFile
  NoName = NoName
  NoManifest = NoManifest
  Broken = Broken
  NoTree = NoTree
INVARIANTS
  ReadIffNamed
  SubdirectoryNotWeaker
  DepthCutsOnlyTheDeep
  ExemptIsLinked
CHECK_DEADLOCK FALSE
