SPECIFICATION MCSpec
CONSTANTS
  Manifests = {"root", "a", "b", "c"}
  Locks = {"root.lock", "a.lock"}
  None = "none"
  Covers <- MCCovers
  Anchors <- MCAnchors
  Packages = {"p", "q"}
  Inputs <- MCInputs
  MaxRuns = 2
  Paths = {p, q}
  Texts = {x, y}
  MaxMoves = 2
  MaxFaults = 1
  GlobStar = "star"
  Symbols = {"a", "b", "any"}
  Letters = {"a", "b"}
  SymbolSees <- MCSymbolSees
  MaxPattern = 4
  MaxText = 4
  SegmentTexts <- MCSegmentTexts
  SegmentSees <- MCSegmentSees
  HiddenTexts = {".h", "..", "."}
  GlobTexts = {"[a]"}
  LowerCase <- MCLowerCase
  RawPatterns <- MCRawPatterns
  LongestList = 3
  RealDirs <- MCRealDirs
  DirLinks <- MCDirLinks
  Listings <- MCListings
  DeepestWalk = 3
  MemberDirs <- MCMemberDirs
  PatternSets <- MCPatternSets
  LinkPairs <- MCLinkPairs
  HopLimit = 3
  VisitLimit = 3
  SideVisitLimit = 4
  LongestPath = 4
  Absolute = Absolute
  Unreadable = Unreadable
  Nowhere = Nowhere
SYMMETRY AnyOrder
INVARIANTS
  ExcusedIsGreatest
  WiredIsKept
  FiltersAreHonest
  AnswersWereHeld
  GreedyIsGlob
  WalkAgreesWithMatching
  MembersAreReachedThrough
  NoMemberMissed
  RetargetIsSeen
PROPERTY OneAnswerPerPath
