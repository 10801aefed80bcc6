SPECIFICATION MCSpec
CONSTANTS
  key = key
  other = other
  p1 = p1
  p2 = p2
  Packages = {key, other}
  NoName = NoName
  NoEntry = NoEntry
  NoUrl = NoUrl
  Elsewhere = Elsewhere
  Paths = {p1, p2}
  KeyOf <- MCKeyOf
  Local = {key}
  Entries <- MCEntries
  Formats = {"npm", "pnpm"}
  Edges <- MCEdges
  Alphabet = {"x", "y"}
  MaxLength = 6
  Names <- NewNames
  Tops <- PopularNames
  Keyboard <- Neighbours
  Changes <- PythonChanges
  Near <- PythonNear
  Alphabetic <- PythonOrder
INVARIANTS
  InstalledWasJudged
  BandedIsLevenshtein
  ResemblanceIsSeen
  MutualPairOnce
