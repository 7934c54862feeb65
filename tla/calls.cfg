SPECIFICATION Spec
CONSTANTS
  Requests = {1, 2}
  dAll = dAll
  dA = dA
  dB = dB
  fA = fA
  fB = fB
  lA = lA
  alice = alice
  bob = bob
  root = root
  other = other
  Dirs = {dAll, dA, dB}
  Files = {fA, fB}
  Links = {lA}
  Names = {alice, bob}
  NoName = NoName
  NoNode = NoNode
  NoFile = NoFile
  Absent = Absent
  Invalid = Invalid
  Entries <- MCEntries
  Below <- MCBelow
  LinkTo <- MCLinkTo
  RootDir <- MCRootDir
  Scope <- MCScope
  Sizes = {1, 2}
  InlineLimit = 1
  MaxFind = 2
  MaxWrites = 1
  Messages <- MCMessages
  Traffic <- MCTraffic
  Transports = {"stdio", "http", "oauth"}
  Configs <- MCConfigs
  Outputs <- MCOutputs
  FlagNames <- MCFlagNames
  IntFlags = {"limit"}
  BoolFlags = {"yes"}
  MaxLine = 2
  MaxBody = 1
  Big = 5
INVARIANT TypeOK
INVARIANT ActsAsCaller
INVARIANT OwnFilesOnly
INVARIANT ListingComplete
INVARIANT InlineWithinLimit
INVARIANT TextAgrees
INVARIANT StdioInOrder
PROPERTY CancelledEnds
PROPERTY StdioReturns
