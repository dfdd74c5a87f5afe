SPECIFICATION MCSpec
CONSTANTS
  Workers = {w1, w2}
  AssetFiles = {grammar, library}
  Grammar = grammar
  Marker = marker
  Damaged = damaged
  Missing = missing
  OwnPack = own
  OtherPack = other
  Packs <- TwoPacks
  ManifestOf <- OneManifest
  Files = {"f", "g"}
  Folders <- ScopeFolders
  Sources <- ScopeSources
  Texts <- MCTexts
  Newline = "nl"
  TooComplex <- MCTooComplex
  MaxSource = 3
  MaxLine = 2
  MaxTrees = 1
  MaxFetchFailures = 2
  MaxCrashes = 2
  Documents <- TwoRoots
  Configs = {c1}
  Empty = empty
  Broken = broken
  Keys = {k1}
  Models = {m1}
  NoModel = none
  MaxActs = 3
  MaxFailures = 1
INVARIANTS TreesAreExact FindingsFollowSettings ConfigurationAppliesAsWritten
PROPERTIES EveryWorkerParses EachFunctionInItsScope
CHECK_DEADLOCK FALSE
