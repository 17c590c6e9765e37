CONSTANTS
  c1 = c1  c2 = c2  c3 = c3  c4 = c4  c5 = c5
  main = main  remote = remote  v1 = v1
  Commit = {c1, c2, c3, c4}
  Branch = {main, remote}
  RemoteBranch = {remote}
  HeadRef = {nr}
  NoRef = nr
  Tags <- TagMaps
  NoTags <- NoTag
  Stashes <- StashLists
  NoStashes <- NoStash
  NoHash = nohash
  Parents <- Line4
  Newest <- Order4
  Trunk <- OnMain
  Places <- NoPlaces
  Layouts <- Layouts4
  Arrange <- Arrange4
  Matches = {c1, c2}
  Recent = {c4}
  NoBranch = nobranch
  NoLane = nolane
  Unlimited = unlimited
  Step = 4
  BufferFactor = 1
  Margin = 1
  PoolCapacity = 1
  Objects = 10
  Repos <- Grows
  Heights = {4}
  Tops = {0, 8}
  Filters <- AllFilters
  Scopes <- AllScopes
  UserEvents = {"search", "results", "head", "rebuild", "breadcrumb", "dispose"}
  ForceLimit = 2
  BatchMax = 2
  ChunkMax = 1
  Attempts = 2
  ScanBudget = 2
  BootstrapMax = 2
  Permalink = nohash
  Nearby = {}
  NoCache = nocache
  NoId = noid
  NoAnswer = noanswer
  MaxEvents = 1
  MaxChanges = 1
  MaxLosses = 1
  MaxFailures = 1
SPECIFICATION FairSpec
INVARIANTS NothingForgotten InflightAccounted DrawnIsCurrent GraphCurrent
PROPERTY HydrationRests
CHECK_DEADLOCK FALSE
