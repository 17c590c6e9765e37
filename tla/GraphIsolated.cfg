CONSTANTS
  c1 = c1  c2 = c2  c3 = c3  c4 = c4  c5 = c5
  main = main  remote = remote  v1 = v1
  Commit = {c1, c2, c3, c4, c5}
  Branch = {main, remote}
  RemoteBranch = {remote}
  HeadRef = {nr}
  NoRef = nr
  Tags <- TagMaps
  NoTags <- NoTag
  Stashes <- StashLists
  NoStashes <- NoStash
  NoHash = nohash
  Parents <- Graph5
  Newest <- Order5
  Trunk <- OnMain
  Places <- SomePlaces
  Layouts <- Layouts5
  Arrange <- Arrange5
  Matches = {c1, c4}
  Recent = {c4, c5}
  NoBranch = nobranch
  NoLane = nolane
  Unlimited = unlimited
  Step = 4
  BufferFactor = 1
  Margin = 1
  PoolCapacity = 1
  Objects = 12
  Repos <- Views
  Heights = {4, 8}
  Tops = {0, 8}
  Filters <- SomeFilters
  Scopes <- SomeScopes
  UserEvents = {"isolate", "drag"}
  ForceLimit = 6
  BatchMax = 5
  ChunkMax = 5
  Attempts = 2
  ScanBudget = 2
  BootstrapMax = 5
  Permalink = nohash
  Nearby = {}
  NoCache = nocache
  NoId = noid
  NoAnswer = noanswer
  MaxEvents = 4
  MaxChanges = 0
  MaxLosses = 0
  MaxFailures = 0
SPECIFICATION Spec
INVARIANT DimmingFollowsLanes
CHECK_DEADLOCK FALSE
