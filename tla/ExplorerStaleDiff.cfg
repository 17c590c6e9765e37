CONSTANTS
  c1 = c1  c2 = c2  d = d  f = f  g = g
  NoUrl = nourl
  DefaultContext = 3
  ContextStep = 5
  FullContext = 8
  Commit = {c1, c2}
  NoCommit = nocommit
  TreeOf <- TwoRoots
  Entries <- TwoTrees
  FilesOf <- Changed
  NoTree = notree
  NoPath = nopath
  Statuses <- SomeStatuses
  Filters = {g}
  NoFilter = nofilter
  HeadCommit = c1
  Launch = nopath
  Permalinks = {nocommit}
  UserEvents = {"commit", "mode", "difffile"}
  Failing = {}
  MaxEvents = 6
  MaxInflight = 1
SPECIFICATION Spec
INVARIANT FileDiffOfCommit
CHECK_DEADLOCK FALSE
