CONSTANTS
  c1 = c1  c2 = c2  d = d  f = f  g = g
  NoUrl = nourl
  DefaultContext = 3
  ContextStep = 5
  FullContext = 8
  Commit = {c1, c2}
  NoCommit = nocommit
  TreeOf <- TwoRoots
  Entries <- TwoTrees
  FilesOf <- Changed
  NoTree = notree
  NoPath = nopath
  Statuses <- SomeStatuses
  Filters = {g}
  NoFilter = nofilter
  HeadCommit = c1
  Launch <- InDir
  Permalinks = {c2, nocommit}
  UserEvents = {"commit", "mode", "click", "key", "toolbar", "filter", "breadcrumb", "back", "retry", "difffile", "expand", "staging", "takeover", "status"}
  Failing = {"root", "reveal", "list", "filediff", "diff", "blob", "hydrate", "dir", "launch"}
  MaxEvents = 4
  MaxInflight = 1
SPECIFICATION Spec
INVARIANTS DiffOfCommit ViewersShowTheLatest RowsOfCommit
CHECK_DEADLOCK FALSE
