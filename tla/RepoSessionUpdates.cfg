CONSTANTS
    a = a  b = b  c1 = c1  main = main  dev = dev  t1 = t1  t2 = t2
    Commit <- AllCommits
    Branch <- AllBranches
    HeadRef <- HeadRefs
    Tags <- TagValues
    Stashes <- StashValues
    NoHash = NoHash
    NoRef = "none"
    NoTags = "none"
    NoStashes = "none"
    Prewarmer = {w1}
    Reader = {}
    Periods <- NoPeriods
    cacheSize = 2
    Callback = {f1, f2}
    Request = {}
    Conn = {x1}
    Repos <- Rewritten
    Trees <- OneTree
    Nobody = Nobody
    NoStatus = NoStatus
    broadcastChannelSize = 2
    Watching = TRUE
    StatusReads <- StatusRead
    Failing = {f1, f2}
    MaxChanges = 2
SPECIFICATION Spec
INVARIANTS UpdatesExclusive DeltasInOrder ClientsCatchUp
PROPERTIES DeltaAgainstCached
SYMMETRY CallbackSymmetry
