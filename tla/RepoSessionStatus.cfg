CONSTANTS
    a = a  b = b  c1 = c1  main = main  dev = dev  t1 = t1  t2 = t2
    Commit <- AllCommits
    Branch <- AllBranches
    HeadRef <- HeadRefs
    Tags <- TagValues
    Stashes <- StashValues
    NoHash = NoHash
    NoRef = "none"
    NoTags = "none"
    NoStashes = "none"
    Nobody = Nobody
    NoStatus = NoStatus
    Prewarmer = {w1}
    Reader = {}
    Periods <- NoPeriods
    cacheSize = 2
    Callback = {f1}
    Request = {}
    Conn = {x1}
    Repos <- OneRepo
    Trees <- TwoTrees
    broadcastChannelSize = 4
    Watching = TRUE
    StatusReads <- StatusRead
    Failing = {}
    MaxChanges = 1
SPECIFICATION FairSpec
PROPERTIES StatusConverges
