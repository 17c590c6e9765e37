CONSTANTS
    a = a  b = b  c1 = c1  main = main  dev = dev  t1 = t1  t2 = t2
    Commit <- AllCommits
    Branch <- AllBranches
    HeadRef <- HeadRefs
    Tags <- TagValues
    Stashes <- StashValues
    NoHash = NoHash
    NoRef = "none"
    NoTags = "none"
    NoStashes = "none"
    Nobody = Nobody
    NoStatus = NoStatus
    Prewarmer = {w1, w2}
    Reader = {r1}
    Periods <- OnePeriod
    cacheSize = 2
    Callback = {}
    Request = {u1, u2}
    Conn = {}
    Repos <- Commits2
    Trees <- OneTree
    broadcastChannelSize = 1
    Watching = FALSE
    StatusReads <- StatusFails
    Failing = {}
    MaxChanges = 1
SPECIFICATION Spec
INVARIANTS PrewarmsCached EntriesMatchKeys
SYMMETRY RequestSymmetry
