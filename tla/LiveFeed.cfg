\* Twelve repositories, four loads: a client may replay up to three old deltas.
CONSTANTS
    a = a  b = b  main = main
    Commit <- AllCommits
    Branch <- AllBranches
    HeadRef <- OneValue
    Tags <- OneValue
    Stashes <- OneValue
    NoHash = NoHash
    NoRef = "none"
    NoTags = "none"
    NoStashes = "none"
    Loadable <- AllRepos
    MaxLoads = 4
SPECIFICATION FeedSpec
INVARIANTS CaughtUp BetweenTwo
CHECK_DEADLOCK FALSE
