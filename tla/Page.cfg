SPECIFICATION FairSpec
CONSTANTS
    c1 = c1
    c2 = c2
    c3 = c3
    ann = ann
    bob = bob
    fix = fix
    readme = readme
    docs = docs
    main = main
    topic = topic
    v1 = v1
    today = today
    junk = junk
    nothing = nothing
    Commit <- CommitsOf
    Fits <- FitsOfValues
    Merges <- MergesOf
    Tips <- TipsOf
    Parents <- ParentsOf
    NoValue = NoValue
    NoIndex = NoIndex
    NoSearch = NoSearch
    Inputs <- SomeInputs
    Suggestions <- SomeSuggestions
    Indexes <- SomeIndexes
    MaxRecent = 2
    InitialDelay = 1
    MaxDelay = 3
    Threshold = 2
    MaxSteps = 4
INVARIANT OneConnection
INVARIANT SaysTheConnection
INVARIANT SearchShowsInput
PROPERTY Reconnects
CHECK_DEADLOCK FALSE
