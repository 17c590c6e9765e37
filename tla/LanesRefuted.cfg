CONSTANTS
    Graphs <- Refuting
    Changes <- NoChanges
    Positions <- Drags
    MaxSteps = 2
SPECIFICATION Spec
INVARIANTS ChainsNeverSplit CommitsHitTheirLane
PROPERTIES PositionsSurvive
CHECK_DEADLOCK FALSE
