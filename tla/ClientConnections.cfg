CONSTANTS
    Conn = {c1}
    Nobody = Nobody
    MaxQueued = 2
    MaxPrewarms = 2
SPECIFICATION FairSpec
INVARIANTS OneWriter RegisteredWhileOpen WaitGroupsCount ClosedAfterPumps
PROPERTIES BrokenClientsGo ShutdownReturns
CHECK_DEADLOCK FALSE
