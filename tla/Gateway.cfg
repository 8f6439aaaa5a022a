SPECIFICATION FairSpec
CONSTANTS
    N = 3
    Calls = {c1, c2}
    FirstLeader = 2
    MaxFaults = 2
INVARIANT AnswersAreTrue
PROPERTIES OneResetPerFailure AnsweredUnlessStuck
CHECK_DEADLOCK FALSE
