\* Two calls, every stub against every trait of at most two methods, both ways.
SPECIFICATION FairSpec
CONSTANTS
    MaxCalls = 2
    Stubs <- MCStubs
    Traits <- MCTraits
INVARIANTS
    RunsAsDeclared
    SuccessIsEarned
    AnsweredRunFirst
PROPERTIES
    WaitIsAnswered
CHECK_DEADLOCK FALSE
