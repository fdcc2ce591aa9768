SPECIFICATION FairSpec
CONSTANTS
    Faults = {"init", "consul", "open", "accept"}
INVARIANTS
    TypeOK
    DeregisteredForGood
PROPERTIES
    StagesSpec
    SignalEnds
    FailureEnds
CHECK_DEADLOCK FALSE
