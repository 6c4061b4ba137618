SPECIFICATION FairSpec
CONSTANT Retries = 2
INVARIANTS
    TypeOK
    NoBodyLeaks
    WholeBodySent
    OnlySuccessDecoded
PROPERTIES
    RetriesOnlyFailures
    RequestEnds
    ImplementsCall
CHECK_DEADLOCK FALSE
