SPECIFICATION FairSpec
CONSTANTS
    Requests = {r1, r2}
    RequestsInPlay <- Odd
    MaxStarts = 2
CHECK_DEADLOCK FALSE
INVARIANTS TypeOK AcceptedMeansStored RefusedMeansUnpublished OnlyCheckedPublished CountedAsAnswered
PROPERTIES OrderlyEndDisturbsNone ImplementsAcceptance ShutdownCompletes
