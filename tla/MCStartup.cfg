SPECIFICATION FairSpec
CONSTANT Settings <- AtLimits
CHECK_DEADLOCK FALSE
INVARIANTS TypeOK NothingLeaked LoadedIsUsable
PROPERTIES ClosedInOrder RunEnds
