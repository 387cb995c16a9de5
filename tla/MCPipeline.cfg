SPECIFICATION FairSpec
CONSTANTS
    Submissions = {s1}
    MaxSends = 2
    Writers = {w1, w2}
    Old = v1
    New = v2
    Refusals <- SomeRefusals
    Statuses <- SomeStatuses
CHECK_DEADLOCK FALSE
INVARIANTS TypeOK ResultTellsFate UnfinishedReadable UpCanEncrypt
PROPERTIES AcceptedDecided
