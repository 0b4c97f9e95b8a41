SPECIFICATION FairSpec
CONSTANTS
    p = p
    w1 = w1
    r1 = r1
    Pipeline = {p}
    Worker = {w1}
    Reply = {r1}
    MaxQuestions = 1
    MaxBoots = 0
PROPERTIES WaitIsBounded
CHECK_DEADLOCK FALSE
