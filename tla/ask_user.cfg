SPECIFICATION FairSpec
CONSTANTS
    p = p
    w1 = w1
    r1 = r1
    Pipeline = {p}
    Worker = {w1}
    Reply = {r1}
    MaxQuestions = 2
    MaxBoots = 1
INVARIANTS OwnAnswer WaitingIsPolled
PROPERTIES AnswersAreFinal DeadTaskStays WorkerCallEnds
CHECK_DEADLOCK FALSE
