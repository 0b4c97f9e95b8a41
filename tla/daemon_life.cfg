SPECIFICATION FairSpec
CONSTANTS
    p1 = p1
    p2 = p2
    op = op
    Daemon = {p1, p2}
    Cli = {op}
    Concurrency = 1
    MaxRestarts = 2
    MaxSpawns = 2
    MaxStray = 1
INVARIANTS OneBrain PidFileNamesDaemon DrainedBeforeClose
PROPERTIES NoLoopAfterStop StartSettles
CHECK_DEADLOCK FALSE
