SPECIFICATION FairAgentSpec
CONSTANTS
    reporter = reporter
    main = main
    Workers = {w1, w2}
    PerWorker = 1
    Submitters = {reporter}
    Closers = {main}
    Tasks = {t1, t2}
    NoTask = NoTask
    Outcomes <- MCOutcomes
    MaxRetries = 1
    MaxPolls = 1
INVARIANTS AgentTypeOK NeverPanics PollsAreReported ReportsEnd
PROPERTIES AgentStops
CHECK_DEADLOCK FALSE
