SPECIFICATION FairSpec
CONSTANTS
    Conns = {t1, t2}
    Others <- SomeOthers
    Sources <- SomeSources
    Behaviours <- SomeBehaviours
    FirstMap <- SomeSites
    Targets <- SomeTargets
    MaxRequests = 2
    FirstJobs <- SomeJobs
    MaxDumps = 1
    Mapped <- SomeMapping
    StatsKey <- S
    StatsHandler = "stats"
    EditedKey <- AB
    NewHandler = "new"
    EditJob = 1
CHECK_DEADLOCK FALSE
INVARIANTS Consistent Computed
PROPERTIES AllServed
