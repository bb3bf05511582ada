SPECIFICATION LoopFairSpec
CONSTANTS
    Producer = {"p", "q"}
    MaxTasks = 4
INVARIANTS LoopTypeOK NoFunctorStranded
PROPERTIES Implements EveryFunctorRuns QuitStopsRunningLoop
CHECK_DEADLOCK FALSE
