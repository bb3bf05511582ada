SPECIFICATION LoopFairSpec
CONSTANTS
    Producer = {"p"}
    MaxTasks = 1
PROPERTIES QuitIsObeyed
CHECK_DEADLOCK FALSE
