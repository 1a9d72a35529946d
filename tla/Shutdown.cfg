SPECIFICATION LifecycleSpec
CONSTANTS
    Workers = 1
    IoLoops = 1
    MaxTasks = 1
INVARIANT
    CallbacksCalled
CHECK_DEADLOCK FALSE
