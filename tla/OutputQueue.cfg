CONSTANTS
    MaxTasks = 2
    MaxNotifiers = 2
    MaxSleeps <- MCMaxSleeps
    Capacities <- MCCapacities
SPECIFICATION FairSpec
INVARIANTS TypeOK Accounting OutcomeNotLost CallbacksMeetContract QueueOutlivesWorkers
PROPERTIES CapacityRespected Progress KeepsContract
