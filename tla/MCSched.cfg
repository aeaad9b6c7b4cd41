\* Two wait queues, a task that creates tasks, slots given back and reused;
\* and an even competition of four tasks over nine ticks.
CONSTANTS
    MaxTasks = 4
    WaitQ = {q1, q2}
    Creators <- OneCreator
    NONE = NONE
    MaxTid = 5
    MaxTicks = 9
    MixedTicks = 2
SPECIFICATION MCSpec
INVARIANTS
    ReadyQueueExact
    EnqueueHasRoom
    BlockedHeldOnce
    RunningIsCurrent
    FairShare
PROPERTIES
    TickPreempts
    ImplementsAbs
    ImplementsFair
