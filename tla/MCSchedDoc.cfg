\* Step 15 of docs/kernel/boot-sequence.md.
CONSTANTS
    MaxTasks = 2
    WaitQ = {}
    Creators = {}
    NONE = NONE
    MaxTid = 2
    MaxTicks = 3
    MixedTicks = 3
SPECIFICATION MCSpec
INVARIANT HaltOnlyWhenNothingRunnable
