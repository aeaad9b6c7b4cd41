CONSTANTS
    Task = {0, 1, 2, 3, 4, 5}
SPECIFICATION FairSpec
PROPERTY NoStarvation
