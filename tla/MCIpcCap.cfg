\* One channel, capabilities that are created and copied until the table is full.
CONSTANTS
    a = a
    b = b
    NONE = NONE
    MaxEntries = 3
    Tid <- MCTid
    Object = {1}
    Right = {"CAP_RIGHT_READ"}
    MaxChannels = 1
    Capacity = 1
    Name = {a}
    ChannelId = {0}
    IdWrap = 1
SPECIFICATION Spec
INVARIANTS
    NoAmplification
    TransferStaysGood
