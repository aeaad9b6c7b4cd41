\* Two channels whose rings wrap, and identifiers that are invalid or wrap.
CONSTANTS
    a = a
    b = b
    NONE = NONE
    MaxEntries = 0
    Tid <- MCTid
    Object = {1}
    Right = {}
    MaxChannels = 2
    Capacity = 2
    Name = {a, b}
    ChannelId <- MCChannelId
    IdWrap = 4
SPECIFICATION Spec
INVARIANTS
    UniqueNames
PROPERTIES
    ChannelsAreFifo
