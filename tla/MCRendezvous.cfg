\* Three senders that overtake each other, and two receivers, one of which
\* cannot take the long messages.
CONSTANTS
    r1 = r1
    r2 = r2
    NONE = NONE
    Sender = {s1, s2, s3}
    Receiver = {r1, r2}
    Data = {a}
    Size = {1, 2}
    Buffer <- MCBuffer
SPECIFICATION RendezvousFairSpec
PROPERTIES
    ImplementsRendezvous
    TrafficNeverStops
    SendReturns
