\* Three messages of three sizes (the middle one a byte too long for the buffer), two
\* connections that break, a ring of two ids.
CONSTANTS
    MaxMessages = 3
    Ids = {1, 2, 3}
    RingLength = 2
    Window = 2
    ReadBufSize = 6
    Sizes = {2, 4, 9}
    Radix = 8
    MaxBreaks = 2
SPECIFICATION Spec
INVARIANTS
    StreamAligned
    AckedIsDelivered
PROPERTY RepeatIsDropped
