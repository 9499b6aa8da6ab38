\* Codec, topic filters, JSON, Base64, digests and list on bounded inputs.
CONSTANTS
    BlockSize = 4
    LengthSize = 2
    Word = 32
    Pieces = {0, 1, 2, 3, 4, 7, 9}
    MaxLength = 36
    Cells = {n1, n2, n3}
    Vals = {v1, v2}
    MaxLen = 3
    NULL = NULL
    TopicFilters <- AllFilters
    TopicNames <- AllNames
    Sizes = {1, 3, 8, 20, 127, 132, 140, 260}
    Ids = {1, 255, 256, 65535}
    Lengths = {0, 1, 127, 128, 129, 255, 256, 16383, 16384, 2097151, 2097152, 268435455}
    Bytes = {0, 1, 63, 250, 255}
SPECIFICATION MCSpec
INVARIANTS
    PacketsArrive
    TopicMatchAgrees
    JsonFindsTheValue
    Base64RoundTrip
    DigestOfWhole
    HttpBodyArrives
    TransportTells
PROPERTY ListIsSequence
CHECK_DEADLOCK FALSE
