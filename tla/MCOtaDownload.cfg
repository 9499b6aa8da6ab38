\* Two firmwares of three and two blocks, all that can go wrong.
CONSTANTS
    f1 = f1
    f2 = f2
    None = None
    Blank = Blank
    Firmwares = {f1, f2}
    Size <- Sizes
    BufSize = 2
    Fragmentation = {TRUE, FALSE}
    Mishaps = {"net", "status", "silent", "open", "full"}
    MaxResponses = 2
SPECIFICATION FairSpec
INVARIANTS
    SuccessIsAnnouncedFile
    MismatchIsReal
PROPERTIES
    AnnouncementIsAnswered
