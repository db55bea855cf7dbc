SPECIFICATION Spec

CONSTANTS
    ann = ann
    ben = ben
    nobody = nobody
    Users = {ann, ben}
    NoUser = nobody
    Purgers = {ben}
    Sectors = 4
    SectorPages = 4
    BankPages = 5
    MaxSessions = 2
    RoomToBegin = 8
    IdLimit = 3
    MaxEvents = 1
    Mishaps = 1
    Tears = {"head", "scrap"}

INVARIANT JournalAlwaysReplays

CHECK_DEADLOCK FALSE
