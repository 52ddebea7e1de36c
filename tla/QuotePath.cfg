SPECIFICATION Spec
CONSTANTS
    r1 = r1
    r2 = r2
    Requests = {r1, r2}
    Missing = Missing
    Pending = Pending
    Unreadable = Unreadable
    Day = 24
    Minute = 2
    PreOpenStart = 5
    PreOpenEnd = 8
    CallAuctionEnd = 11
    RegularEnd = 17
    PostMarketEnd = 20
    HalfRegularEnd = 14
    HalfPostMarketEnd = 17
    MaxDays = 3
    StaleThreshold = 5
    Modes <- MCModes
    Calendars <- MCCalendars
    Second = 1
    MaxAge = 24
SYMMETRY RequestSymmetry
INVARIANTS StaleOnlyUnzoned NextChangeIsFirst
PROPERTIES LastGoodQuoteKept
CHECK_DEADLOCK FALSE
