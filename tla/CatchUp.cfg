\* An index and a stock; days of six hours that close at the fifth.
SPECIFICATION CatchUpSpec
CONSTANTS
    idx = idx
    stk = stk
    fut = fut
    day = day
    minute = minute
    Universes <- AllOrNothing
    Indices = {idx}
    EodIntervals = {day}
    IntradayIntervals = {minute}
    Concurrency = 2
    HoursPerDay = 6
    EodHour = 4
    Every = 2
    BootHours = {0, 3}
    PassHours = 1
    MaxTime = 18
    MaxDepth = 3
    Never = Never
INVARIANTS PacedUnlessOverlapped
PROPERTIES EodEveryDay
