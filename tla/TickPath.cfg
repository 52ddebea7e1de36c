\* Two broker streams; ticks come late, early and without a price, handlers
\* are cancelled, the database fails or is not there.
\* The process stops at the end of its shutdown.
SPECIFICATION Spec
CONSTANTS
    s1 = s1
    s2 = s2
    None = None
    Streams = {s1, s2}
    Prices = {1, 2}
    Stamps = {1}
    MaxWindow = 1
    MaxTicks = 3
    MaxLate = 0
    MaxAhead = 1
    BatchSize = 2
INVARIANTS RowsExact NoLookAhead TicksAccountedFor
CHECK_DEADLOCK FALSE
