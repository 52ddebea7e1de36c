SPECIFICATION StreamSpec
CONSTANTS
    a = a
    b = b
    Adapters = {"angel_one", "upstox", "binance", "delta"}
    Instruments = {a, b}
    MaxReconnect = 2
    FloatLimit = 4
    BackoffMax <- Caps
    EventBus = FALSE
    MaxFailures = 5
    MaxCalls = 4
INVARIANTS WantedIsLive StoppedIsQuiet EndsInARow
PROPERTIES BackoffGrows 
CHECK_DEADLOCK FALSE
