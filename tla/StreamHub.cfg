\* Two connections share three places; either client may vanish.
\* Connection ids are used once, so a behaviour may come to its end.
SPECIFICATION FairSpec
CONSTANTS
    c1 = c1
    c2 = c2
    s1 = s1
    s2 = s2
    Conns = {c1, c2}
    Symbols = {s1, s2}
    MaxSubscribed = 3
    MaxMissed = 2
INVARIANTS IndexesAgree WithinLimit GhostsAreLate EngineCovers
PROPERTIES HeartbeatReleases
CHECK_DEADLOCK FALSE
