\* Three events, of which any two race, and two who rebuild.
\* All events may be appended, and nobody need rebuild: no deadlock check.
SPECIFICATION FairSpec
CONSTANTS
    e1 = e1  e2 = e2  e3 = e3  f = f  g = g
    Events = {e1, e2, e3}
    Fields = {f, g}
    Payload <- MCPayload
    Rebuilds = {r1, r2}
    NoEvent = NoEvent
INVARIANTS
    DefaultIsSnapshot
    ShardIsSnapshotPlusOne
    EventsAreProjected
PROPERTIES
    AppendsEnd
CHECK_DEADLOCK FALSE
