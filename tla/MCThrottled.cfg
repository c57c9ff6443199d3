\* Two streams, four chunks (one of them short), a counter that starts
\* exact or one byte ahead, so that two calls may be final, an interval of two
\* ticks.  The transfer ends, so the system may stop.
CONSTANTS
    Worker = {w1, w2}
    Item = {1, 2, 3, 4}
    Length <- LengthValue
    Seeds = {2, 3}
    Total = 9
    Interval = 2
    NEVER = NEVER
    MaxTime = 4
SPECIFICATION FairSpec
INVARIANT TypeOK
INVARIANT RateHonest
INVARIANT FirstShown
PROPERTY FullShown
CHECK_DEADLOCK FALSE
