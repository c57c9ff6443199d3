\* Three start calls, one of them a host, and two cancels on any threads.  Calls and
\* transfers are finitely many and end, so the system may stop.
CONSTANTS
    Start = {s1, s2, s3}
    Host = {s1}
    Cancel = {c1, c2}
    Serial = FALSE
    None = None
SPECIFICATION Spec
SYMMETRY Calls
INVARIANT TypeOK
INVARIANT Exclusive
INVARIANT SlotFree
INVARIANT OneOutcome
CHECK_DEADLOCK FALSE
