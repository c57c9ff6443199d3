\* Three start calls and two cancels, one after the other.  Calls and
\* transfers are finitely many and end, so the system may stop.
CONSTANTS
    Start = {s1, s2, s3}
    Host = {s1}
    Cancel = {c1, c2}
    Serial = TRUE
    None = None
SPECIFICATION Spec
INVARIANT OneAtATime
CHECK_DEADLOCK FALSE
