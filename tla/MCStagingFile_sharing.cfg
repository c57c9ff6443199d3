SPECIFICATION Spec
CONSTANTS
    MaxSessions = 2
    Stream = {w1}
    Main = main
    Version = {"long", "short"}
    Regions = 2
    a = a
    b = b
    Value = {zero, a, b}
    Zero = zero
    Torn = torn
    Absent = absent
    Data <- MCData
    CheckpointChunks = 2
    ResumeFlag = {TRUE, FALSE}
    Overlap = TRUE
    Tampering = {"delete", "truncate"}
    NoRecord = norecord
INVARIANT TypeOK
INVARIANT RecordSound
INVARIANT BitmapSound
PROPERTY CompleteExact
