SPECIFICATION FairSpec
CONSTANTS
    MaxSessions = 1
    Stream = {w1, w2}
    Main = main
    Version = {"long"}
    Regions = 3
    a = a
    b = b
    Value = {zero, a, b}
    Zero = zero
    Torn = torn
    Absent = absent
    Data <- MCData
    CheckpointChunks = 1
    ResumeFlag = {TRUE}
    Overlap = TRUE
    Tampering = {}
    NoRecord = norecord
INVARIANT RecordSound
INVARIANT OneCheckpoint
PROPERTY RecordsGrow
PROPERTY SessionEnds
PROPERTY WorkersEnd
