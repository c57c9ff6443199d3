\* Two attempts and one failure; either side hosts.  Everything ends when
\* both sides have, so the system may stop.
CONSTANTS
    MIN_CHUNK_SIZE = 2
    MAX_CHUNK_SIZE = 4
    Err = Err
    LongNames = {"long"}
    DotNames = {"a."}
    DeviceNames = {"CON"}
    OnDisk <- Disk
    MaxFileBytes = 8
    MaxHashes = 4
    FileSize <- Sizes
    ChunkSize = 2
    Streams = 2
    MaxStreams = 3
    Version = 1
    Offers <- OfferSet
    ResumeFlag = {TRUE, FALSE}
    Hosts = {"sender", "receiver"}
    MaxBuffer = 1
    MaxAttempts = 2
    MaxFaults = 1
    None = None
SPECIFICATION FairSpec
INVARIANT TypeOK
INVARIANT PathsApart
INVARIANT BytesReported
INVARIANT CompletedOnce
INVARIANT NothingLost
INVARIANT FailsOnlyWhenHurt
INVARIANT NeverStuck
PROPERTY Refines
PROPERTY EndsOrParked
PROPERTY Delivered
CHECK_DEADLOCK FALSE
