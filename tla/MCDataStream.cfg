\* Chunks of four bytes, frames of two and of three (two frames a chunk, equal
\* and not) and of four (one, above the limit), at most two unread frames before
\* the sender waits, two foreign frames.  The stream ends, so the system may stop.
CONSTANTS
    MIN_CHUNK_SIZE = 2
    MAX_CHUNK_SIZE = 9
    Err = Err
    Base = 8
    MAGIC = 42
    PROTOCOL_VERSION = 1
    MAX_FRAME_PAYLOAD = 3
    BadHeader = BadHeader
    FileSize <- Sizes
    ChunkSize = 4
    FrameSizes = {2, 3, 4}
    Have <- HaveBytes
    Answers <- AnswerBytes
    Foreign <- ForeignFrames
    MaxWire = 2
    MaxForeign = 2
    None = None
SPECIFICATION Spec
INVARIANT TypeOK
INVARIANT LayoutTiles
INVARIANT RangesExact
INVARIANT BitmapExact
INVARIANT HeaderCanonical
INVARIANT BitsMatchContent
INVARIANT BufferBounded
INVARIANT HonestDelivers
CHECK_DEADLOCK FALSE
