\* Three streams, six chunks of four bytes (the last one short), pages of two
\* bytes, a batch of two chunks, every subset of the chunks to be sent.  The
\* streams end, so the system may stop.
CONSTANTS
    Worker = {w1, w2, w3}
    FileSize = 21
    ChunkSize = 4
    PageSize = 2
    ReleaseBatch = 8
SPECIFICATION Spec
SYMMETRY Workers
INVARIANT TypeOK
INVARIANT NoReleaseUnderBorrow
INVARIANT UnreadKept
INVARIANT Footprint
INVARIANT Reclaimed
CHECK_DEADLOCK FALSE
