CONSTANTS
    Bytes <- SplitBytes
    MaxLen = 4
SPECIFICATION Spec
\* sse_decode returns once the stream has ended.
CHECK_DEADLOCK FALSE
INVARIANT ChunkInvariant
