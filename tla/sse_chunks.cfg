CONSTANTS
    Bytes <- LineBytes
    MaxLen = 5
SPECIFICATION Spec
\* sse_decode returns once the stream has ended.
CHECK_DEADLOCK FALSE
INVARIANT TypeOK
INVARIANT ChunkInvariant
