\* Up to four chunks over two streams, of a size that need not divide the
\* input: buffers are reused within and between calls.
CONSTANTS
  MaxElements = 7
  Streams = 2
  ChunkElements = 0
  PipelineChunks = 4
  Counts <- EveryCount
  CudaMayFail = TRUE
  MaxCalls = 3
SPECIFICATION FairSpec
INVARIANTS ChunkIntegrity
PROPERTIES ReturnsWhole CallEnds
