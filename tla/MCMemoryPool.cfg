\* Two threads, chunks of two blocks, one chunk to begin with, stamps that wrap.
CONSTANTS
  Threads = {t1, t2}
  chunkSize = 2
  InitialChunks = 1
  MaxChunks = 3
  MaxOps = 6
  StampCount = 4
SPECIFICATION Spec
CHECK_DEADLOCK FALSE
INVARIANTS
  OnePlace
  FooledOnlyByWrap
  CountersAgree
