CONSTANTS
  HEAP_SIZE = 22
  BLOCK_HEADER_SIZE = 1
  MIN_BLOCK_SIZE = 2
  ALIGN = 2
  WORD = 32
  Requests <- SomeRequests
SPECIFICATION Spec
INVARIANTS TypeOK Tiled FailsOnlyWhenFull StatsAgree
PROPERTIES ImplementsAllocator
