SPECIFICATION Spec
CONSTANTS
  Buffers = {b1, b2, b3}
  Pools = {p1, p2}
  BufferSizes = {1}
  PoolSizes = {3, 4}
  MaxSize = 4
  Alignment = 2
  NoPool = NoPool
  NullPtr = NullPtr
  NotAdding = NotAdding
  Unwritten = Unwritten
SYMMETRY Symmetry
INVARIANTS TypeOK RegisterExact MemorySafe ContentKept
