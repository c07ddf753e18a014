\* The real tables, every block of a chunk, sizes at the bounds.
SPECIFICATION Spec
CONSTANTS
  Sizes <- EdgeSizes
  Chunk <- FirstChunk
  Starts <- LargeStarts
INVARIANTS
  TypeOK
  LeastClass
  HeaderFound
  CopiesInside
