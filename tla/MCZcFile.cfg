SPECIFICATION Spec
CONSTANTS
  r = r  s = s  w = w
  Readers = {r, s}  Writers = {r, w}  Seekers = {s, w}
  Sizes = {1, 2}
  Deltas <- BackAndForth
  Lengths = {0, 2}
  MaxOffset = 4  Word = 16
  MayFail = {"ftruncate", "mmap", "mremap"}
INVARIANTS WritersExclude ChunksStayMapped SizeFollowsLength
PROPERTIES NextChunkFollows
