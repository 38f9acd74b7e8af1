\* One task that writes and reads in turn.
SPECIFICATION Spec
CONSTANTS
  Readers = {t1}
  Writers = {t1}
  MaxSize = 2
  Lens = {1, 2}
  Data = {a, b}
  Beyond = beyond
INVARIANT ReadsInOrder
