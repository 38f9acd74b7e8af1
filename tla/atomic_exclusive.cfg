\* Three tasks that open and close a ring of one byte.
SPECIFICATION Spec
CONSTANTS
  Readers = {r1}
  Writers = {r1}
  Openers = {r1, o1, o2}
  MaxSize = 1
  Lens = {1}
  Data = {a}
  Beyond = beyond
INVARIANT ExclusiveOpen
