\* One reader and one writer; five bytes are ever written.
SPECIFICATION Spec
CONSTANTS
  Readers = {r1}
  Writers = {w1}
  Lens = {0, 1, 2, 3}
  MaxBytes = 5
INVARIANTS TakenInOrder OnlyLateBytesSkipped
