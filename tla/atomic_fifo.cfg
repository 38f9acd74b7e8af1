\* A reader, a writer and a third task that only opens and closes.
SPECIFICATION Spec
CONSTANTS
  Readers = {r1}
  Writers = {w1}
  Openers = {r1, w1, o1}
  MaxSize = 2
  Lens = {0, 1, 3}
  Data = {a}
  Beyond = beyond
INVARIANTS TypeOK AvailableCounts CountInRange
PROPERTIES RefusedOnlyWhenFree AdmittedOnlyInContention
