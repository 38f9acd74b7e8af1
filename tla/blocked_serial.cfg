\* One task, so that calls never overlap; two byte values tell bytes apart.
SPECIFICATION Spec
CONSTANTS
  Readers = {t1}
  Writers = {t1}
  MaxSize = 3
  Lens = {0, 1, 2, 4}
  Data = {a, b}
  Beyond = beyond
INVARIANTS WrappedReadsInOrder FieldsAgree
PROPERTY RingIsQueue
