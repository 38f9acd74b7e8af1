\* One reading and one writing task, interleaved at every shared access.
SPECIFICATION FairSpec
CONSTANTS
  Readers = {r1}
  Writers = {w1}
  MaxSize = 3
  Lens = {0, 1, 2, 4}
  Data = {a}
  Beyond = beyond
INVARIANTS TypeOK CountInRange CopiesStayInPage NoLostWakeup WaitEndsWithData
PROPERTY DataEndsTheSleep
