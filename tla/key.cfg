\* One application task that polls and reads, as app_key.c does.
SPECIFICATION FairSpec
CONSTANTS
  Readers = {a1}
  Pollers = {a1}
  MaxMisses = 3
  MaxCredit = 2
INVARIANTS NoPressTwice NoLostWakeup ReadableMeansNoSleep
PROPERTY PressEndsTheSleep
