\* Three tasks read the converter at the same time.
SPECIFICATION FairSpec
CONSTANTS
  Tasks = {t1, t2, t3}
  Free = free
INVARIANTS SampleIsFresh NoLostWakeup
PROPERTIES ConversionIsMine MutexIsReleased
