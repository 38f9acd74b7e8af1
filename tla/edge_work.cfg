\* The gt818 tells five touches apart.
SPECIFICATION FairSpec
CONSTANT MaxTouches = 5
INVARIANTS DisabledWhileWorkIsOwed DataInBounds
PROPERTY EdgeIsReported
