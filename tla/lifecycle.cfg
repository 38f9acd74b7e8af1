SPECIFICATION Spec
INVARIANT ReadyWhenReachable
INVARIANT QuietWhenGone
INVARIANT GivesBack
INVARIANT ReleasedOnce
INVARIANT TableFollowsRules
CHECK_DEADLOCK FALSE
