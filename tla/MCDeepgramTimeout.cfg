\* A panic, or a dead microphone, stops the task for good.
CONSTANT MaxUnits = 6
SPECIFICATION FairSpec
CHECK_DEADLOCK FALSE
PROPERTY
    TimeoutTakesNothing
