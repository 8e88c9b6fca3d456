SPECIFICATION Spec
CONSTANTS
    a = a
    b = b
    Timers = {a, b}
    MaxTime = 4
    MaxCreated = 2
    Delays = {0, 2}
    Intervals = {0, 1}
    Repetitions <- MCRepetitions
    Threshold = 1
    Forever = 15
INVARIANTS TypeOK AlarmCoversTimers TimersAreLive RepetitionsExact CancelledNeverFires
PROPERTY TimersExpire
CHECK_DEADLOCK FALSE
