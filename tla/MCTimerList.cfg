SPECIFICATION LiveSpec
CONSTANTS
  Timers = {t1, t2, t3}
  NoTimer = NoTimer
  Delays = {1, 2}
  IdleSleep = 2
INVARIANTS TypeOK StatesAgree DeltasAddUp FiresOnTime  DestroyedNotQueued
PROPERTY EveryTimerFires
CHECK_DEADLOCK FALSE
