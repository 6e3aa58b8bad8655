SPECIFICATION FairSpec
CONSTANTS
  Controllers = {c1}
  Workers = {w1, w2}
  MaxPeriod = 2
  Ops = {"Start", "Stop", "Reset", "ChangePeriod", "Delete"}
  CallbackOps = {"Start", "Stop"}
  NoThread = NoThread
INVARIANTS NeverTerminates ActiveIffWorker NothingUsesFreedTimer
PROPERTIES NeverEarly TimerLives
