SPECIFICATION FairSpec
CONSTANTS
  Controllers = {c1, c2}
  MaxPeriod = 2
  Modes = {"periodic", "once"}
INVARIANTS StoppedIsSilent OnceIsOnce NothingUsesFreedTimer
PROPERTIES StartedFires NeverEarlyUnlessRestarted
