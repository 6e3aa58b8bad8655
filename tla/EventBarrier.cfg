SPECIFICATION BarrierSpec
CONSTANTS
  Threads = {t1, t2, t3}
  Bits = {t1, t2, t3}
  Masks = {{t1}, {t2}, {t3}, {t1, t2, t3}}
  Requests = {}
  None = None
PROPERTY EverybodyPasses
CHECK_DEADLOCK FALSE
