SPECIFICATION FairSpec
CONSTANTS
  Threads = {t1, t2, t3}
  Items = {a}
  MaxLength = 1
  Ops <- AllOps
  NoItem = NoItem
PROPERTY CallsReturn
