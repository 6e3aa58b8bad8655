SPECIFICATION Spec
CONSTANTS
  Threads = {t1, t2, t3}
  Items = {a, b}
  MaxLength = 2
  Ops <- PlainOps
  NoItem = NoItem
SYMMETRY SymmetricThreads
INVARIANTS NoStrandedReceiver NoStrandedSender
PROPERTY Refinement
