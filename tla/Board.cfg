\* The whole catalogue; two posters, two handlers and two nested posts; three
\* threads on one pin; bytes of two bits.
SPECIFICATION BoardSpec
CONSTANTS
  Devices <- MCDevices
  Posters = {p, q}
  Handlers = {h1, h2}
  MaxDepth = 2
  Threads = {a, b, c}
  Bits = 2
INVARIANT TypeOK Layered SessionsStartClean OncePerPost ExclusiveUntilStolen DrawIsExact
PROPERTY TeardownCompletes
\* A program may stop calling.
CHECK_DEADLOCK FALSE
