---------------------------- MODULE MCEventGroup ----------------------------
EXTENDS EventGroup, TLC

CONSTANTS b1, b2

TwoBits == {b1, b2}
AllMasks == {{b1}, {b2}, {b1, b2}}

\* A blocking and a timed wait for all bits that consume them, a timed wait for
\* any bit, a poll of any bit and one of all bits that consume.
MixedRequests ==
  {[mask |-> {b1, b2}, all |-> TRUE,  clear |-> TRUE,  ticks |-> "forever"],
   [mask |-> {b1, b2}, all |-> FALSE, clear |-> FALSE, ticks |-> "finite"],
   [mask |-> {b1, b2}, all |-> TRUE,  clear |-> TRUE,  ticks |-> "finite"],
   [mask |-> {b1, b2}, all |-> FALSE, clear |-> TRUE,  ticks |-> "zero"],
   [mask |-> {b1, b2}, all |-> TRUE,  clear |-> TRUE,  ticks |-> "zero"]}
=============================================================================
