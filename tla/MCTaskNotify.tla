---------------------------- MODULE MCTaskNotify ----------------------------
EXTENDS NotifyUse

\* Every action of xTaskNotify, with values that set one bit, both or none.
SomeNotices ==
  {[action |-> a, value |-> 0] : a \in {"eNoAction", "eIncrement"}} \cup
  {[action |-> a, value |-> v] :
     a \in {"eSetBits", "eSetValueWithOverwrite", "eSetValueWithoutOverwrite"},
     v \in {0, 1, 2}}

\* Takes of both kinds, waits that clear nothing, one bit or all; polls.
SomeCalls ==
  Takes \cup
  [op : {"Wait"}, entry : {0, 1}, exit : {0, 2 ^ Width - 1}, block : BOOLEAN]
=============================================================================
