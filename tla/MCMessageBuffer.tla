--------------------------- MODULE MCMessageBuffer ---------------------------
EXTENDS MessageBuffer

ThreeBytes == 0 .. 2

\* Everything up to two bytes long.
ShortData == UNION {[1 .. n -> ThreeBytes] : n \in 0 .. 2}

\* The length in two bytes, the low one first.
LittleEndian == [n \in 0 .. 8 |-> <<n % 3, n \div 3>>]

\* A message of one byte and one of two.
TwoMessages == {<<1>>, <<2, 1>>}
=============================================================================
