----------------------------- MODULE ByteStream -----------------------------
(***************************************************************************)
(* What a stream buffer promises: a bounded first-in, first-out stream of  *)
(* bytes.  A send takes the longest prefix of its data that still fits; a  *)
(* receive delivers the oldest bytes, as many as it asks for or, if there  *)
(* are fewer, all of them.                                                 *)
(***************************************************************************)
EXTENDS Naturals, Sequences

CONSTANTS Capacity,  \* the number of bytes the stream holds
          Data,      \* the sequences of bytes that are sent
          Lengths    \* the numbers of bytes that are asked for

VARIABLES stream,    \* the bytes in transit, oldest first
          taken,     \* the bytes the last send has taken
          got        \* the bytes the last receive has delivered

vars == <<stream, taken, got>>

Init == stream = << >> /\ taken = << >> /\ got = << >>

Least(m, n) == IF m < n THEN m ELSE n

Put(data) == LET n == Least(Len(data), Capacity - Len(stream)) IN
             /\ stream' = stream \o SubSeq(data, 1, n)
             /\ taken' = SubSeq(data, 1, n)
             /\ UNCHANGED got

Take(len) == LET n == Least(len, Len(stream)) IN
             /\ got' = SubSeq(stream, 1, n)
             /\ stream' = SubSeq(stream, n + 1, Len(stream))
             /\ UNCHANGED taken

Clear == stream' = << >> /\ UNCHANGED <<taken, got>>

Next == \/ \E data \in Data : Put(data)
        \/ \E len \in Lengths : Take(len)
        \/ Clear

Spec == Init /\ [][Next]_vars
=============================================================================
