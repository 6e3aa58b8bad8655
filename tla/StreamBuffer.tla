---------------------------- MODULE StreamBuffer ----------------------------
(***************************************************************************)
(* include/freertos/stream_buffer.h: a stream buffer, the ring of bytes    *)
(* buf of which the count cells from head on are in use.  Each call holds  *)
(* the mutex from its first to its last statement and never waits (the     *)
(* ticks are ignored), so each call is one action.                         *)
(***************************************************************************)
EXTENDS Integers, Sequences

CONSTANTS Byte,      \* the values of a byte
          Capacity,  \* the size of the ring
          Data,      \* the sequences of bytes that are sent
          Lengths    \* the numbers of bytes that are asked for

\* A ring of no cells divides by zero on its first use.
ASSUME StreamBufferAssumption ==
  /\ Capacity \in Nat \ {0}
  /\ 0 \in Byte
  /\ Data \subseteq Seq(Byte)
  /\ Lengths \subseteq Nat

VARIABLES buf, head, count,  \* the fields of StreamBuffer
          taken,             \* ghost: the bytes the last send has taken; it
                             \* returns their number
          got                \* the bytes the last receive has copied out

ring       == <<buf, head, count>>
streamVars == <<ring, taken, got>>

Cells == 0 .. (Capacity - 1)

\* std::vector<uint8_t> buf(cap) is filled with zeros
StreamInit == /\ buf = [k \in Cells |-> 0]
              /\ head = 0 /\ count = 0
              /\ taken = << >> /\ got = << >>

Least(m, n) == IF m < n THEN m ELSE n

-----------------------------------------------------------------------------
\* Mutant of Written: the index is not wrapped, so what belongs beyond the last
\* cell is not written.
WrittenFlat(first, data, n) ==
  [k \in Cells |-> IF k - first \in 0 .. (n - 1) THEN data[k - first + 1] ELSE buf[k]]

\* The ring after the first n bytes of data went into the n cells from cell
\* first on: cell k gets the byte whose index is its distance from first.
Written(first, data, n) ==
  [k \in Cells |-> LET i == (k - first) % Capacity IN
                   IF i < n THEN data[i + 1] ELSE buf[k]]

\* The n bytes in the cells from head on.
Read(n) == [i \in 1 .. n |-> buf[(head + i - 1) % Capacity]]

Send(data) == LET n == Least(Len(data), Capacity - count) IN
              /\ buf' = Written(head + count, data, n)
              /\ count' = count + n
              /\ taken' = SubSeq(data, 1, n)
              /\ UNCHANGED <<head, got>>

Receive(len) == LET n == Least(len, count) IN
                /\ got' = Read(n)
                /\ head' = (head + n) % Capacity
                /\ count' = count - n
                /\ UNCHANGED <<buf, taken>>

Reset == /\ head' = 0 /\ count' = 0
         /\ UNCHANGED <<buf, taken, got>>

StreamNext == \/ \E data \in Data : Send(data)
              \/ \E len \in Lengths : Receive(len)
              \/ Reset

StreamSpec == StreamInit /\ [][StreamNext]_streamVars

-----------------------------------------------------------------------------
\* The ring never holds more than its capacity, and every field is in range.
StreamTypeOK == /\ buf \in [Cells -> Byte]
                /\ head \in Cells
                /\ count \in 0 .. Capacity
                /\ taken \in Seq(Byte)
                /\ got \in Seq(Byte)

\* Wherever head is and however often the indices have wrapped, the ring is a
\* bounded first-in, first-out stream: no byte is lost, repeated or reordered.
Abstract == INSTANCE ByteStream WITH stream <- Read(count)

ByteFifo == Abstract!Spec
=============================================================================
