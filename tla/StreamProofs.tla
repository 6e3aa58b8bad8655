---------------------------- MODULE StreamProofs ----------------------------
(***************************************************************************)
(* The stream buffer is a bounded first-in, first-out stream of bytes, for *)
(* every capacity from 1 on and every length of data.  The heart of it is  *)
(* arithmetic: which cell of the ring an index of the stream falls into    *)
(* (CellOf), and at what distance from the cell where a send begins to     *)
(* write that cell lies (Distance).                                        *)
(*                                                                         *)
(* The message buffer keeps messages whole on top of it, for every length  *)
(* of the prefix and every encoding of a length.                           *)
(***************************************************************************)
EXTENDS MessageBuffer, SequenceTheorems, TLAPS

\* Indices into the ring wrap at most once.
LEMMA CellOf ==
  ASSUME NEW h \in Cells, NEW j \in 0 .. Capacity
  PROVE  /\ (h + j) % Capacity \in Cells
         /\ (h + j) % Capacity = IF h + j < Capacity THEN h + j
                                                     ELSE h + j - Capacity
  BY StreamBufferAssumption DEF Cells

\* The cell j places after the head is written by a send that begins count
\* places after the head only if j is beyond the bytes that are in use, and
\* then it gets the byte whose index is j - count.
LEMMA Distance ==
  ASSUME NEW h \in Cells, NEW c \in 0 .. Capacity, NEW j \in 0 .. (Capacity - 1)
  PROVE  (((h + j) % Capacity) - (h + c)) % Capacity =
           IF j < c THEN j - c + Capacity ELSE j - c
  <1> DEFINE k == (h + j) % Capacity
  <1>1. k \in Cells /\ (k = h + j \/ k = h + j - Capacity)
    BY CellOf, StreamBufferAssumption DEF Cells
  <1> HIDE DEF k
  <1>2. (k - (h + c)) % Capacity = IF j < c THEN j - c + Capacity ELSE j - c
    BY <1>1, StreamBufferAssumption DEF Cells
  <1> QED
    BY <1>2 DEF k

\* The cells from h on are cells.
LEMMA InRing ==
  ASSUME NEW h \in Cells, NEW n \in 0 .. Capacity, NEW i \in 1 .. n
  PROVE  (h + i - 1) % Capacity \in Cells
  <1>1. i - 1 \in 0 .. Capacity /\ h + i - 1 = h + (i - 1)
    BY StreamBufferAssumption DEF Cells
  <1> QED
    BY <1>1, CellOf

\* What is read from a ring b is a sequence of bytes.
LEMMA ReadIsSeq ==
  ASSUME NEW b \in [Cells -> Byte], NEW h \in Cells, NEW n \in 0 .. Capacity,
         NEW s, s = [i \in 1 .. n |-> b[(h + i - 1) % Capacity]]
  PROVE  /\ s \in Seq(Byte)
         /\ Len(s) = n
         /\ \A i \in 1 .. n : s[i] = b[(h + i - 1) % Capacity]
  <1>1. \A i \in 1 .. n : (h + i - 1) % Capacity \in Cells
    BY InRing
  <1>2. s \in [1 .. n -> Byte]
    BY <1>1
  <1>3. n \in Nat
    BY StreamBufferAssumption
  <1> QED
    BY <1>2, <1>3

\* What is read from the ring itself.
LEMMA ReadTyped ==
  ASSUME StreamTypeOK, NEW n \in 0 .. Capacity
  PROVE  /\ Read(n) \in Seq(Byte)
         /\ Len(Read(n)) = n
         /\ \A i \in 1 .. n : Read(n)[i] = buf[(head + i - 1) % Capacity]
  <1> DEFINE s == Read(n)
  <1>1. s = [i \in 1 .. n |-> buf[(head + i - 1) % Capacity]]
    BY DEF Read
  <1>2. buf \in [Cells -> Byte] /\ head \in Cells
    BY DEF StreamTypeOK
  <1> HIDE DEF s
  <1>3. \A i \in 1 .. n : (head + i - 1) % Capacity \in Cells
    BY <1>2, InRing
  <1>4. s \in [1 .. n -> Byte] /\ n \in Nat
    BY <1>1, <1>2, <1>3, StreamBufferAssumption
  <1>5. s \in Seq(Byte) /\ Len(s) = n
    BY <1>4
  <1>6. \A i \in 1 .. n : s[i] = buf[(head + i - 1) % Capacity]
    BY <1>1
  <1> QED
    BY <1>5, <1>6 DEF s

LEMMA StreamIsSeq ==
  ASSUME StreamTypeOK
  PROVE  /\ Read(count) \in Seq(Byte)
         /\ Len(Read(count)) = count
         /\ \A i \in 1 .. count : Read(count)[i] = buf[(head + i - 1) % Capacity]
  <1>1. count \in 0 .. Capacity
    BY DEF StreamTypeOK
  <1> QED
    BY <1>1, ReadTyped

-----------------------------------------------------------------------------
LEMMA SendTyped ==
  ASSUME StreamTypeOK, NEW data \in Seq(Byte), Send(data)
  PROVE  StreamTypeOK'
  <1> DEFINE n == Least(Len(data), Capacity - count)
  <1>1. data \in Seq(Byte) /\ Len(data) \in Nat
    BY StreamBufferAssumption
  <1>2. n \in Nat /\ n <= Len(data) /\ n <= Capacity - count
    BY <1>1, StreamBufferAssumption DEF StreamTypeOK, Least
  <1>3. buf' = Written(head + count, data, n) /\ count' = count + n
        /\ taken' = SubSeq(data, 1, n)
    BY DEF Send
  <1> HIDE DEF n
  <1>4. ASSUME NEW k \in Cells
        PROVE  (LET i == (k - (head + count)) % Capacity IN
                IF i < n THEN data[i + 1] ELSE buf[k]) \in Byte
    <2> DEFINE i == (k - (head + count)) % Capacity
    <2>1. i \in Nat
      BY StreamBufferAssumption DEF StreamTypeOK, Cells
    <2> HIDE DEF i
    <2>2. CASE i < n
      <3>1. i + 1 \in 1 .. Len(data)
        BY <1>1, <1>2, <2>1, <2>2
      <3>2. data[i + 1] \in Byte
        BY <1>1, <3>1, ElementOfSeq
      <3> QED
        BY <2>2, <3>2 DEF i
    <2>3. CASE ~ (i < n)
      BY <2>3 DEF StreamTypeOK, i
    <2> QED
      BY <2>2, <2>3
  <1>5. buf' \in [Cells -> Byte]
    BY <1>3, <1>4 DEF Written
  <1>6. taken' \in Seq(Byte)
    <2>1. \A i \in 1 .. n : data[i] \in Byte
      BY <1>1, <1>2, ElementOfSeq
    <2> QED
      BY <1>2, <1>3, <2>1, SubSeqProperties
  <1> QED
    BY <1>2, <1>3, <1>5, <1>6, StreamBufferAssumption DEF StreamTypeOK, Send

LEMMA ReceiveTyped ==
  ASSUME StreamTypeOK, NEW len \in Nat, Receive(len)
  PROVE  StreamTypeOK'
  <1> DEFINE n == Least(len, count)
  <1>1. n \in Nat /\ n <= count /\ n \in 0 .. Capacity
    BY StreamBufferAssumption DEF StreamTypeOK, Least
  <1>2. got' = Read(n) /\ head' = (head + n) % Capacity /\ count' = count - n
    BY DEF Receive
  <1> HIDE DEF n
  <1>3. head' \in Cells
    BY <1>1, <1>2, CellOf DEF StreamTypeOK
  <1>4. got' \in Seq(Byte)
    BY <1>1, <1>2, ReadTyped
  <1> QED
    BY <1>1, <1>2, <1>3, <1>4, StreamBufferAssumption DEF StreamTypeOK, Receive

LEMMA TypeStep == StreamTypeOK /\ [StreamNext]_streamVars => StreamTypeOK'
  <1> SUFFICES ASSUME StreamTypeOK, [StreamNext]_streamVars
               PROVE  StreamTypeOK'
      OBVIOUS
  <1>1. CASE Reset
    BY <1>1, StreamBufferAssumption DEF Reset, StreamTypeOK, Cells
  <1>2. CASE UNCHANGED streamVars
    BY <1>2 DEF streamVars, ring, StreamTypeOK
  <1> QED
    BY <1>1, <1>2, SendTyped, ReceiveTyped, StreamBufferAssumption DEF StreamNext

LEMMA TypeInit == StreamInit => StreamTypeOK
  BY StreamBufferAssumption DEF StreamInit, StreamTypeOK, Cells

(***************************************************************************)
(* The ring never overflows, and its indices stay inside it.               *)
(***************************************************************************)
THEOREM StreamTypeCorrect == StreamSpec => []StreamTypeOK
  BY TypeInit, TypeStep, PTL DEF StreamSpec
-----------------------------------------------------------------------------
(***************************************************************************)
(* The refinement, step by step.  Old and New are the stream before and    *)
(* after the step.                                                         *)
(***************************************************************************)
LEMMA NextStreamIsSeq ==
  ASSUME StreamTypeOK'
  PROVE  /\ Read(count)' \in Seq(Byte)
         /\ Len(Read(count)') = count'
         /\ \A i \in 1 .. count' : Read(count)'[i] = buf'[(head' + i - 1) % Capacity]
  <1>1. Read(count)' = [i \in 1 .. count' |-> buf'[(head' + i - 1) % Capacity]]
    BY DEF Read
  <1>2. buf' \in [Cells -> Byte] /\ head' \in Cells /\ count' \in 0 .. Capacity
    BY DEF StreamTypeOK
  <1> QED
    BY <1>1, <1>2, ReadIsSeq

LEMMA SendPuts ==
  ASSUME StreamTypeOK, NEW data \in Seq(Byte), Send(data)
  PROVE  Abstract!Put(data)
  <1> DEFINE n == Least(Len(data), Capacity - count)
             old == Read(count)
             new == Read(count)'
             front == SubSeq(data, 1, n)
  <1>1. data \in Seq(Byte) /\ Len(data) \in Nat
    BY StreamBufferAssumption
  <1>2. n \in Nat /\ n <= Len(data) /\ n <= Capacity - count
    BY <1>1, StreamBufferAssumption DEF StreamTypeOK, Least
  <1>3. /\ buf' = Written(head + count, data, n)
        /\ count' = count + n /\ taken' = front /\ head' = head /\ got' = got
    BY DEF Send
  <1>4. old \in Seq(Byte) /\ Len(old) = count
        /\ \A i \in 1 .. count : old[i] = buf[(head + i - 1) % Capacity]
    BY StreamIsSeq
  <1>5. new \in Seq(Byte) /\ Len(new) = count + n
        /\ \A i \in 1 .. (count + n) : new[i] = buf'[(head + i - 1) % Capacity]
    BY <1>3, SendTyped, NextStreamIsSeq
  <1>6. n = Abstract!Least(Len(data), Capacity - Len(old))
    BY <1>4 DEF Least, Abstract!Least
  <1> HIDE DEF n, old, new
  <1>7. front \in Seq(Byte) /\ Len(front) = n
        /\ \A i \in 1 .. n : front[i] = data[i]
    <2>1. \A i \in 1 .. n : data[i] \in Byte
      BY <1>1, <1>2, ElementOfSeq
    <2> QED
      BY <1>2, <2>1, SubSeqProperties
  <1> HIDE DEF front
  <1>8. old \o front \in Seq(Byte) /\ Len(old \o front) = count + n
        /\ \A i \in 1 .. (count + n) :
             (old \o front)[i] = IF i <= count THEN old[i] ELSE front[i - count]
    BY <1>4, <1>7, ConcatProperties
  <1>9. ASSUME NEW i \in 1 .. (count + n)
        PROVE  new[i] = (old \o front)[i]
    <2> DEFINE k == (head + (i - 1)) % Capacity
               d == (k - (head + count)) % Capacity
    <2>1. i - 1 \in 0 .. (Capacity - 1) /\ head + i - 1 = head + (i - 1)
      BY <1>2, StreamBufferAssumption DEF StreamTypeOK, Cells
    <2>2. k \in Cells
      BY <2>1, CellOf, StreamBufferAssumption DEF StreamTypeOK
    <2>3. d = IF i - 1 < count THEN i - 1 - count + Capacity ELSE i - 1 - count
      BY <2>1, Distance DEF StreamTypeOK
    <2>4. buf'[k] = IF d < n THEN data[d + 1] ELSE buf[k]
      BY <1>3, <2>2 DEF Written
    <2>5. new[i] = buf'[k]
      BY <1>5, <2>1
    <2> HIDE DEF d, k
    <2>6. CASE i <= count
      <3>1. ~ (d < n)
        BY <1>2, <2>1, <2>3, <2>6, StreamBufferAssumption DEF StreamTypeOK
      <3>2. old[i] = buf[k]
        BY <1>4, <2>1, <2>6 DEF k
      <3> QED
        BY <1>8, <2>4, <2>5, <2>6, <3>1, <3>2
    <2>7. CASE ~ (i <= count)
      <3>1. d < n /\ d + 1 = i - count /\ i - count \in 1 .. n
        BY <1>2, <2>1, <2>3, <2>7, StreamBufferAssumption DEF StreamTypeOK
      <3> QED
        BY <1>7, <1>8, <2>4, <2>5, <2>7, <3>1
    <2> QED
      BY <2>6, <2>7
  <1>10. new = old \o front
    BY <1>5, <1>8, <1>9, SeqEqual
  <1> QED
    BY <1>3, <1>6, <1>10 DEF Abstract!Put, old, new, front

LEMMA ReceiveTakes ==
  ASSUME StreamTypeOK, NEW len \in Nat, Receive(len)
  PROVE  Abstract!Take(len)
  <1> DEFINE n == Least(len, count)
             old == Read(count)
             new == Read(count)'
             front == SubSeq(old, 1, n)
             rest == SubSeq(old, n + 1, count)
  <1>1. n \in Nat /\ n <= count /\ count \in 0 .. Capacity /\ n \in 0 .. Capacity
    BY StreamBufferAssumption DEF StreamTypeOK, Least
  <1>2. /\ got' = Read(n) /\ head' = (head + n) % Capacity
        /\ count' = count - n /\ buf' = buf /\ taken' = taken
    BY DEF Receive
  <1>3. old \in Seq(Byte) /\ Len(old) = count
        /\ \A i \in 1 .. count : old[i] = buf[(head + i - 1) % Capacity]
    BY StreamIsSeq
  <1>4. new \in Seq(Byte) /\ Len(new) = count - n
        /\ \A i \in 1 .. (count - n) :
             new[i] = buf[(((head + n) % Capacity) + i - 1) % Capacity]
    BY <1>2, ReceiveTyped, NextStreamIsSeq
  <1>5. Read(n) \in Seq(Byte) /\ Len(Read(n)) = n
        /\ \A i \in 1 .. n : Read(n)[i] = buf[(head + i - 1) % Capacity]
    BY <1>1, ReadTyped
  <1>6. n = Abstract!Least(len, Len(old))
    BY <1>3 DEF Least, Abstract!Least
  <1> HIDE DEF n, old, new
  <1>7. \A i \in 1 .. count : old[i] \in Byte
    BY <1>3, ElementOfSeq
  <1>8. front \in Seq(Byte) /\ Len(front) = n
        /\ \A i \in 1 .. n : front[i] = old[i]
    BY <1>1, <1>7, SubSeqProperties
  <1>9. rest \in Seq(Byte) /\ Len(rest) = count - n
        /\ \A i \in 1 .. (count - n) : rest[i] = old[n + i]
    <2>1. \A i \in (n + 1) .. count : old[i] \in Byte
      BY <1>1, <1>7
    <2>2. /\ rest \in Seq(Byte)
          /\ Len(rest) = IF n + 1 <= count THEN count - (n + 1) + 1 ELSE 0
          /\ \A i \in 1 .. (count - (n + 1) + 1) : rest[i] = old[n + 1 + i - 1]
      BY <1>1, <2>1, SubSeqProperties
    <2> HIDE DEF rest
    <2>3. Len(rest) = count - n
      BY <1>1, <2>2
    <2>4. \A i \in 1 .. (count - n) : n + 1 + i - 1 = n + i
      BY <1>1
    <2>5. count - (n + 1) + 1 = count - n
      BY <1>1
    <2> QED
      BY <2>2, <2>3, <2>4, <2>5
  <1> HIDE DEF front, rest
  <1>10. Read(n) = front
    <2>1. ASSUME NEW i \in 1 .. n PROVE Read(n)[i] = front[i]
      <3>1. i \in 1 .. count
        BY <1>1
      <3> QED
        BY <1>3, <1>5, <1>8, <3>1
    <2> QED
      BY <1>5, <1>8, <2>1, SeqEqual
  <1>11. ASSUME NEW i \in 1 .. (count - n)
         PROVE  new[i] = rest[i]
    <2>1. n + i \in 1 .. count /\ head + (n + i) - 1 = head + n + (i - 1)
      BY <1>1 DEF StreamTypeOK, Cells
    <2>2. (((head + n) % Capacity) + i - 1) % Capacity = (head + (n + i) - 1) % Capacity
      <3> DEFINE h == (head + n) % Capacity
      <3>1. h \in Cells /\ (h = head + n \/ h = head + n - Capacity)
        BY <1>1, CellOf, StreamBufferAssumption DEF StreamTypeOK, Cells
      <3> HIDE DEF h
      <3>2. /\ head \in Cells /\ Cells = 0 .. (Capacity - 1)
            /\ i - 1 \in 0 .. Capacity /\ n + i - 1 \in 0 .. Capacity
            /\ h + i - 1 = h + (i - 1) /\ head + (n + i) - 1 = head + (n + i - 1)
        BY <1>1, <3>1, StreamBufferAssumption DEF StreamTypeOK, Cells
      <3>3. (h + (i - 1)) % Capacity = IF h + (i - 1) < Capacity
                                         THEN h + (i - 1) ELSE h + (i - 1) - Capacity
        BY <3>1, <3>2, CellOf
      <3>4. (head + (n + i - 1)) % Capacity =
              IF head + (n + i - 1) < Capacity
                THEN head + (n + i - 1) ELSE head + (n + i - 1) - Capacity
        BY <3>2, CellOf
      <3>5. (h + i - 1) % Capacity = (head + (n + i) - 1) % Capacity
        BY <1>1, <3>1, <3>2, <3>3, <3>4, StreamBufferAssumption
      <3> QED
        BY <3>5 DEF h
    <2> QED
      BY <1>3, <1>4, <1>9, <2>1, <2>2
  <1>12. new = rest
    BY <1>1, <1>4, <1>9, <1>11, SeqEqual
  <1> QED
    BY <1>2, <1>3, <1>6, <1>10, <1>12 DEF Abstract!Take, old, new, front, rest

LEMMA EmptyRing ==
  ASSUME StreamTypeOK, count = 0
  PROVE  Read(count) = << >>
  BY StreamIsSeq, EmptySeq

(***************************************************************************)
(* The ring of bytes implements the stream of bytes: sends, receives and   *)
(* resets of the one are those of the other.                               *)
(***************************************************************************)
THEOREM RingIsFifo == StreamSpec => ByteFifo
  <1>1. StreamInit => Abstract!Init
    BY TypeInit, EmptyRing DEF StreamInit, Abstract!Init
  <1>2. ASSUME StreamTypeOK, StreamTypeOK', [StreamNext]_streamVars
        PROVE  [Abstract!Next]_(Abstract!vars)
    <2>1. CASE Reset
      <3>1. Read(count)' = << >>
        BY <1>2, <2>1, NextStreamIsSeq, EmptySeq DEF Reset
      <3> QED
        BY <2>1, <3>1 DEF Reset, Abstract!Clear, Abstract!Next
    <2>2. CASE \E data \in Data : Send(data)
      BY <1>2, <2>2, SendPuts, StreamBufferAssumption DEF Abstract!Next
    <2>3. CASE \E len \in Lengths : Receive(len)
      BY <1>2, <2>3, ReceiveTakes, StreamBufferAssumption DEF Abstract!Next
    <2>4. CASE UNCHANGED streamVars
      BY <2>4 DEF streamVars, ring, Abstract!vars, Read
    <2> QED
      BY <1>2, <2>1, <2>2, <2>3, <2>4 DEF StreamNext
  <1> QED
    BY <1>1, <1>2, StreamTypeCorrect, PTL DEF StreamSpec, ByteFifo, Abstract!Spec
-----------------------------------------------------------------------------
(***************************************************************************)
(* The messages in the ring.                                               *)
(***************************************************************************)
\* A part of a sequence, index by index.
LEMMA Slice ==
  ASSUME NEW S, NEW s \in Seq(S), NEW p \in 0 .. Len(s), NEW q \in p .. Len(s)
  PROVE  /\ SubSeq(s, p + 1, q) \in Seq(S) /\ Len(SubSeq(s, p + 1, q)) = q - p
         /\ \A i \in 1 .. q - p : SubSeq(s, p + 1, q)[i] = s[p + i]
  <1>1. Len(s) \in Nat /\ p \in Nat /\ q \in Nat /\ p <= q /\ q <= Len(s)
    BY LenProperties
  <1>2. \A i \in p + 1 .. q : s[i] \in S
    BY <1>1, ElementOfSeq
  <1> DEFINE t == SubSeq(s, p + 1, q)
  <1>3. /\ t \in Seq(S) /\ Len(t) = IF p + 1 <= q THEN q - (p + 1) + 1 ELSE 0
        /\ \A i \in 1 .. q - (p + 1) + 1 : t[i] = s[p + 1 + i - 1]
    BY <1>1, <1>2, SubSeqProperties
  <1> HIDE DEF t
  <1>4. Len(t) = q - p /\ q - (p + 1) + 1 = q - p
    BY <1>1, <1>3
  <1>5. \A i \in 1 .. q - p : p + 1 + i - 1 = p + i
    BY <1>1
  <1> QED
    BY <1>3, <1>4, <1>5 DEF t

\* The two parts of a concatenation.
LEMMA Parted ==
  ASSUME NEW S, NEW s \in Seq(S), NEW t \in Seq(S)
  PROVE  /\ s \o t \in Seq(S) /\ Len(s \o t) = Len(s) + Len(t)
         /\ SubSeq(s \o t, 1, Len(s)) = s
         /\ SubSeq(s \o t, Len(s) + 1, Len(s \o t)) = t
  <1>1. /\ s \o t \in Seq(S) /\ Len(s \o t) = Len(s) + Len(t)
        /\ Len(s) \in Nat /\ Len(t) \in Nat
        /\ \A i \in 1 .. Len(s) + Len(t) :
             (s \o t)[i] = IF i <= Len(s) THEN s[i] ELSE t[i - Len(s)]
    BY ConcatProperties, LenProperties
  <1> DEFINE u == s \o t
             n == Len(s)
             a == SubSeq(u, 1, n)
             b == SubSeq(u, n + 1, Len(u))
  <1>2. /\ a \in Seq(S) /\ Len(a) = n /\ \A i \in 1 .. n : a[i] = u[i]
    <2>1. 0 \in 0 .. Len(u) /\ n \in 0 .. Len(u)
      BY <1>1
    <2>2. /\ SubSeq(u, 0 + 1, n) \in Seq(S) /\ Len(SubSeq(u, 0 + 1, n)) = n - 0
          /\ \A i \in 1 .. n - 0 : SubSeq(u, 0 + 1, n)[i] = u[0 + i]
      BY <1>1, <2>1, Slice
    <2>3. n - 0 = n /\ 0 + 1 = 1 /\ \A i \in 1 .. n : 0 + i = i
      BY <1>1
    <2> QED
      BY <2>2, <2>3
  <1>3. /\ b \in Seq(S) /\ Len(b) = Len(t) /\ \A i \in 1 .. Len(t) : b[i] = u[n + i]
    <2>1. n \in 0 .. Len(u) /\ Len(u) \in n .. Len(u) /\ Len(u) - n = Len(t)
      BY <1>1
    <2> QED
      BY <1>1, <2>1, Slice
  <1> HIDE DEF a, b
  <1>4. a = s
    <2>1. \A i \in 1 .. n : a[i] = s[i]
      BY <1>1, <1>2
    <2> QED
      BY <1>2, <2>1, SeqEqual
  <1>5. b = t
    <2>1. \A i \in 1 .. Len(t) : ~ (n + i <= n) /\ n + i - n = i /\ n + i \in 1 .. Len(s) + Len(t)
      BY <1>1
    <2>2. \A i \in 1 .. Len(t) : b[i] = t[i]
      BY <1>1, <1>3, <2>1
    <2> QED
      BY <1>3, <2>2, SeqEqual
  <1> QED
    BY <1>1, <1>4, <1>5 DEF a, b

LEMMA FrameIsSeq ==
  ASSUME NEW m \in Messages
  PROVE  /\ m \in Seq(Byte) /\ m # << >> /\ Len(m) \in Nat \ {0} /\ Len(m) \in DOMAIN Encoded
         /\ Encoded[Len(m)] \in Seq(Byte) /\ Len(Encoded[Len(m)]) = Prefix
         /\ Frame(m) \in Seq(Byte) /\ Len(Frame(m)) = Prefix + Len(m)
         /\ Len(Frame(m)) \in Nat \ {0}
  <1>1. m \in Seq(Byte) /\ m # << >> /\ Len(m) \in DOMAIN Encoded /\ Prefix \in Nat \ {0}
    BY MessageAssumption, StreamBufferAssumption
  <1>2. Len(m) \in Nat \ {0}
    BY <1>1, EmptySeq
  <1>3. Encoded[Len(m)] \in [1 .. Prefix -> Byte]
    BY <1>1, MessageAssumption
  <1>4. Encoded[Len(m)] \in Seq(Byte) /\ Len(Encoded[Len(m)]) = Prefix
    BY <1>1, <1>3
  <1>5. Frame(m) \in Seq(Byte) /\ Len(Frame(m)) = Prefix + Len(m)
    BY <1>1, <1>4, ConcatProperties DEF Frame
  <1> QED
    BY <1>1, <1>2, <1>4, <1>5

LEMMA NothingFramed ==
  /\ Framed(<< >>, << >>)
  /\ \A bytes \in Seq(Byte) : Framed(bytes, << >>) => bytes = << >>
  <1>1. Len(<< >>) = 0
    OBVIOUS
  <1>2. Framed(<< >>, << >>)
    <2> DEFINE at == [i \in 0 .. 0 |-> 0]
    <2>1. at \in [0 .. 0 -> 0 .. 0] /\ at[0] = 0 /\ \A i, j \in DOMAIN at : at[i] <= at[j]
      OBVIOUS
    <2> HIDE DEF at
    <2> QED
      BY <1>1, <2>1 DEF Framed
  <1>3. ASSUME NEW bytes \in Seq(Byte), Framed(bytes, << >>) PROVE bytes = << >>
    <2>1. Len(bytes) = 0
      BY <1>1, <1>3 DEF Framed
    <2> QED
      BY <2>1, EmptySeq
  <1> QED
    BY <1>2, <1>3

\* One more frame behind the last one.
LEMMA FramedAppend ==
  ASSUME NEW bytes \in Seq(Byte), NEW ms \in Seq(Messages), Framed(bytes, ms),
         NEW m \in Messages
  PROVE  Framed(bytes \o Frame(m), Append(ms, m))
  <1> DEFINE f == Frame(m)
             new == bytes \o f
             n == Len(ms)
             l == Len(bytes)
             more == Append(ms, m)
  <1>1. f \in Seq(Byte) /\ Len(f) \in Nat /\ n \in Nat /\ l \in Nat
    BY FrameIsSeq, LenProperties
  <1>2. /\ new \in Seq(Byte) /\ Len(new) = l + Len(f)
        /\ \A i \in 1 .. l + Len(f) : new[i] = IF i <= l THEN bytes[i] ELSE f[i - l]
        /\ SubSeq(new, l + 1, Len(new)) = f
    BY <1>1, ConcatProperties, Parted
  <1>3. /\ Len(more) = n + 1 /\ more[n + 1] = m /\ \A i \in 1 .. n : more[i] = ms[i]
    BY <1>1, AppendProperties
  <1>4. PICK at \in [0 .. n -> 0 .. l] :
          /\ at[0] = 0 /\ at[n] = l
          /\ \A i, j \in 0 .. n : i <= j => at[i] <= at[j]
          /\ \A i \in 1 .. n : SubSeq(bytes, at[i - 1] + 1, at[i]) = Frame(ms[i])
    BY DEF Framed
  <1> DEFINE to == [i \in 0 .. n + 1 |-> IF i <= n THEN at[i] ELSE l + Len(f)]
  <1> HIDE DEF f, n, l, new, more
  <1>5. /\ to \in [0 .. n + 1 -> 0 .. l + Len(f)]
        /\ \A i \in 0 .. n : to[i] = at[i] /\ at[i] \in 0 .. l
        /\ to[n + 1] = l + Len(f)
    <2>1. ASSUME NEW i \in 0 .. n
          PROVE  at[i] \in 0 .. l /\ at[i] \in 0 .. l + Len(f) /\ i \in 0 .. n + 1
      BY <1>1, <1>4
    <2>2. ASSUME NEW i \in 0 .. n + 1 PROVE to[i] \in 0 .. l + Len(f)
      <3>1. CASE i <= n
        <4>1. i \in 0 .. n
          BY <1>1, <3>1
        <4> QED
          BY <2>1, <3>1, <4>1
      <3>2. CASE ~ (i <= n)
        BY <1>1, <3>2
      <3> QED
        BY <3>1, <3>2
    <2>3. \A i \in 0 .. n : to[i] = at[i]
      BY <1>1
    <2>4. to[n + 1] = l + Len(f)
      BY <1>1
    <2> QED
      BY <2>1, <2>2, <2>3, <2>4
  <1> HIDE DEF to
  <1>6. \A i, j \in 0 .. n + 1 : i <= j => to[i] <= to[j]
    <2> SUFFICES ASSUME NEW i \in 0 .. n + 1, NEW j \in 0 .. n + 1, i <= j
                 PROVE  to[i] <= to[j]
      OBVIOUS
    <2>1. CASE j = n + 1
      BY <1>1, <1>5, <2>1
    <2>2. CASE j # n + 1
      <3>1. i \in 0 .. n /\ j \in 0 .. n
        BY <1>1, <2>2
      <3> QED
        BY <1>4, <1>5, <3>1
    <2> QED
      BY <2>1, <2>2
  <1>7. ASSUME NEW i \in 1 .. n + 1 PROVE SubSeq(new, to[i - 1] + 1, to[i]) = Frame(more[i])
    <2>1. CASE i = n + 1
      <3>1. i - 1 = n /\ n \in 0 .. n
        BY <1>1, <2>1
      <3>2. to[i - 1] = l /\ to[i] = Len(new) /\ more[i] = m
        BY <1>2, <1>3, <1>4, <1>5, <2>1, <3>1
      <3> QED
        BY <1>2, <3>2 DEF f
    <2>2. CASE i # n + 1
      <3> DEFINE p == at[i - 1]
                 q == at[i]
                 s == SubSeq(bytes, p + 1, q)
                 t == SubSeq(new, p + 1, q)
      <3>1. i \in 1 .. n /\ i \in 0 .. n /\ i - 1 \in 0 .. n /\ i - 1 <= i
        BY <1>1, <2>2
      <3>2. /\ to[i - 1] = p /\ to[i] = q /\ p \in 0 .. l /\ q \in 0 .. l /\ p <= q
            /\ more[i] = ms[i]
        BY <1>3, <1>4, <1>5, <3>1
      <3>3. s = Frame(ms[i])
        BY <1>4, <3>1
      <3> HIDE DEF p, q
      <3>4. /\ p \in 0 .. Len(bytes) /\ q \in p .. Len(bytes)
            /\ p \in 0 .. Len(new) /\ q \in p .. Len(new)
        BY <1>1, <1>2, <3>2 DEF l
      <3>5. s \in Seq(Byte) /\ Len(s) = q - p /\ \A k \in 1 .. q - p : s[k] = bytes[p + k]
        BY <3>4, Slice
      <3>6. t \in Seq(Byte) /\ Len(t) = q - p /\ \A k \in 1 .. q - p : t[k] = new[p + k]
        BY <1>2, <3>4, Slice
      <3>7. ASSUME NEW k \in 1 .. q - p PROVE new[p + k] = bytes[p + k]
        <4>1. p + k \in 1 .. l + Len(f) /\ p + k <= l
          BY <1>1, <3>2
        <4> QED
          BY <1>2, <4>1
      <3> HIDE DEF s, t
      <3>8. s = t
        BY <3>5, <3>6, <3>7, SeqEqual
      <3> QED
        BY <3>2, <3>3, <3>8 DEF t
    <2> QED
      BY <2>1, <2>2
  <1>8. DOMAIN to = 0 .. n + 1 /\ to[0] = 0 /\ to[n + 1] = Len(new)
    <2>1. 0 \in 0 .. n
      BY <1>1
    <2> QED
      BY <1>2, <1>4, <1>5, <2>1
  <1>9. Framed(new, more)
    BY <1>2, <1>3, <1>5, <1>6, <1>7, <1>8 DEF Framed
  <1> QED
    BY <1>9 DEF new, more, f

LEMMA NonemptyIsHeadTail ==
  ASSUME NEW S, NEW s \in Seq(S), s # << >>
  PROVE  /\ Head(s) \in S /\ Head(s) = s[1] /\ Tail(s) \in Seq(S)
         /\ Len(Tail(s)) = Len(s) - 1
         /\ \A i \in 1 .. Len(s) - 1 : Tail(s)[i] = s[i + 1]
         /\ s = <<Head(s)>> \o Tail(s)
  <1>1. Len(s) \in Nat \ {0}
    BY LenProperties, EmptySeq
  <1>2. /\ Head(s) \in S /\ Head(s) = s[1] /\ Tail(s) \in Seq(S)
        /\ Len(Tail(s)) = Len(s) - 1
        /\ \A i \in 1 .. Len(s) - 1 : Tail(s)[i] = s[i + 1]
    BY <1>1, HeadTailProperties
  <1>3. 1 \in 1 .. Len(s) /\ Len(s) \in 1 .. Len(s) /\ 1 + 1 = 2
    BY <1>1
  <1>4. SubSeq(s, 1, Len(s)) = <<s[1]>> \o SubSeq(s, 1 + 1, Len(s))
    BY <1>3, SubSeqRecursiveFirst
  <1> QED
    BY <1>2, <1>3, <1>4, SubSeqFull, TailIsSubSeq

\* The first frame and the others.
LEMMA FramedHead ==
  ASSUME NEW bytes \in Seq(Byte), NEW ms \in Seq(Messages), ms # << >>, Framed(bytes, ms)
  PROVE  /\ Head(ms) \in Messages
         /\ \E rest \in Seq(Byte) : /\ bytes = Frame(Head(ms)) \o rest
                                    /\ Framed(rest, Tail(ms))
  <1> DEFINE n == Len(ms)
             l == Len(bytes)
             others == Tail(ms)
  <1>1. n \in Nat \ {0} /\ l \in Nat
    BY LenProperties, EmptySeq
  <1>2. /\ Head(ms) \in Messages /\ Head(ms) = ms[1]
        /\ others \in Seq(Messages) /\ Len(others) = n - 1
        /\ \A i \in 1 .. n - 1 : others[i] = ms[i + 1]
    BY NonemptyIsHeadTail
  <1>4. PICK at \in [0 .. n -> 0 .. l] :
          /\ at[0] = 0 /\ at[n] = l
          /\ \A i, j \in 0 .. n : i <= j => at[i] <= at[j]
          /\ \A i \in 1 .. n : SubSeq(bytes, at[i - 1] + 1, at[i]) = Frame(ms[i])
    BY DEF Framed
  <1> DEFINE p == at[1]
             rest == SubSeq(bytes, p + 1, l)
             to == [i \in 0 .. n - 1 |-> at[i + 1] - p]
  <1> HIDE DEF n, l, others
  <1>5. p \in 0 .. l /\ \A i \in 0 .. n : at[i] \in 0 .. l
    <2>1. 1 \in 0 .. n
      BY <1>1
    <2>2. \A i \in 0 .. n : at[i] \in 0 .. l
      BY <1>4
    <2> QED
      BY <2>1, <2>2
  <1>6. SubSeq(bytes, 1, p) = Frame(Head(ms))
    <2>1. 1 \in 1 .. n /\ 1 - 1 = 0 /\ 0 + 1 = 1
      BY <1>1
    <2>2. SubSeq(bytes, at[1 - 1] + 1, at[1]) = Frame(ms[1])
      BY <1>4, <2>1
    <2> QED
      BY <1>2, <1>4, <2>1, <2>2
  <1> HIDE DEF p
  <1>7. /\ rest \in Seq(Byte) /\ Len(rest) = l - p
        /\ \A i \in 1 .. l - p : rest[i] = bytes[p + i]
    <2>1. p \in 0 .. Len(bytes) /\ l \in p .. Len(bytes)
      BY <1>1, <1>5 DEF l
    <2> QED
      BY <2>1, Slice
  <1> HIDE DEF rest
  <1>8. bytes = Frame(Head(ms)) \o rest
    <2>1. 1 \in 1 .. Len(bytes) + 1 /\ p \in 1 - 1 .. Len(bytes) /\ l \in p .. Len(bytes)
      BY <1>1, <1>5 DEF l
    <2>2. SubSeq(bytes, 1, p) \o SubSeq(bytes, p + 1, l) = SubSeq(bytes, 1, l)
      BY <2>1, ConcatAdjacentSubSeq
    <2> QED
      BY <1>6, <2>2, SubSeqFull DEF l, rest
  <1>9. ASSUME NEW i \in 0 .. n - 1
        PROVE  /\ i + 1 \in 0 .. n /\ p <= at[i + 1]
               /\ to[i] = at[i + 1] - p /\ to[i] \in 0 .. l - p
    <2>1. i + 1 \in 0 .. n /\ 1 \in 0 .. n /\ 1 <= i + 1
      BY <1>1
    <2>2. p <= at[i + 1] /\ at[i + 1] \in 0 .. l
      BY <1>4, <1>5, <2>1 DEF p
    <2> QED
      BY <1>1, <1>5, <2>1, <2>2
  <1>10. to \in [0 .. n - 1 -> 0 .. l - p] /\ DOMAIN to = 0 .. n - 1
    BY <1>9
  <1> HIDE DEF to
  <1>11. to[0] = 0 /\ to[n - 1] = l - p
    <2>1. 0 \in 0 .. n - 1 /\ n - 1 \in 0 .. n - 1 /\ 0 + 1 = 1 /\ (n - 1) + 1 = n
      BY <1>1
    <2>2. to[0] = at[0 + 1] - p /\ to[n - 1] = at[(n - 1) + 1] - p
      BY <1>9, <2>1
    <2>3. at[0 + 1] = p
      BY <2>1 DEF p
    <2> QED
      BY <1>4, <1>5, <2>1, <2>2, <2>3
  <1>12. \A i, j \in 0 .. n - 1 : i <= j => to[i] <= to[j]
    <2> SUFFICES ASSUME NEW i \in 0 .. n - 1, NEW j \in 0 .. n - 1, i <= j
                 PROVE  to[i] <= to[j]
      OBVIOUS
    <2>1. /\ i + 1 \in 0 .. n /\ to[i] = at[i + 1] - p
          /\ j + 1 \in 0 .. n /\ to[j] = at[j + 1] - p
      BY <1>9
    <2>2. at[i + 1] <= at[j + 1] /\ at[i + 1] \in 0 .. l /\ at[j + 1] \in 0 .. l
      BY <1>1, <1>4, <1>5, <2>1
    <2> QED
      BY <1>1, <1>5, <2>1, <2>2
  <1>13. ASSUME NEW i \in 1 .. n - 1
         PROVE  SubSeq(rest, to[i - 1] + 1, to[i]) = Frame(others[i])
    <2> DEFINE a == at[i]
               b == at[i + 1]
               s == SubSeq(bytes, a + 1, b)
               t == SubSeq(rest, (a - p) + 1, b - p)
    <2>1. /\ i - 1 \in 0 .. n - 1 /\ i \in 0 .. n - 1 /\ (i - 1) + 1 = i
          /\ i + 1 \in 1 .. n /\ (i + 1) - 1 = i /\ i \in 0 .. n /\ i + 1 \in 0 .. n
      BY <1>1
    <2>2. /\ to[i - 1] = at[(i - 1) + 1] - p /\ p <= at[(i - 1) + 1]
          /\ to[i] = b - p /\ p <= b
      BY <1>9, <2>1
    <2>3. /\ to[i - 1] = a - p /\ p <= a /\ a \in 0 .. l /\ b \in 0 .. l /\ a <= b
      BY <1>4, <1>5, <2>1, <2>2
    <2>4. s = Frame(ms[i + 1])
      <3>1. SubSeq(bytes, at[(i + 1) - 1] + 1, at[i + 1]) = Frame(ms[i + 1])
        BY <1>4, <2>1
      <3> QED
        BY <2>1, <3>1
    <2> HIDE DEF a, b
    <2>5. a \in 0 .. Len(bytes) /\ b \in a .. Len(bytes)
      BY <1>1, <2>3 DEF l
    <2>6. a - p \in 0 .. Len(rest) /\ b - p \in (a - p) .. Len(rest)
      BY <1>1, <1>5, <1>7, <2>2, <2>3
    <2>7. s \in Seq(Byte) /\ Len(s) = b - a /\ \A k \in 1 .. b - a : s[k] = bytes[a + k]
      BY <2>5, Slice
    <2>8. /\ t \in Seq(Byte) /\ Len(t) = (b - p) - (a - p)
          /\ \A k \in 1 .. (b - p) - (a - p) : t[k] = rest[(a - p) + k]
      <3> DEFINE from == a - p
                 upTo == b - p
      <3>1. rest \in Seq(Byte) /\ from \in 0 .. Len(rest) /\ upTo \in from .. Len(rest)
        BY <1>7, <2>6
      <3> HIDE DEF from, upTo
      <3>2. /\ SubSeq(rest, from + 1, upTo) \in Seq(Byte)
            /\ Len(SubSeq(rest, from + 1, upTo)) = upTo - from
            /\ \A k \in 1 .. upTo - from : SubSeq(rest, from + 1, upTo)[k] = rest[from + k]
        BY <3>1, Slice
      <3> QED
        BY <3>2 DEF from, upTo
    <2>9. (b - p) - (a - p) = b - a
      BY <1>5, <2>3
    <2>10. ASSUME NEW k \in 1 .. b - a PROVE rest[(a - p) + k] = bytes[a + k]
      <3>1. (a - p) + k \in 1 .. l - p /\ p + ((a - p) + k) = a + k
        BY <1>1, <1>5, <2>2, <2>3
      <3> QED
        BY <1>7, <3>1
    <2> HIDE DEF s, t
    <2>11. s = t
      BY <2>7, <2>8, <2>9, <2>10, SeqEqual
    <2>12. others[i] = ms[i + 1]
      BY <1>2
    <2> QED
      BY <2>2, <2>3, <2>4, <2>11, <2>12 DEF t
  <1>14. Framed(rest, others)
    BY <1>2, <1>7, <1>10, <1>11, <1>12, <1>13 DEF Framed
  <1> QED
    BY <1>2, <1>7, <1>8, <1>14 DEF others

\* A length is decoded from its own bytes.
LEMMA DecodeEncoded ==
  /\ \A n \in DOMAIN Encoded : Decode(Encoded[n]) = n
  /\ \A bytes \in Seq(Byte) : Decode(bytes) \in Nat
  <1>1. ASSUME NEW bytes \in Seq(Byte)
        PROVE  Decode(bytes) \in DOMAIN Encoded
               /\ (Len(bytes) = Prefix => Encoded[Decode(bytes)] = bytes)
    <2> DEFINE filled == [i \in 1 .. Prefix |-> IF i <= Len(bytes) THEN bytes[i] ELSE 0]
    <2>1. Prefix \in Nat \ {0} /\ 0 \in Byte /\ Len(bytes) \in Nat
      BY MessageAssumption, StreamBufferAssumption, LenProperties
    <2>2. filled \in [1 .. Prefix -> Byte]
      <3>1. ASSUME NEW i \in 1 .. Prefix, i <= Len(bytes) PROVE bytes[i] \in Byte
        <4>1. i \in 1 .. Len(bytes)
          BY <2>1, <3>1
        <4> QED
          BY <4>1, ElementOfSeq
      <3> QED
        BY <2>1, <3>1
    <2>3. ASSUME Len(bytes) = Prefix PROVE filled = bytes
      <3>1. filled \in Seq(Byte) /\ Len(filled) = Prefix
        BY <2>1, <2>2
      <3>2. \A i \in 1 .. Prefix : filled[i] = bytes[i]
        BY <2>1, <2>3
      <3> HIDE DEF filled
      <3> QED
        BY <2>3, <3>1, <3>2, SeqEqual
    <2> HIDE DEF filled
    <2>4. \E n \in DOMAIN Encoded : Encoded[n] = filled
      BY <2>2, MessageAssumption
    <2>5. Decode(bytes) = CHOOSE n \in DOMAIN Encoded : Encoded[n] = filled
      BY DEF Decode, filled
    <2>6. Decode(bytes) \in DOMAIN Encoded /\ Encoded[Decode(bytes)] = filled
      BY <2>4, <2>5
    <2> QED
      BY <2>3, <2>6
  <1>2. ASSUME NEW n \in DOMAIN Encoded PROVE Decode(Encoded[n]) = n
    <2>1. Encoded[n] \in [1 .. Prefix -> Byte] /\ Prefix \in Nat
      BY MessageAssumption
    <2>2. Encoded[n] \in Seq(Byte) /\ Len(Encoded[n]) = Prefix
      BY <2>1
    <2>3. Decode(Encoded[n]) \in DOMAIN Encoded /\ Encoded[Decode(Encoded[n])] = Encoded[n]
      BY <1>1, <2>2
    <2> QED
      BY <2>3, MessageAssumption
  <1>3. DOMAIN Encoded \subseteq Nat
    BY MessageAssumption
  <1> QED
    BY <1>1, <1>2, <1>3

\* Everything fits: the bytes go behind those in the ring.
LEMMA RingSends ==
  ASSUME StreamTypeOK, NEW data \in Seq(Byte), Len(data) <= Capacity - count, Send(data)
  PROVE  /\ StreamTypeOK' /\ count' = count + Len(data)
         /\ Read(count)' = Read(count) \o data
  <1>1. StreamTypeOK' /\ Abstract!Put(data)
    BY SendTyped, SendPuts
  <1>2. Len(data) \in Nat /\ Capacity \in Nat /\ count \in 0 .. Capacity /\ Len(Read(count)) = count
    BY LenProperties, StreamIsSeq, StreamBufferAssumption DEF StreamTypeOK
  <1>3. Abstract!Least(Len(data), Capacity - Len(Read(count))) = Len(data)
    BY <1>2 DEF Abstract!Least
  <1>4. Least(Len(data), Capacity - count) = Len(data)
    BY <1>2 DEF Least
  <1>5. SubSeq(data, 1, Len(data)) = data
    BY SubSeqFull
  <1>6. count' = count + Len(data)
    BY <1>4 DEF Send
  <1>7. Read(count)' = Read(count) \o data
    BY <1>1, <1>3, <1>5 DEF Abstract!Put
  <1> QED
    BY <1>1, <1>6, <1>7

\* The bytes that are asked for are there: they come out, the others stay.
LEMMA RingReceives ==
  ASSUME StreamTypeOK, NEW s \in Seq(Byte), NEW t \in Seq(Byte), Read(count) = s \o t,
         Receive(Len(s))
  PROVE  StreamTypeOK' /\ got' = s /\ Read(count)' = t
  <1>1. Len(s) \in Nat /\ Len(t) \in Nat
    BY LenProperties
  <1>2. StreamTypeOK' /\ Abstract!Take(Len(s))
    BY <1>1, ReceiveTyped, ReceiveTakes
  <1>3. /\ Len(Read(count)) = Len(s) + Len(t)
        /\ SubSeq(s \o t, 1, Len(s)) = s
        /\ SubSeq(s \o t, Len(s) + 1, Len(s \o t)) = t
    BY Parted
  <1>4. Abstract!Least(Len(s), Len(s) + Len(t)) = Len(s)
    BY <1>1 DEF Abstract!Least
  <1>5. /\ got' = SubSeq(s \o t, 1, Len(s))
        /\ Read(count)' = SubSeq(s \o t, Len(s) + 1, Len(s \o t))
    <2>1. Abstract!Least(Len(s), Len(Read(count))) = Len(s)
      BY <1>3, <1>4
    <2> QED
      BY <1>2, <2>1 DEF Abstract!Take
  <1> QED
    BY <1>2, <1>3, <1>5

-----------------------------------------------------------------------------
(***************************************************************************)
(* The invariant of the message buffer: how the ring holds the messages    *)
(* ms, at each step of the two calls.                                      *)
(***************************************************************************)
BetweenCalls(ms) == out = << >> /\ in = << >> /\ Framed(Read(count), ms)

LengthIsDue(ms) ==
  /\ out = <<"length", "data">> /\ in = << >> /\ FitsIn(message)
  /\ \E s \in Seq(Messages) : ms = Append(s, message) /\ Framed(Read(count), s)

DataIsDue(ms) ==
  /\ out = <<"data">> /\ in = << >> /\ DataFitsIn(message)
  /\ \E s \in Seq(Messages), bytes \in Seq(Byte) :
       /\ ms = Append(s, message) /\ Framed(bytes, s)
       /\ Read(count) = bytes \o Encoded[Len(message)]

LengthComesFirst(ms) ==
  /\ out = << >> /\ \E room \in Nat : in = <<"length", room>>
  /\ ms # << >> /\ Framed(Read(count), ms)

DataComesFirst(ms) ==
  /\ out = << >>
  /\ ms # << >> /\ in = <<"data", Len(Head(ms))>>
  /\ \E bytes \in Seq(Byte) : /\ Read(count) = Head(ms) \o bytes
                              /\ Framed(bytes, Tail(ms))

Holds(ms) == \/ BetweenCalls(ms)
             \/ LengthIsDue(ms) \/ DataIsDue(ms)
             \/ LengthComesFirst(ms) \/ DataComesFirst(ms)

Calls == /\ out \in {<< >>, <<"length", "data">>, <<"data">>}
         /\ \/ in = << >>
            \/ \E n \in Nat : in = <<"length", n>> \/ in = <<"data", n>>
         /\ (out # << >> => message \in Messages)
         /\ accepted \in Seq(Messages) /\ delivered \in Seq(Seq(Byte))

InStep == (~ Overlap /\ ~ torn /\ use = "messages") =>
            \E ms \in Seq(Messages) : accepted = delivered \o ms /\ Holds(ms)

MessageInv == StreamTypeOK /\ Calls /\ InStep

LEMMA Steps ==
  /\ <<"length", "data">> # << >> /\ <<"data">> # << >> /\ <<"length", "data">> # <<"data">>
  /\ \A n : /\ <<"length", n>> # << >> /\ <<"data", n>> # << >>
            /\ Head(<<"length", n>>) = "length" /\ <<"length", n>>[2] = n
            /\ Head(<<"data", n>>) = "data" /\ <<"data", n>>[2] = n
  OBVIOUS

\* The calls under way decide how the ring holds the messages.
LEMMA ByStep ==
  ASSUME NEW ms, Holds(ms)
  PROVE  /\ out = << >> /\ in = << >> => BetweenCalls(ms)
         /\ out = <<"length", "data">> => LengthIsDue(ms)
         /\ out = <<"data">> => DataIsDue(ms)
         /\ in # << >> /\ Head(in) = "length" => LengthComesFirst(ms)
         /\ in # << >> /\ Head(in) = "data" => DataComesFirst(ms)
  BY Steps DEF Holds, BetweenCalls, LengthIsDue, DataIsDue, LengthComesFirst, DataComesFirst

LEMMA MessageInit == Init => MessageInv
  <1> SUFFICES ASSUME Init PROVE MessageInv
    OBVIOUS
  <1>1. StreamTypeOK /\ count = 0
    BY TypeInit DEF Init, StreamInit
  <1>2. Read(count) = << >>
    BY <1>1, EmptyRing
  <1>3. Calls
    BY DEF Init, Calls
  <1>4. Holds(<< >>)
    BY <1>2, NothingFramed DEF Init, Holds, BetweenCalls
  <1>5. << >> \in Seq(Messages) /\ accepted = delivered \o << >>
    BY DEF Init
  <1> QED
    BY <1>1, <1>3, <1>4, <1>5 DEF MessageInv, InStep

\* Three runs of messages put together: the grouping does not matter.
LEMMA Regrouped ==
  \A s, t, u \in Seq(Seq(Byte)) : (s \o t) \o u = s \o (t \o u)
  <1> DEFINE Associative(S) == \A s, t, u \in Seq(S) : (s \o t) \o u = s \o (t \o u)
  <1>1. ASSUME NEW S PROVE Associative(S)
    BY ConcatAssociative
  <1> HIDE DEF Associative
  <1>2. Associative(Seq(Byte))
    BY <1>1
  <1> QED
    BY <1>2 DEF Associative

\* xMessageBufferSend: the message is accepted, its length and its data go in.
LEMMA BeginSendKeeps ==
  ASSUME MessageInv, NEW m \in Messages, BeginSend(m)
  PROVE  MessageInv'
  <1>1. StreamTypeOK'
    BY DEF MessageInv, BeginSend, streamVars, ring, StreamTypeOK
  <1>2. accepted \in Seq(Messages) /\ delivered \in Seq(Seq(Byte)) /\ in' = in
    BY DEF MessageInv, Calls, BeginSend
  <1>3. accepted' \in Seq(Messages)
    BY <1>2, AppendProperties DEF BeginSend
  <1>4. Calls'
    BY <1>3, Steps DEF MessageInv, Calls, BeginSend
  <1>5. ASSUME ~ Overlap, ~ torn', use' = "messages"
        PROVE  \E ms \in Seq(Messages) : accepted' = delivered' \o ms /\ Holds(ms)'
    <2>1. PICK ms \in Seq(Messages) : accepted = delivered \o ms /\ Holds(ms)
      BY <1>5 DEF MessageInv, InStep, BeginSend
    <2>2. out = << >> /\ in = << >>
      BY <1>5 DEF BeginSend
    <2>3. Framed(Read(count), ms)
      BY <2>1, <2>2, ByStep DEF BetweenCalls
    <2>4. Append(ms, m) \in Seq(Messages)
      BY AppendProperties
    <2>5. accepted' = delivered' \o Append(ms, m)
      <3>1. /\ delivered \in Seq(Seq(Byte)) /\ ms \in Seq(Seq(Byte)) /\ <<m>> \in Seq(Seq(Byte))
            /\ Append(ms, m) = ms \o <<m>> /\ Append(accepted, m) = accepted \o <<m>>
        <4>1. Messages \subseteq Seq(Byte)
          BY FrameIsSeq
        <4> QED
          BY <1>2, <4>1, SeqMonotonic, AppendIsConcat
      <3> DEFINE one == <<m>>
      <3>2. one \in Seq(Seq(Byte))
        BY <3>1
      <3> HIDE DEF one
      <3>3. (delivered \o ms) \o one = delivered \o (ms \o one)
        BY <3>1, <3>2, Regrouped
      <3> QED
        BY <2>1, <3>1, <3>3 DEF BeginSend, one
    <2>6. Holds(Append(ms, m))'
      <3>1. Read(count)' = Read(count)
        BY DEF BeginSend, streamVars, ring, Read
      <3>2. FitsIn(message)'
        BY DEF BeginSend, FitsIn, streamVars, ring
      <3>3. LengthIsDue(Append(ms, m))'
        BY <2>2, <2>3, <3>1, <3>2 DEF LengthIsDue, BeginSend
      <3> QED
        BY <3>3 DEF Holds
    <2> QED
      BY <2>4, <2>5, <2>6
  <1> QED
    BY <1>1, <1>4, <1>5 DEF MessageInv, InStep

LEMMA SendLengthKeeps ==
  ASSUME MessageInv, SendLength
  PROVE  MessageInv'
  <1> DEFINE data == Encoded[Len(message)]
  <1>1. out = <<"length", "data">> /\ Send(data) /\ out' = <<"data">>
    BY DEF SendLength
  <1>2. message \in Messages /\ StreamTypeOK
    BY <1>1, Steps DEF MessageInv, Calls
  <1>3. data \in Seq(Byte) /\ Len(data) = Prefix /\ Prefix \in Nat /\ Len(message) \in Nat
    BY <1>2, FrameIsSeq, MessageAssumption
  <1>4. StreamTypeOK'
    BY <1>1, <1>2, <1>3, SendTyped
  <1>5. Calls'
    BY <1>2 DEF MessageInv, Calls, SendLength
  <1>6. ASSUME ~ Overlap, ~ torn', use' = "messages"
        PROVE  \E ms \in Seq(Messages) : accepted' = delivered' \o ms /\ Holds(ms)'
    <2>1. PICK ms \in Seq(Messages) : accepted = delivered \o ms /\ Holds(ms)
      BY <1>6 DEF MessageInv, InStep, SendLength
    <2>2. LengthIsDue(ms)
      BY <1>1, <2>1, ByStep
    <2>3. PICK s \in Seq(Messages) : ms = Append(s, message) /\ Framed(Read(count), s)
      BY <2>2 DEF LengthIsDue
    <2>4. Capacity - count >= Len(message) + Prefix /\ count \in Nat /\ Capacity \in Nat
      BY <1>2, <2>2, StreamBufferAssumption DEF LengthIsDue, FitsIn, StreamTypeOK
    <2>5. Len(data) <= Capacity - count
      BY <1>3, <2>4
    <2> HIDE DEF data
    <2>6. count' = count + Len(data) /\ Read(count)' = Read(count) \o data
      BY <1>1, <1>2, <1>3, <2>5, RingSends
    <2>7. DataFitsIn(message)'
      BY <1>3, <2>4, <2>6 DEF DataFitsIn, SendLength
    <2>8. Read(count) \in Seq(Byte) /\ message' = message /\ in' = << >>
      BY <1>2, <2>2, StreamIsSeq DEF LengthIsDue, SendLength
    <2>9. Read(count)' = Read(count) \o Encoded[Len(message)]
      BY <2>6 DEF data
    <2>10. DataIsDue(ms)'
      BY <1>1, <2>3, <2>7, <2>8, <2>9 DEF DataIsDue
    <2> QED
      BY <2>1, <2>10 DEF Holds, SendLength
  <1> QED
    BY <1>4, <1>5, <1>6 DEF MessageInv, InStep

LEMMA SendDataKeeps ==
  ASSUME MessageInv, SendData
  PROVE  MessageInv'
  <1>1. out = <<"data">> /\ Send(message) /\ out' = << >>
    BY DEF SendData
  <1>2. message \in Messages /\ StreamTypeOK
    BY <1>1, Steps DEF MessageInv, Calls
  <1>3. message \in Seq(Byte) /\ Len(message) \in Nat
    BY <1>2, FrameIsSeq
  <1>4. StreamTypeOK'
    BY <1>1, <1>2, <1>3, SendTyped
  <1>5. Calls'
    BY DEF MessageInv, Calls, SendData
  <1>6. ASSUME ~ Overlap, ~ torn', use' = "messages"
        PROVE  \E ms \in Seq(Messages) : accepted' = delivered' \o ms /\ Holds(ms)'
    <2>1. PICK ms \in Seq(Messages) : accepted = delivered \o ms /\ Holds(ms)
      BY <1>6 DEF MessageInv, InStep, SendData
    <2>2. DataIsDue(ms)
      BY <1>1, <2>1, ByStep
    <2>3. PICK s \in Seq(Messages), bytes \in Seq(Byte) :
            /\ ms = Append(s, message) /\ Framed(bytes, s)
            /\ Read(count) = bytes \o Encoded[Len(message)]
      BY <2>2 DEF DataIsDue
    <2>4. Len(message) <= Capacity - count
      BY <1>2, <1>3, <2>2, StreamBufferAssumption DEF DataIsDue, DataFitsIn, StreamTypeOK
    <2>5. Read(count)' = Read(count) \o message
      BY <1>1, <1>2, <1>3, <2>4, RingSends
    <2>6. Encoded[Len(message)] \in Seq(Byte)
      BY <1>2, FrameIsSeq
    <2>7. (bytes \o Encoded[Len(message)]) \o message = bytes \o Frame(message)
      <3> DEFINE length == Encoded[Len(message)]
      <3>1. length \in Seq(Byte) /\ Frame(message) = length \o message
        BY <2>6 DEF Frame
      <3> HIDE DEF length
      <3>2. (bytes \o length) \o message = bytes \o (length \o message)
        BY <1>3, <3>1, ConcatAssociative
      <3> QED
        BY <3>1, <3>2 DEF length
    <2>8. Framed(bytes \o Frame(message), ms)
      BY <1>2, <2>3, FramedAppend
    <2>9. Read(count)' = bytes \o Frame(message)
      BY <2>3, <2>5, <2>7
    <2>10. BetweenCalls(ms)'
      BY <1>1, <2>2, <2>8, <2>9 DEF BetweenCalls, DataIsDue, SendData
    <2> QED
      BY <2>1, <2>10 DEF Holds, SendData
  <1> QED
    BY <1>4, <1>5, <1>6 DEF MessageInv, InStep

\* xMessageBufferReceive: the length comes out, and if there is room, the data.
LEMMA BeginReceiveKeeps ==
  ASSUME MessageInv, NEW room \in Rooms, BeginReceive(room)
  PROVE  MessageInv'
  <1>1. StreamTypeOK /\ StreamTypeOK'
    BY DEF MessageInv, BeginReceive, streamVars, ring, StreamTypeOK
  <1>2. room \in Nat
    BY MessageAssumption
  <1>3. Calls'
    BY <1>2 DEF MessageInv, Calls, BeginReceive
  <1>4. ASSUME ~ Overlap, ~ torn', use' = "messages"
        PROVE  \E ms \in Seq(Messages) : accepted' = delivered' \o ms /\ Holds(ms)'
    <2>1. PICK ms \in Seq(Messages) : accepted = delivered \o ms /\ Holds(ms)
      BY <1>4 DEF MessageInv, InStep, BeginReceive
    <2>2. out = << >> /\ in = << >>
      BY <1>4 DEF BeginReceive
    <2>3. Framed(Read(count), ms)
      BY <2>1, <2>2, ByStep DEF BetweenCalls
    <2>4. ms # << >>
      <3>1. Read(count) \in Seq(Byte) /\ Len(Read(count)) = count
        BY <1>1, StreamIsSeq
      <3>2. count # 0
        BY MessageAssumption DEF BeginReceive
      <3> QED
        BY <2>3, <3>1, <3>2, NothingFramed
    <2>5. Read(count)' = Read(count)
      BY DEF BeginReceive, streamVars, ring, Read
    <2>6. LengthComesFirst(ms)'
      BY <1>2, <2>2, <2>3, <2>4, <2>5 DEF LengthComesFirst, BeginReceive
    <2> QED
      BY <2>1, <2>6 DEF Holds, BeginReceive
  <1> QED
    BY <1>1, <1>3, <1>4 DEF MessageInv, InStep

LEMMA ReceiveLengthKeeps ==
  ASSUME MessageInv, ReceiveLength
  PROVE  MessageInv'
  <1>1. in # << >> /\ Head(in) = "length" /\ Receive(Prefix)
    BY DEF ReceiveLength
  <1>2. StreamTypeOK /\ Prefix \in Nat
    BY MessageAssumption DEF MessageInv
  <1>3. StreamTypeOK' /\ got' \in Seq(Byte)
    BY <1>1, <1>2, ReceiveTyped DEF StreamTypeOK
  <1>4. Decode(got') \in Nat
    BY <1>3, DecodeEncoded
  <1>5. Calls'
    BY <1>4 DEF MessageInv, Calls, ReceiveLength
  <1>6. ASSUME ~ Overlap, ~ torn', use' = "messages"
        PROVE  \E ms \in Seq(Messages) : accepted' = delivered' \o ms /\ Holds(ms)'
    <2>1. ~ torn /\ in' = <<"data", Decode(got')>>
      BY <1>6 DEF ReceiveLength
    <2>2. PICK ms \in Seq(Messages) : accepted = delivered \o ms /\ Holds(ms)
      BY <1>6, <2>1 DEF MessageInv, InStep, ReceiveLength
    <2>3. LengthComesFirst(ms)
      BY <1>1, <2>2, ByStep
    <2>4. Read(count) \in Seq(Byte)
      BY <1>2, StreamIsSeq
    <2>5. /\ Head(ms) \in Messages
          /\ \E rest \in Seq(Byte) : Read(count) = Frame(Head(ms)) \o rest /\ Framed(rest, Tail(ms))
      BY <2>3, <2>4, FramedHead DEF LengthComesFirst
    <2>6. PICK rest \in Seq(Byte) : Read(count) = Frame(Head(ms)) \o rest /\ Framed(rest, Tail(ms))
      BY <2>5
    <2> DEFINE m == Head(ms)
               length == Encoded[Len(m)]
    <2>7. /\ m \in Seq(Byte) /\ length \in Seq(Byte) /\ Len(length) = Prefix
          /\ Len(m) \in DOMAIN Encoded
      BY <2>5, FrameIsSeq
    <2>8. Read(count) = (length \o m) \o rest /\ Framed(rest, Tail(ms))
      BY <2>6 DEF Frame
    <2> HIDE DEF m, length
    <2>9. m \o rest \in Seq(Byte) /\ Read(count) = length \o (m \o rest)
      <3>1. m \o rest \in Seq(Byte)
        BY <2>7, ConcatProperties
      <3>2. (length \o m) \o rest = length \o (m \o rest)
        BY <2>7, ConcatAssociative
      <3> QED
        BY <2>8, <3>1, <3>2
    <2>10. got' = length /\ Read(count)' = m \o rest
      BY <1>1, <1>2, <2>7, <2>9, RingReceives
    <2>11. Decode(got') = Len(m)
      BY <2>7, <2>10, DecodeEncoded DEF length
    <2>12. DataComesFirst(ms)'
      BY <2>1, <2>3, <2>6, <2>10, <2>11 DEF DataComesFirst, LengthComesFirst, ReceiveLength, m
    <2> QED
      BY <2>2, <2>12 DEF Holds, ReceiveLength
  <1> QED
    BY <1>3, <1>5, <1>6 DEF MessageInv, InStep

LEMMA ReceiveDataKeeps ==
  ASSUME MessageInv, ReceiveData
  PROVE  MessageInv'
  <1>1. in # << >> /\ Head(in) = "data" /\ Receive(in[2]) /\ in' = << >>
    BY DEF ReceiveData
  <1>2. StreamTypeOK /\ in[2] \in Nat
    BY <1>1, Steps DEF MessageInv, Calls
  <1>3. StreamTypeOK' /\ got' \in Seq(Byte)
    BY <1>1, <1>2, ReceiveTyped DEF StreamTypeOK
  <1>4. delivered \in Seq(Seq(Byte)) /\ accepted \in Seq(Messages)
    BY DEF MessageInv, Calls
  <1>5. delivered' \in Seq(Seq(Byte))
    BY <1>3, <1>4, AppendProperties DEF ReceiveData
  <1>6. Calls'
    BY <1>1, <1>5 DEF MessageInv, Calls, ReceiveData
  <1>7. ASSUME ~ Overlap, ~ torn', use' = "messages"
        PROVE  \E ms \in Seq(Messages) : accepted' = delivered' \o ms /\ Holds(ms)'
    <2>1. PICK ms \in Seq(Messages) : accepted = delivered \o ms /\ Holds(ms)
      BY <1>7 DEF MessageInv, InStep, ReceiveData
    <2>2. DataComesFirst(ms)
      BY <1>1, <2>1, ByStep
    <2> DEFINE m == Head(ms)
               others == Tail(ms)
    <2>3. PICK rest \in Seq(Byte) : Read(count) = m \o rest /\ Framed(rest, others)
      BY <2>2 DEF DataComesFirst
    <2>4. m \in Messages /\ others \in Seq(Messages) /\ ms = <<m>> \o others
      BY <2>2, NonemptyIsHeadTail DEF DataComesFirst
    <2>5. m \in Seq(Byte) /\ m # << >>
      BY <2>4, FrameIsSeq
    <2>6. in[2] = Len(m)
      BY <2>2, Steps DEF DataComesFirst
    <2> HIDE DEF m, others
    <2>7. got' = m /\ Read(count)' = rest
      BY <1>1, <1>2, <2>3, <2>5, <2>6, RingReceives
    <2>8. delivered' = Append(delivered, m)
      BY <2>5, <2>7 DEF ReceiveData
    <2>9. accepted' = delivered' \o others
      <3>1. /\ others \in Seq(Seq(Byte)) /\ <<m>> \in Seq(Seq(Byte))
            /\ Append(delivered, m) = delivered \o <<m>>
        <4>1. Messages \subseteq Seq(Byte)
          BY FrameIsSeq
        <4> QED
          BY <1>4, <2>4, <2>5, <4>1, SeqMonotonic, AppendIsConcat
      <3> DEFINE one == <<m>>
      <3>2. delivered \in Seq(Seq(Byte)) /\ one \in Seq(Seq(Byte)) /\ others \in Seq(Seq(Byte))
        BY <1>4, <3>1
      <3> HIDE DEF one
      <3>3. (delivered \o one) \o others = delivered \o (one \o others)
        BY <3>2, Regrouped
      <3> QED
        BY <2>1, <2>4, <2>8, <3>1, <3>3 DEF ReceiveData, one
    <2>10. BetweenCalls(others)'
      BY <1>1, <2>2, <2>3, <2>7 DEF BetweenCalls, DataComesFirst, ReceiveData
    <2> QED
      BY <2>4, <2>9, <2>10 DEF Holds
  <1> QED
    BY <1>3, <1>6, <1>7 DEF MessageInv, InStep

LEMMA MessageStep == MessageInv /\ [Next]_messageVars => MessageInv'
  <1> SUFFICES ASSUME MessageInv, [Next]_messageVars PROVE MessageInv'
    OBVIOUS
  <1>1. CASE Stream
    <2>1. StreamTypeOK'
      BY <1>1, TypeStep DEF MessageInv, Stream
    <2> QED
      BY <1>1, <2>1 DEF MessageInv, Stream, Calls, InStep
  <1>2. CASE UNCHANGED messageVars
    <2>1. Read(count)' = Read(count) /\ StreamTypeOK'
      BY <1>2 DEF messageVars, streamVars, ring, Read, MessageInv, StreamTypeOK
    <2>2. Calls'
      BY <1>2 DEF messageVars, MessageInv, Calls
    <2>3. ASSUME ~ Overlap, ~ torn', use' = "messages"
          PROVE  \E ms \in Seq(Messages) : accepted' = delivered' \o ms /\ Holds(ms)'
      <3>1. PICK ms \in Seq(Messages) : accepted = delivered \o ms /\ Holds(ms)
        BY <1>2, <2>3 DEF MessageInv, InStep, messageVars
      <3>2. Holds(ms)'
        BY <1>2, <2>1, <3>1 DEF messageVars, streamVars, ring, Holds, BetweenCalls,
               LengthIsDue, DataIsDue, LengthComesFirst, DataComesFirst, FitsIn, DataFitsIn
      <3> QED
        BY <1>2, <3>1, <3>2 DEF messageVars
    <2> QED
      BY <2>1, <2>2, <2>3 DEF MessageInv, InStep
  <1> QED
    BY <1>1, <1>2, BeginSendKeeps, SendLengthKeeps, SendDataKeeps, BeginReceiveKeeps,
       ReceiveLengthKeeps, ReceiveDataKeeps DEF Next

LEMMA MessageInvIsEnough == MessageInv => WholeFrames
  <1> SUFFICES ASSUME MessageInv, ~ Overlap, ~ torn, use = "messages", out = << >>, in = << >>
               PROVE  /\ delivered = SubSeq(accepted, 1, Len(delivered))
                      /\ Framed(Read(count), Outstanding)
    BY DEF WholeFrames
  <1>1. PICK ms \in Seq(Messages) : accepted = delivered \o ms /\ Holds(ms)
    BY DEF MessageInv, InStep
  <1>2. Framed(Read(count), ms)
    BY <1>1, ByStep DEF BetweenCalls
  <1>3. delivered \in Seq(Seq(Byte)) /\ ms \in Seq(Seq(Byte))
    <2>1. Messages \subseteq Seq(Byte)
      BY FrameIsSeq
    <2> QED
      BY <2>1, SeqMonotonic DEF MessageInv, Calls
  <1>4. /\ SubSeq(accepted, 1, Len(delivered)) = delivered
        /\ SubSeq(accepted, Len(delivered) + 1, Len(accepted)) = ms
    BY <1>1, <1>3, Parted
  <1> QED
    BY <1>2, <1>4 DEF Outstanding

(***************************************************************************)
(* For every capacity, prefix and set of messages, a message buffer whose  *)
(* calls do not overlap keeps messages whole and in order.                 *)
(***************************************************************************)
THEOREM MessagesStayWhole == Spec => []WholeFrames
  BY MessageInit, MessageStep, MessageInvIsEnough, PTL DEF Spec

(***************************************************************************)
(* Under the messages there is still the stream of bytes: each transfer of *)
(* a message or of its length is a send or a receive of the stream, whether*)
(* calls overlap or not.  Lengths are sent and asked for that depend on    *)
(* the messages, so the stream is one on which anything may be.            *)
(***************************************************************************)
THEOREM MessagesAreBytes ==
  ASSUME Data = Seq(Byte), Lengths = Nat
  PROVE  Spec => ByteFifo
  <1>1. Init => Abstract!Init
    BY TypeInit, EmptyRing DEF Init, StreamInit, Abstract!Init
  <1>2. ASSUME MessageInv, [Next]_messageVars
        PROVE  [Abstract!Next]_(Abstract!vars)
    <2>1. StreamTypeOK
      BY <1>2 DEF MessageInv
    <2>2. ASSUME NEW data \in Seq(Byte), Send(data) PROVE Abstract!Next
      BY <2>1, <2>2, SendPuts DEF Abstract!Next
    <2>3. ASSUME NEW len \in Nat, Receive(len) PROVE Abstract!Next
      BY <2>1, <2>3, ReceiveTakes DEF Abstract!Next
    <2>4. ASSUME UNCHANGED streamVars PROVE UNCHANGED Abstract!vars
      BY <2>4 DEF streamVars, ring, Abstract!vars, Read
    <2>5. CASE SendLength
      <3>1. Encoded[Len(message)] \in Seq(Byte)
        BY <1>2, <2>5, Steps, FrameIsSeq DEF MessageInv, Calls, SendLength
      <3> QED
        BY <2>2, <2>5, <3>1 DEF SendLength
    <2>6. CASE SendData
      <3>1. message \in Seq(Byte)
        BY <1>2, <2>6, Steps, FrameIsSeq DEF MessageInv, Calls, SendData
      <3> QED
        BY <2>2, <2>6, <3>1 DEF SendData
    <2>7. CASE ReceiveLength
      BY <2>3, <2>7, MessageAssumption DEF ReceiveLength
    <2>8. CASE ReceiveData
      <3>1. in[2] \in Nat
        BY <1>2, <2>8, Steps DEF MessageInv, Calls, ReceiveData
      <3> QED
        BY <2>3, <2>8, <3>1 DEF ReceiveData
    <2>9. CASE Stream
      <3>1. CASE Reset
        <4>1. Read(count)' = << >>
          BY <2>1, <2>9, <3>1, TypeStep, NextStreamIsSeq, EmptySeq DEF Reset, Stream
        <4> QED
          BY <3>1, <4>1 DEF Reset, Abstract!Clear, Abstract!Next
      <3> QED
        BY <2>2, <2>3, <2>9, <3>1 DEF Stream, StreamNext
    <2>10. CASE \E m \in Messages : BeginSend(m)
      BY <2>4, <2>10 DEF BeginSend
    <2>11. CASE \E room \in Rooms : BeginReceive(room)
      BY <2>4, <2>11 DEF BeginReceive
    <2>12. CASE UNCHANGED messageVars
      BY <2>4, <2>12 DEF messageVars
    <2> QED
      BY <1>2, <2>5, <2>6, <2>7, <2>8, <2>9, <2>10, <2>11, <2>12 DEF Next
  <1> QED
    BY <1>1, <1>2, MessageInit, MessageStep, PTL DEF Spec, ByteFifo, Abstract!Spec
=============================================================================
