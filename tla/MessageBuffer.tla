--------------------------- MODULE MessageBuffer ---------------------------
(***************************************************************************)
(* include/freertos/stream_buffer.h: a message buffer, a stream buffer in  *)
(* which every message is preceded by its length.                          *)
(*                                                                         *)
(* Neither call holds the mutex from end to end.  xMessageBufferSend takes *)
(* it three times: to look at the space, to send the length and to send    *)
(* the data; xMessageBufferReceive to look at the count, to receive the    *)
(* length and to receive the data.  One sender and one receiver thread use *)
(* the buffer, each the steps of its call in order; whether the two calls  *)
(* may overlap is up to the program.                                       *)
(*                                                                         *)
(* The program may use the same functions for a plain stream instead.      *)
(***************************************************************************)
EXTENDS StreamBuffer

CONSTANTS Prefix,       \* the size of the length; sizeof(uint32_t) in the code
          Encoded,      \* the bytes of every length, as they lie in memory
          Messages,     \* the messages that are sent
          MaxMessages,  \* bound on the number of messages sent
          Rooms,        \* the sizes of the buffers messages are received into
          Overlap,      \* the sender and the receiver call at the same time
          Plain         \* the program may be one that sends a plain stream

ASSUME MessageAssumption ==
  /\ Prefix \in Nat \ {0}
  /\ DOMAIN Encoded \subseteq Nat
  /\ \A n \in DOMAIN Encoded : Encoded[n] \in [1 .. Prefix -> Byte]
  /\ \A bytes \in [1 .. Prefix -> Byte] : \E n \in DOMAIN Encoded : Encoded[n] = bytes
  /\ \A n, m \in DOMAIN Encoded : Encoded[n] = Encoded[m] => n = m
  /\ Messages \subseteq Data /\ << >> \notin Messages
  /\ \A m \in Messages : Len(m) \in DOMAIN Encoded
  /\ MaxMessages \in Nat /\ Rooms \subseteq Nat
  /\ Overlap \in BOOLEAN /\ Plain \in BOOLEAN

VARIABLES use,        \* "stream" or "messages"
          out,        \* the steps left of the send in progress
          message,    \* the message of that send
          in,         \* the step of the receive in progress, and its bytes
          torn,       \* ghost: a length was taken without its data
          accepted,   \* ghost: the messages whose send was not refused
          delivered   \* ghost: the messages the receives returned

messageVars == <<streamVars, use, out, message, in, torn, accepted, delivered>>

Init == /\ StreamInit
        /\ use \in {"messages"} \cup (IF Plain THEN {"stream"} ELSE {})
        /\ out = << >> /\ in = << >> /\ torn = FALSE
        /\ message = CHOOSE m \in Messages : TRUE
        /\ accepted = << >> /\ delivered = << >>

\* The length that bytes stand for: those a short receive does not fill are zero.
Decode(bytes) ==
  LET filled == [i \in 1 .. Prefix |-> IF i <= Len(bytes) THEN bytes[i] ELSE 0]
  IN CHOOSE n \in DOMAIN Encoded : Encoded[n] = filled

Frame(m) == Encoded[Len(m)] \o m

-----------------------------------------------------------------------------
(***************************************************************************)
(* xMessageBufferSend                                                      *)
(***************************************************************************)
\* Mutant of FitsIn: the room for the length is forgotten.
DataFitsIn(m) == Capacity - count >= Len(m)

FitsIn(m) == Capacity - count >= Len(m) + Prefix

BeginSend(m) ==
  /\ use = "messages" /\ out = << >>
  /\ Overlap \/ in = << >>
  /\ Len(accepted) < MaxMessages
  /\ FitsIn(m)
  /\ out' = <<"length", "data">>
  /\ message' = m
  /\ accepted' = Append(accepted, m)
  /\ UNCHANGED <<streamVars, use, in, torn, delivered>>

SendLength == /\ out = <<"length", "data">>
              /\ Send(Encoded[Len(message)])
              /\ out' = <<"data">>
              /\ UNCHANGED <<use, message, in, torn, accepted, delivered>>

SendData == /\ out = <<"data">>
            /\ Send(message)
            /\ out' = << >>
            /\ UNCHANGED <<use, message, in, torn, accepted, delivered>>

(***************************************************************************)
(* xMessageBufferReceive into a buffer of some room.  A length beyond it    *)
(* makes the call return 0, with the length gone and the data still there.  *)
(***************************************************************************)
BeginReceive(room) ==
  /\ use = "messages" /\ in = << >>
  /\ Overlap \/ out = << >>
  /\ count >= Prefix
  /\ in' = <<"length", room>>
  /\ UNCHANGED <<streamVars, use, out, message, torn, accepted, delivered>>

ReceiveLength ==
  /\ in # << >> /\ Head(in) = "length"
  /\ Receive(Prefix)
  /\ IF Decode(got') > in[2] THEN in' = << >> /\ torn' = TRUE
                            ELSE in' = <<"data", Decode(got')>> /\ UNCHANGED torn
  /\ UNCHANGED <<use, out, message, accepted, delivered>>

ReceiveData ==
  /\ in # << >> /\ Head(in) = "data"
  /\ Receive(in[2])
  /\ in' = << >>
  /\ delivered' = IF got' = << >> THEN delivered ELSE Append(delivered, got')
  /\ UNCHANGED <<use, out, message, torn, accepted>>

Stream == /\ use = "stream"
          /\ StreamNext
          /\ UNCHANGED <<use, out, message, in, torn, accepted, delivered>>

Next == \/ \E m \in Messages : BeginSend(m)
        \/ SendLength \/ SendData
        \/ \E room \in Rooms : BeginReceive(room)
        \/ ReceiveLength \/ ReceiveData
        \/ Stream

Spec == Init /\ [][Next]_messageVars

-----------------------------------------------------------------------------
Outstanding == SubSeq(accepted, Len(delivered) + 1, Len(accepted))

\* The bytes are the frames of the messages: the i-th ends where at[i] says.
Framed(bytes, messages) ==
  \E at \in [0 .. Len(messages) -> 0 .. Len(bytes)] :
    /\ at[0] = 0 /\ at[Len(messages)] = Len(bytes)
    /\ \A i, j \in DOMAIN at : i <= j => at[i] <= at[j]
    /\ \A i \in 1 .. Len(messages) :
         SubSeq(bytes, at[i - 1] + 1, at[i]) = Frame(messages[i])

\* While calls do not overlap and every buffer has had room, between two calls the
\* ring holds the messages that were accepted and not yet delivered, whole and in
\* order, each with its own length in front; what was delivered is what was
\* accepted first.
WholeFrames ==
  (~ Overlap /\ ~ torn /\ use = "messages" /\ out = << >> /\ in = << >>) =>
    /\ delivered = SubSeq(accepted, 1, Len(delivered))
    /\ Framed(Read(count), Outstanding)

\* A message buffer is a "stream buffer with length prefix"
\* (stream_buffer.h:120), which keeps messages apart: one sender and one
\* receiver get every message through in order and in one piece.
MessagesIntact == delivered = SubSeq(accepted, 1, Len(delivered))
=============================================================================
