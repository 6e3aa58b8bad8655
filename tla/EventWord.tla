----------------------------- MODULE EventWord -----------------------------
(***************************************************************************)
(* What an event group promises its callers, with no lock, no condition    *)
(* variable and no clock: a word of bits on which each call takes effect   *)
(* at one instant.                                                         *)
(*                                                                         *)
(* A wait is served at an instant at which the bits it asks for are there, *)
(* and takes them away then if it is to.  It is refused only at an instant *)
(* at which they are not, takes nothing, and is refused on the spot only   *)
(* if it is a poll, and never if it waits for ever.                        *)
(***************************************************************************)
CONSTANTS Threads,   \* whoever calls
          Masks,     \* the sets of bits that are raised and dropped
          Requests,  \* the waits: which bits, all or any, taken away or left,
                     \* and for how long ("zero", "finite" or "forever")
          None       \* not a wait

VARIABLES bits,  \* the word
          call,  \* the wait each thread is in, or None
          ret    \* the last return: by whom, of which wait or None, with which word

vars == <<bits, call, ret>>

Init == /\ bits = {}
        /\ call = [t \in Threads |-> None]
        /\ ret = [by |-> None, of |-> None, word |-> {}]

Holds(r) == IF r.all THEN \A b \in r.mask : b \in bits
                     ELSE \E b \in r.mask : b \in bits

Returns(t, r, word) == /\ call' = [call EXCEPT ![t] = None]
                       /\ ret' = [by |-> t, of |-> r, word |-> word]

Raise(t, mask) == /\ call[t] = None
                  /\ bits' = bits \cup mask
                  /\ Returns(t, None, bits')

Drop(t, mask) == /\ call[t] = None
                 /\ bits' = bits \ mask
                 /\ Returns(t, None, bits)

Begin(t, r) == /\ call[t] = None
               /\ ~ Holds(r) /\ r.ticks # "zero"
               /\ call' = [call EXCEPT ![t] = r]
               /\ UNCHANGED <<bits, ret>>

\* A sync raises bits before it waits for all of a mask, to take it away.
Meet(t, mask, r) == /\ call[t] = None
                    /\ r.all /\ r.clear
                    /\ bits' = bits \cup mask
                    /\ call' = [call EXCEPT ![t] = r]
                    /\ UNCHANGED ret

\* r is a new call of t, or the one t is already in.
Serve(t, r) == /\ call[t] \in {None, r}
               /\ Holds(r)
               /\ bits' = IF r.clear THEN bits \ r.mask ELSE bits
               /\ Returns(t, r, bits)

Refuse(t, r) == /\ \/ r.ticks = "zero" /\ call[t] \in {None, r}
                   \/ r.ticks = "finite" /\ call[t] = r
                /\ ~ Holds(r)
                /\ Returns(t, r, bits)
                /\ UNCHANGED bits

Next == \E t \in Threads :
          \/ \E mask \in Masks : Raise(t, mask) \/ Drop(t, mask)
          \/ \E r \in Requests : Begin(t, r) \/ Serve(t, r) \/ Refuse(t, r)
          \/ \E mask \in Masks, r \in Requests : Meet(t, mask, r)

Spec == Init /\ [][Next]_vars
=============================================================================
