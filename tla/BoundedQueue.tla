---------------------------- MODULE BoundedQueue ----------------------------
(***************************************************************************)
(* What a FreeRTOS queue promises its callers, with no lock, no condition  *)
(* variable and no clock: a bounded sequence of items on which every call  *)
(* takes effect at one instant, between the moment it is made and the      *)
(* moment it returns.                                                      *)
(*                                                                         *)
(* A call that cannot be served may be refused on the spot, may wait, and  *)
(* may be refused later; but it is refused only at an instant at which the *)
(* queue really cannot serve it, and it is served exactly once.            *)
(***************************************************************************)
EXTENDS Naturals, Sequences

CONSTANTS Threads,    \* the threads that call the queue
          Items,      \* the values that can be sent
          MaxLength,  \* the number of items the queue holds
          Ops,        \* the operations these threads use
          NoItem      \* the argument of a call that sends nothing

Sends == {"SendToBack", "SendToFront"}
Takes == {"Receive", "Peek"}

(***************************************************************************)
(* A blocking call in progress; Idle is a thread outside of the queue.     *)
(***************************************************************************)
Requests == [op : Ops \cap Sends, item : Items]
              \cup [op : Ops \cap Takes, item : {NoItem}]
Idle     == [op |-> "none", item |-> NoItem]

\* What a call returned last: nothing yet, a refusal, or success with the
\* item that was sent or delivered.
Results == [ok : BOOLEAN, item : Items \cup {NoItem}]
Refused == [ok |-> FALSE, item |-> NoItem]
Passed(x) == [ok |-> TRUE, item |-> x]

VARIABLES items,  \* the queue, front first
          call,   \* the request each thread is waiting for, or Idle
          ret     \* the result of the last call of each thread

vars == <<items, call, ret>>

Init == /\ items = << >>
        /\ call = [t \in Threads |-> Idle]
        /\ ret = [t \in Threads |-> Refused]

CanServe(r) == IF r.op \in Sends THEN Len(items) < MaxLength
                                 ELSE Len(items) > 0

Returns(t, result) == /\ call' = [call EXCEPT ![t] = Idle]
                      /\ ret' = [ret EXCEPT ![t] = result]

\* r is a new call of t, or the one t already waits for
CallOf(t, r) == call[t] \in {Idle, r}

Wait(t, r) == /\ call[t] = Idle
              /\ ~ CanServe(r)
              /\ call' = [call EXCEPT ![t] = r]
              /\ UNCHANGED <<items, ret>>

Refuse(t, r) == /\ CallOf(t, r)
                /\ ~ CanServe(r)
                /\ Returns(t, Refused)
                /\ UNCHANGED items

Serve(t, r) ==
  /\ CallOf(t, r)
  /\ CanServe(r)
  /\ \/ r.op = "SendToBack"  /\ items' = Append(items, r.item)    /\ Returns(t, Passed(r.item))
     \/ r.op = "SendToFront" /\ items' = <<r.item>> \o items      /\ Returns(t, Passed(r.item))
     \/ r.op = "Receive"     /\ items' = Tail(items)              /\ Returns(t, Passed(Head(items)))
     \/ r.op = "Peek"        /\ UNCHANGED items                   /\ Returns(t, Passed(Head(items)))

Empty(t) == /\ "Reset" \in Ops
            /\ call[t] = Idle
            /\ items' = << >>
            /\ Returns(t, Passed(NoItem))

Next == \E t \in Threads :
          \/ \E r \in Requests : Wait(t, r) \/ Refuse(t, r) \/ Serve(t, r)
          \/ Empty(t)

Spec == Init /\ [][Next]_vars
=============================================================================
