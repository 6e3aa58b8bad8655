------------------------------- MODULE Queue -------------------------------
(***************************************************************************)
(* include/freertos/queue.h: the FreeRTOS queue of the emulator, a deque   *)
(* under one mutex with two condition variables.                           *)
(*                                                                         *)
(* A call holds the mutex from its first statement until it returns or     *)
(* sleeps in wait_for, so each stretch between those points is one action. *)
(* A thread that sleeps is in cvNotEmpty or cvNotFull.  It leaves the set  *)
(* when it is notified, when its deadline passes or for no reason at all   *)
(* (the standard allows spurious wakeups), and then competes for the mutex *)
(* with every new call before it looks at its predicate again.             *)
(*                                                                         *)
(* Every wait is finite: portMAX_DELAY is 60000 ms in this code, so the    *)
(* deadline of each wait passes eventually.  A length of time is left to   *)
(* chance: Deadline may happen at any moment of a wait.                    *)
(***************************************************************************)
EXTENDS Naturals, Sequences, FiniteSets

CONSTANTS Threads,    \* the host threads that use the queue
          Items,      \* the item values
          MaxLength,  \* uxQueueLength
          Ops,        \* the operations the program uses
          NoItem      \* the item of a call that carries none

ASSUME QueueAssumption ==
  /\ IsFiniteSet(Threads)
  /\ MaxLength \in Nat
  /\ Ops \subseteq {"SendToBack", "SendToFront", "Receive", "Peek", "Reset"}
  /\ NoItem \notin Items

VARIABLES items,       \* QueueData::items, front first
          cvNotEmpty,  \* the threads asleep on QueueData::cvNotEmpty
          cvNotFull,   \* the threads asleep on QueueData::cvNotFull
          call,        \* the call each thread waits in, or Idle
          late,        \* the waiting threads whose deadline has passed
          ret          \* how the last call of each thread ended, and the item
                       \* it sent or delivered

vars == <<items, cvNotEmpty, cvNotFull, call, late, ret>>

\* The promise of BoundedQueue, and its vocabulary of requests and results.
Abstract == INSTANCE BoundedQueue

Sends     == Abstract!Sends
Requests  == Abstract!Requests
Idle      == Abstract!Idle
Refused   == Abstract!Refused
Passed(x) == Abstract!Passed(x)

Init == /\ items = << >>
        /\ cvNotEmpty = {}
        /\ cvNotFull = {}
        /\ call = [t \in Threads |-> Idle]
        /\ late = {}
        /\ ret = [t \in Threads |-> Refused]

-----------------------------------------------------------------------------
(***************************************************************************)
(* The mutex and the condition variables.                                  *)
(***************************************************************************)
Asleep == cvNotEmpty \cup cvNotFull

\* t holds the mutex on behalf of r: it has just made the call, or it is
\* awake again inside the wait of that call.
Runs(t, r) == \/ call[t] = Idle
              \/ call[t] = r /\ t \notin Asleep

\* Mutant of NotifyOne: the notification is forgotten.
NotifyNobody(cv) == {cv}

\* The sets that notify_one can leave behind.
NotifyOne(cv) == IF cv = {} THEN {cv} ELSE {cv \ {t} : t \in cv}

Return(t, result) == /\ call' = [call EXCEPT ![t] = Idle]
                     /\ late' = late \ {t}
                     /\ ret' = [ret EXCEPT ![t] = result]

\* The predicate of the wait a call may fall into.
Predicate(r) == IF r.op \in Sends THEN Len(items) < MaxLength
                                  ELSE items # << >>

-----------------------------------------------------------------------------
(***************************************************************************)
(* xQueueSend, xQueueSendToBack, xQueueSendToFront                         *)
(***************************************************************************)
Send(t, r) ==
  /\ Runs(t, r)
  /\ r.op \in Sends
  /\ Predicate(r)
  /\ items' = IF r.op = "SendToBack" THEN Append(items, r.item)
                                     ELSE <<r.item>> \o items
  /\ cvNotEmpty' \in NotifyOne(cvNotEmpty)
  /\ Return(t, Passed(r.item))
  /\ UNCHANGED cvNotFull

Receive(t, r) ==
  /\ Runs(t, r)
  /\ r.op = "Receive"
  /\ Predicate(r)
  /\ items' = Tail(items)
  /\ cvNotFull' \in NotifyOne(cvNotFull)
  /\ Return(t, Passed(Head(items)))
  /\ UNCHANGED cvNotEmpty

\* xQueuePeek waits like a receive, but takes nothing and notifies nobody.
Peek(t, r) ==
  /\ Runs(t, r)
  /\ r.op = "Peek"
  /\ Predicate(r)
  /\ Return(t, Passed(Head(items)))
  /\ UNCHANGED <<items, cvNotEmpty, cvNotFull>>

\* The call finds its predicate false and sleeps, for the first time or again.
Sleep(t, r) ==
  /\ Runs(t, r)
  /\ ~ Predicate(r)
  /\ t \notin late
  /\ call' = [call EXCEPT ![t] = r]
  /\ IF r.op \in Sends
       THEN cvNotFull' = cvNotFull \cup {t} /\ UNCHANGED cvNotEmpty
       ELSE cvNotEmpty' = cvNotEmpty \cup {t} /\ UNCHANGED cvNotFull
  /\ UNCHANGED <<items, late, ret>>

\* Mutant of Fail: a timeout fails without a last look at the predicate.
FailOnTimeout(t, r) ==
  /\ Runs(t, r)
  /\ t \in late \/ (call[t] = Idle /\ ~ Predicate(r))
  /\ Return(t, Refused)
  /\ UNCHANGED <<items, cvNotEmpty, cvNotFull>>

\* pdFAIL: at once when xTicksToWait is 0 (the ISR variants always pass 0),
\* or from a wait_for whose deadline has passed with the predicate still false.
Fail(t, r) ==
  /\ Runs(t, r)
  /\ ~ Predicate(r)
  /\ call[t] = Idle \/ t \in late
  /\ Return(t, Refused)
  /\ UNCHANGED <<items, cvNotEmpty, cvNotFull>>

\* xQueueReset drops the items and notifies neither condition variable.
Reset(t) ==
  /\ "Reset" \in Ops
  /\ call[t] = Idle
  /\ items' = << >>
  /\ Return(t, Passed(NoItem))
  /\ UNCHANGED <<cvNotEmpty, cvNotFull>>

-----------------------------------------------------------------------------
(***************************************************************************)
(* std::condition_variable: what can happen to a thread inside wait_for.   *)
(***************************************************************************)
WakeUp(t) == /\ cvNotEmpty' = cvNotEmpty \ {t}
             /\ cvNotFull' = cvNotFull \ {t}

Spurious(t) == /\ t \in Asleep
               /\ WakeUp(t)
               /\ UNCHANGED <<items, call, late, ret>>

\* Mutant of Deadline: receivers wait without a timeout.
SendDeadline(t) == /\ call[t].op \in Sends
                   /\ t \notin late
                   /\ late' = late \cup {t}
                   /\ WakeUp(t)
                   /\ UNCHANGED <<items, call, ret>>

Deadline(t) == /\ call[t] # Idle
               /\ t \notin late
               /\ late' = late \cup {t}
               /\ WakeUp(t)
               /\ UNCHANGED <<items, call, ret>>

\* What the caller t of r does while it holds the mutex.
Proceed(t, r) == \/ Send(t, r) \/ Receive(t, r) \/ Peek(t, r)
                 \/ Sleep(t, r) \/ Fail(t, r)

Next == \E t \in Threads :
          \/ \E r \in Requests : Proceed(t, r)
          \/ Reset(t)
          \/ Spurious(t)
          \/ Deadline(t)

Spec == Init /\ [][Next]_vars

(***************************************************************************)
(* The mutex is released after finitely many statements and the clock runs *)
(* on: a thread that is awake inside a call gets the mutex again, and      *)
(* every deadline passes.  Nothing forces a thread to make a new call, nor *)
(* any notification to arrive.                                             *)
(***************************************************************************)
Resume(t) == call[t] # Idle /\ Proceed(t, call[t])

FairSpec == /\ Spec
            /\ \A t \in Threads : WF_vars(Resume(t)) /\ WF_vars(Deadline(t))

-----------------------------------------------------------------------------
(***************************************************************************)
(* Properties                                                              *)
(***************************************************************************)
Receivers == {t \in Threads : call[t].op = "Receive"}
Senders   == {t \in Threads : call[t].op \in Sends}

\* The state of the queue is well formed: the capacity is never exceeded,
\* only a thread inside a call sleeps or is late, each on the condition
\* variable of its kind of call, and a late thread does not sleep.
TypeOK ==
  /\ items \in Seq(Items)
  /\ Len(items) <= MaxLength
  /\ call \in [Threads -> Requests \cup {Idle}]
  /\ ret \in [Threads -> Abstract!Results]
  /\ cvNotFull \subseteq Senders
  /\ cvNotEmpty \subseteq {t \in Threads : call[t].op \in Abstract!Takes}
  /\ late \subseteq {t \in Threads : call[t] # Idle}
  /\ late \cap Asleep = {}

\* No lost wakeup of a receiver: while a receiver sleeps, every item in the
\* queue is matched by a receiver that has been woken and will take it.
\* notify_one in xQueueSend is enough for this only if nobody peeks.
NoStrandedReceiver ==
  cvNotEmpty # {} => Len(items) <= Cardinality(Receivers \ cvNotEmpty)

\* No lost wakeup of a sender: while a sender sleeps, every free slot is
\* matched by a sender that has been woken and will fill it.  notify_one in
\* xQueueReceive is enough for this only if nobody resets the queue.
NoStrandedSender ==
  cvNotFull # {} => MaxLength - Len(items) <= Cardinality(Senders \ cvNotFull)

\* The queue implements the abstract bounded queue: whatever the interleaving
\* of notifications, timeouts and spurious wakeups, each call takes effect
\* once, in order, and is refused only when it cannot be served.
Refinement == Abstract!Spec

\* Every call returns, the ones with portMAX_DELAY and the ones that lost
\* their wakeup to a peek or a reset included.
CallsReturn == \A t \in Threads : call[t] # Idle ~> call[t] = Idle
=============================================================================
