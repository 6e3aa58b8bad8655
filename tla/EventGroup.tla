----------------------------- MODULE EventGroup -----------------------------
(***************************************************************************)
(* include/freertos/event_groups.h: a word of event bits under one mutex,  *)
(* with one condition variable that every change of the bits notifies.     *)
(*                                                                         *)
(* As in Queue, one action is one stretch of a call under the mutex.  A    *)
(* thread inside xEventGroupWaitBits is asleep or on its way to the mutex. *)
(* xEventGroupSync takes the mutex twice: between its two halves the       *)
(* thread is inside the call and awake.                                    *)
(***************************************************************************)
EXTENDS FiniteSets

CONSTANTS Threads,   \* the host threads that use the group
          Bits,      \* the bit positions in use
          Masks,     \* the sets of bits that are set, cleared and waited for
          Requests,  \* the ways the program waits
          None       \* not a request: a thread outside of xEventGroupWaitBits

(***************************************************************************)
(* The arguments of xEventGroupWaitBits: uxBitsToWaitFor, xWaitForAllBits, *)
(* xClearOnExit, and xTicksToWait, which is 0, portMAX_DELAY or in between.*)
(***************************************************************************)
WaitArguments == [mask : Masks, all : BOOLEAN, clear : BOOLEAN,
                  ticks : {"zero", "finite", "forever"}]

ASSUME EventGroupAssumption ==
  /\ Masks \subseteq SUBSET Bits
  /\ Requests \subseteq WaitArguments
  /\ None \notin WaitArguments

VARIABLES bits,    \* EventGroup::bits
          asleep,  \* the threads asleep on EventGroup::cv
          call,    \* the wait each thread is in, or None
          late,    \* the waiting threads whose timeout has passed
          ret      \* the last return: by whom, of which wait (None: it was
                   \* none) and with which bits

vars == <<bits, asleep, call, late, ret>>

Init == /\ bits = {}
        /\ asleep = {}
        /\ call = [t \in Threads |-> None]
        /\ late = {}
        /\ ret = [by |-> None, of |-> None, word |-> {}]

\* The promise of EventWord, about the same word, calls and returns.
Abstract == INSTANCE EventWord

-----------------------------------------------------------------------------
Satisfied(r, word) == IF r.all THEN r.mask \subseteq word
                               ELSE r.mask \cap word # {}

Return(t, r, word) == /\ call' = [call EXCEPT ![t] = None]
                      /\ late' = late \ {t}
                      /\ ret' = [by |-> t, of |-> r, word |-> word]

\* Mutant of RaiseBits: nobody is notified.
RaiseQuietly(mask) == bits' = bits \cup mask /\ UNCHANGED asleep

\* xEventGroupSetBits: notify_all wakes every sleeper.
RaiseBits(mask) == /\ bits' = bits \cup mask
                   /\ asleep' = {}

SetBits(t, mask) == /\ call[t] = None
                    /\ RaiseBits(mask)
                    /\ Return(t, None, bits \cup mask)

\* xEventGroupClearBits returns the bits as they were.
ClearBits(t, mask) == /\ call[t] = None
                      /\ bits' = bits \ mask
                      /\ Return(t, None, bits)
                      /\ UNCHANGED asleep

-----------------------------------------------------------------------------
(***************************************************************************)
(* xEventGroupWaitBits                                                     *)
(***************************************************************************)
Runs(t, r) == \/ call[t] = None /\ r \in Requests
              \/ call[t] = r /\ t \notin asleep

WaitSleep(t, r) ==
  /\ Runs(t, r)
  /\ ~ Satisfied(r, bits)
  /\ r.ticks # "zero"
  /\ t \notin late
  /\ call' = [call EXCEPT ![t] = r]
  /\ asleep' = asleep \cup {t}
  /\ UNCHANGED <<bits, late, ret>>

\* Mutants of WaitReturn: the result is read after the bits are cleared; the
\* bits are cleared without a look at the condition.
ReturnRest(t, r) ==
  /\ Runs(t, r)
  /\ Satisfied(r, bits) \/ r.ticks = "zero" \/ t \in late
  /\ bits' = IF Satisfied(r, bits) /\ r.clear THEN bits \ r.mask ELSE bits
  /\ Return(t, r, bits')
  /\ UNCHANGED asleep

ReturnAndClear(t, r) ==
  /\ Runs(t, r)
  /\ Satisfied(r, bits) \/ r.ticks = "zero" \/ t \in late
  /\ bits' = IF r.clear THEN bits \ r.mask ELSE bits
  /\ Return(t, r, bits)
  /\ UNCHANGED asleep

\* The result is taken before the bits are cleared, and they are cleared only
\* if the condition holds: a timeout consumes nothing.
WaitReturn(t, r) ==
  /\ Runs(t, r)
  /\ Satisfied(r, bits) \/ r.ticks = "zero" \/ t \in late
  /\ bits' = IF Satisfied(r, bits) /\ r.clear THEN bits \ r.mask ELSE bits
  /\ Return(t, r, bits)
  /\ UNCHANGED asleep

\* xEventGroupSync: the bits are set under the mutex, which is then released
\* and taken again for a wait for all of the bits that clears them.
SyncRequest(mask, ticks) ==
  [mask |-> mask, all |-> TRUE, clear |-> TRUE, ticks |-> ticks]

Sync(t, mask, r) ==
  /\ call[t] = None
  /\ r = SyncRequest(r.mask, r.ticks)
  /\ RaiseBits(mask)
  /\ call' = [call EXCEPT ![t] = r]
  /\ UNCHANGED <<late, ret>>

-----------------------------------------------------------------------------
Spurious(t) == /\ t \in asleep
               /\ asleep' = asleep \ {t}
               /\ UNCHANGED <<bits, call, late, ret>>

Deadline(t) == /\ call[t] # None
               /\ call[t].ticks = "finite"
               /\ t \notin late
               /\ late' = late \cup {t}
               /\ asleep' = asleep \ {t}
               /\ UNCHANGED <<bits, call, ret>>

Wait(t, r) == WaitSleep(t, r) \/ WaitReturn(t, r)

Next == \E t \in Threads :
          \/ \E mask \in Masks : SetBits(t, mask) \/ ClearBits(t, mask)
          \/ \E r \in WaitArguments : Wait(t, r)
          \/ \E mask \in Masks, r \in Requests : Sync(t, mask, r)
          \/ Spurious(t)
          \/ Deadline(t)

Spec == Init /\ [][Next]_vars

(***************************************************************************)
(* A thread awake inside a call gets the mutex again, and finite timeouts  *)
(* pass; no thread has to set a bit.                                       *)
(***************************************************************************)
Resume(t) == call[t] # None /\ Wait(t, call[t])

Fairness == \A t \in Threads : WF_vars(Resume(t)) /\ WF_vars(Deadline(t))

FairSpec == Spec /\ Fairness

-----------------------------------------------------------------------------
(***************************************************************************)
(* Properties                                                              *)
(***************************************************************************)
\* The word holds known bits, and only threads inside a wait sleep or are late.
TypeOK ==
  /\ bits \subseteq Bits
  /\ call \in [Threads -> WaitArguments \cup {None}]
  /\ ret \in [by : Threads \cup {None}, of : WaitArguments \cup {None}, word : SUBSET Bits]
  /\ asleep \subseteq {t \in Threads : call[t] # None}
  /\ late \subseteq {t \in Threads : call[t] # None} \ asleep

\* No missed wakeup: nobody sleeps through bits that satisfy its wait, however
\* its sleep interleaves with the calls that set and clear bits.
NoMissedWakeup == \A t \in asleep : ~ Satisfied(call[t], bits)

\* Bits do not vanish unseen: whoever makes a bit disappear has it in the word
\* that its own call returns, so no two waiters ever consume one setting of a
\* bit and a consumer always knows what it consumed.
ClearedBitsAreReported ==
  [][\A b \in bits \ bits' : \E t \in Threads :
       /\ ret'.by = t /\ b \in ret'.word
       /\ call'[t] = None
       /\ \A u \in Threads \ {t} : call'[u] = call[u]]_vars

\* Whatever the sleeps, wakeups and timeouts, each call takes effect at one
\* instant: a wait that succeeds finds its bits there and takes them at once, and
\* one that fails (a poll, a timeout, a sync that came to nothing) takes none,
\* at an instant at which they really are not there.
Refinement == Abstract!Spec

\* A wait with a finite timeout returns, and so does a wait whose condition
\* holds from some moment on.
WaitsEnd ==
  \A t \in Threads :
    /\ (call[t] # None /\ call[t].ticks # "forever") ~> (call[t] = None)
    /\ ~ <>[](call[t] # None /\ Satisfied(call[t], bits))
=============================================================================
