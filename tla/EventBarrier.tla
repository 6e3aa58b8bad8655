---------------------------- MODULE EventBarrier ----------------------------
(***************************************************************************)
(* A barrier on an event group: each thread calls xEventGroupSync with its *)
(* own bit, the bits of everybody and portMAX_DELAY.  The call sets the    *)
(* bit under the mutex, and then waits for all of the bits in a wait that  *)
(* clears them when it returns.  A bit is named after the thread it is of. *)
(***************************************************************************)
EXTENDS EventGroup

VARIABLE stage   \* where each thread is: "before", "announced" or "past"

barrierVars == <<vars, stage>>

BarrierInit == Init /\ stage = [t \in Threads |-> "before"]

TheSync == SyncRequest(Threads, "forever")

Arrive(t) == /\ stage[t] = "before"
             /\ Sync(t, {t}, TheSync)
             /\ stage' = [stage EXCEPT ![t] = "announced"]

\* Inside its wait a thread sleeps, wakes up and returns as EventGroup has
\* it; returning takes it past the barrier.
Finish(t) ==
  /\ stage[t] = "announced"
  /\ call[t] = TheSync
  /\ \/ WaitSleep(t, TheSync) /\ UNCHANGED stage
     \/ WaitReturn(t, TheSync) /\ stage' = [stage EXCEPT ![t] = "past"]

Stir(t) == Spurious(t) /\ UNCHANGED stage

BarrierNext == \E t \in Threads : Arrive(t) \/ Finish(t) \/ Stir(t)

BarrierSpec == /\ BarrierInit /\ [][BarrierNext]_barrierVars
               /\ \A t \in Threads : WF_barrierVars(Finish(t))

\* The point of a barrier: once everybody has arrived, everybody gets past.
EverybodyPasses ==
  (\A t \in Threads : stage[t] # "before") ~> (\A t \in Threads : stage[t] = "past")

\* The half that holds: nobody gets past before everybody has arrived.
NobodyIsEarly ==
  \A t \in Threads : stage[t] = "past" => \A u \in Threads : stage[u] # "before"

\* What happens to the other half: the first thread that gets past takes the
\* bits of all the others with it, and nobody ever follows.
NobodyFollows == \A t, u \in Threads : stage[t] = "past" /\ stage[u] = "past" => t = u
=============================================================================
