------------------------------ MODULE GpioLock ------------------------------
(***************************************************************************)
(* The mutex of include/driver/gpio.h around one pin with an any-edge       *)
(* interrupt.  gpio_set_level calls the handler outside the mutex: it       *)
(* destroys its lock guard by hand, and the guard is destroyed once more    *)
(* when the function returns.  That second unlock, of a mutex the thread    *)
(* does not hold, has no defined effect: it releases whoever holds the      *)
(* mutex by then, or does nothing.                                          *)
(*                                                                         *)
(* The calls a handler makes are those of one more thread.                 *)
(***************************************************************************)
EXTENDS Naturals, FiniteSets

CONSTANT Threads

Levels == {0, 1}

VARIABLES
  level,    \* of the pin
  owner,    \* {} or the thread that holds the mutex
  phase,    \* where each thread is in gpio_set_level
  want,     \* the level it sets
  old,      \* the level it has read
  stolen,   \* a thread has released the lock of another one
  missed    \* an edge had no handler call, or a call no edge

vars == <<level, owner, phase, want, old, stolen, missed>>

Init == /\ level = 0 /\ owner = {}
        /\ phase = [t \in Threads |-> "out"]
        /\ want = [t \in Threads |-> 0] /\ old = [t \in Threads |-> 0]
        /\ stolen = FALSE /\ missed = FALSE

Inside(t) == phase[t] \in {"read", "write", "leave", "fire"}
Goto(t, p) == phase' = [phase EXCEPT ![t] = p]

Call(t, l) ==
  /\ phase[t] = "out"
  /\ Goto(t, "lock")
  /\ want' = [want EXCEPT ![t] = l]
  /\ UNCHANGED <<level, owner, old, stolen, missed>>

\* Mutant of Lock: the mutex is not waited for.
LockLate(t) ==
  /\ phase[t] = "lock"
  /\ owner' = {t}
  /\ Goto(t, "read")
  /\ UNCHANGED <<level, want, old, stolen, missed>>

Lock(t) ==
  /\ phase[t] = "lock" /\ owner = {}
  /\ owner' = {t}
  /\ Goto(t, "read")
  /\ UNCHANGED <<level, want, old, stolen, missed>>

Read(t) ==
  /\ phase[t] = "read"
  /\ old' = [old EXCEPT ![t] = level]
  /\ Goto(t, "write")
  /\ UNCHANGED <<level, owner, want, stolen, missed>>

Write(t) ==
  /\ phase[t] = "write"
  /\ level' = want[t]
  /\ missed' = (missed \/ (old[t] # want[t]) # (level # want[t]))
  /\ Goto(t, IF old[t] # want[t] THEN "fire" ELSE "leave")
  /\ UNCHANGED <<owner, want, old, stolen>>

\* The unlock of a thread, its own lock or another's.
Unlock(t) == /\ owner' = {}
             /\ stolen' = (stolen \/ owner \notin {{}, {t}})

\* The explicit ~lock_guard, and the handler that runs behind it.
Fire(t) ==
  /\ phase[t] = "fire"
  /\ Unlock(t)
  /\ Goto(t, "handler")
  /\ UNCHANGED <<level, want, old, missed>>

Leave(t) ==
  /\ phase[t] = "leave"
  /\ Unlock(t)
  /\ Goto(t, "out")
  /\ UNCHANGED <<level, want, old, missed>>

HandlerReturns(t) ==
  /\ phase[t] = "handler"
  /\ Unlock(t) \/ UNCHANGED <<owner, stolen>>
  /\ Goto(t, "out")
  /\ UNCHANGED <<level, want, old, missed>>

Steps(t) == Read(t) \/ Write(t) \/ Fire(t) \/ Leave(t) \/ HandlerReturns(t)

Next == \E t \in Threads : (\E l \in Levels : Call(t, l)) \/ Lock(t) \/ Steps(t)

Spec == Init /\ [][Next]_vars

-----------------------------------------------------------------------------
\* Until a second unlock hits the lock of another thread, one thread is inside
\* at a time, it holds the mutex, and every edge calls the handler once.
ExclusiveUntilStolen ==
  ~ stolen => /\ ~ missed
              /\ \A t \in Threads : Inside(t) => owner = {t}
=============================================================================
