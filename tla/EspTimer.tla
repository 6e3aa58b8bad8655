------------------------------ MODULE EspTimer ------------------------------
(***************************************************************************)
(* include/esp_timer.h: one ESP-IDF high-resolution timer.  Its worker     *)
(* thread exists from esp_timer_create on.  It polls the running flag,     *)
(* sleeps for the period without looking at anything, and then, under the  *)
(* mutex of the timer, looks at the flags once and calls the callback.     *)
(*                                                                         *)
(* The start functions take no lock: their three stores are three steps.   *)
(* esp_timer_stop takes the mutex, so it waits for a running callback.     *)
(* Callers are controller threads; a callback of this model makes no call  *)
(* of the timer (a stop from the callback would wait for its own mutex).   *)
(***************************************************************************)
EXTENDS Naturals, Sequences

CONSTANTS Controllers,  \* the threads that call the timer's functions
          MaxPeriod,    \* the longest period the program sets, in ticks
          Modes         \* the start functions in use: {"periodic", "once"}

ASSUME EspTimerAssumption ==
  /\ MaxPeriod \in Nat \ {0}
  /\ Modes \subseteq {"periodic", "once"}

VARIABLES running, alive, periodic, period,  \* the fields of esp_timer
          pc,       \* where the worker is
          left,     \* the ticks left of the worker's sleep
          todo,     \* the steps left of the call each controller is in
          request,  \* the arguments of the start each controller is in
          freed,    \* esp_timer_delete has freed the timer
          age,      \* ghost: ticks since the last start or callback, capped
          fired,    \* ghost: callbacks since the last start, capped at 2
          owed,     \* ghost: a start that did not fall into a callback awaits its
                    \* first callback
          fresh     \* ghost: no start since the worker read the period

fields == <<running, alive, periodic, period>>
vars   == <<fields, pc, left, todo, request, freed, age, fired, owed, fresh>>

Periods  == 1 .. MaxPeriod
Requests == [mode : Modes, period : Periods]

Init == /\ running = FALSE /\ alive = TRUE /\ periodic = FALSE /\ period = 0
        /\ pc = "loop" /\ left = 0
        /\ todo = [c \in Controllers |-> << >>]
        /\ request \in [Controllers -> Requests]
        /\ freed = FALSE
        /\ age = 0 /\ fired = 0 /\ owed = FALSE /\ fresh = FALSE

-----------------------------------------------------------------------------
(***************************************************************************)
(* The functions.                                                          *)
(***************************************************************************)
Quiet == \A c \in Controllers : todo[c] = << >>
Locked == pc \in {"callback", "expire"}  \* the worker holds the timer's mutex
Usable == ~ freed /\ \A c \in Controllers : "free" \notin {todo[c][i] : i \in DOMAIN todo[c]}
MayCall(c) == todo[c] = << >> /\ Usable

\* esp_timer_start_periodic, esp_timer_start_once
Start(c) ==
  /\ MayCall(c)
  /\ todo' = [todo EXCEPT ![c] = <<"period", "mode", "run">>]
  /\ \E r \in Requests : request' = [request EXCEPT ![c] = r]
  /\ UNCHANGED <<fields, pc, left, freed, age, fired, owed, fresh>>

Stop(c) == /\ MayCall(c)
           /\ todo' = [todo EXCEPT ![c] = <<"stop">>]
           /\ UNCHANGED <<fields, pc, left, request, freed, age, fired, owed, fresh>>

\* esp_timer_delete: the program calls it when no other call is under way.
Delete(c) == /\ MayCall(c) /\ Quiet
             /\ todo' = [todo EXCEPT ![c] = <<"kill", "clear", "join", "free">>]
             /\ UNCHANGED <<fields, pc, left, request, freed, age, fired, owed, fresh>>

Takes(c, step) == /\ todo[c] # << >> /\ Head(todo[c]) = step
                  /\ todo' = [todo EXCEPT ![c] = Tail(@)]
                  /\ UNCHANGED <<request, pc, left>>

SetPeriod(c) == /\ Takes(c, "period")
                /\ period' = request[c].period
                /\ fresh' = FALSE
                /\ UNCHANGED <<running, alive, periodic, freed, age, fired, owed>>

SetMode(c) == /\ Takes(c, "mode")
              /\ periodic' = (request[c].mode = "periodic")
              /\ UNCHANGED <<running, alive, period, freed, age, fired, owed, fresh>>

SetRunning(c) == /\ Takes(c, "run")
                 /\ running' = TRUE
                 /\ age' = 0 /\ fired' = 0 /\ owed' = ~ Locked
                 /\ fresh' = FALSE
                 /\ UNCHANGED <<alive, periodic, period, freed>>

\* Mutant of Halt: the mutex is not taken.
HaltUnlocked(c) == /\ Takes(c, "stop")
                   /\ running' = FALSE /\ owed' = FALSE
                   /\ UNCHANGED <<alive, periodic, period, freed, age, fired, fresh>>

\* esp_timer_stop clears the flag under the mutex, which a callback holds.
Halt(c) == /\ Takes(c, "stop")
           /\ ~ Locked
           /\ running' = FALSE /\ owed' = FALSE
           /\ UNCHANGED <<alive, periodic, period, freed, age, fired, fresh>>

Kill(c) == /\ Takes(c, "kill")
           /\ alive' = FALSE
           /\ UNCHANGED <<running, periodic, period, freed, age, fired, owed, fresh>>

Clear(c) == /\ Takes(c, "clear")
            /\ running' = FALSE /\ owed' = FALSE
            /\ UNCHANGED <<alive, periodic, period, freed, age, fired, fresh>>

\* Mutant of Join: the worker is detached instead.
Detach(c) == Takes(c, "join") /\ UNCHANGED <<fields, freed, age, fired, owed, fresh>>

Join(c) == /\ Takes(c, "join")
           /\ pc = "ended"
           /\ UNCHANGED <<fields, freed, age, fired, owed, fresh>>

Free(c) == /\ Takes(c, "free")
           /\ freed' = TRUE
           /\ UNCHANGED <<fields, age, fired, owed, fresh>>

Step(c) == \/ SetPeriod(c) \/ SetMode(c) \/ SetRunning(c) \/ Halt(c)
           \/ Kill(c) \/ Clear(c) \/ Join(c) \/ Free(c)

-----------------------------------------------------------------------------
(***************************************************************************)
(* timer_thread                                                            *)
(***************************************************************************)
\* Mutant of Loop: a worker that finds no running timer ends.
LoopWhileRunning == /\ pc = "loop"
                    /\ pc' = IF alive /\ running THEN "armed" ELSE "ended"
                    /\ UNCHANGED <<fields, left, todo, request, freed, age, fired, owed, fresh>>
\* while (alive) { if (!running) nap and look again; ...
Loop == /\ pc = "loop"
        /\ pc' = IF ~ alive THEN "ended" ELSE IF running THEN "armed" ELSE "loop"
        /\ UNCHANGED <<fields, left, todo, request, freed, age, fired, owed, fresh>>

\* ... the period is read, without a lock, and the sleep begins
Arm == /\ pc = "armed"
       /\ pc' = "sleep" /\ left' = period
       /\ fresh' = TRUE
       /\ UNCHANGED <<fields, todo, request, freed, age, fired, owed>>

\* Mutant of Slept: the sleep may end at once.
AsleepForNothing == pc = "sleep"
Slept == pc = "sleep" /\ left = 0

\* The sleep is over: under the mutex, the flags decide about the callback.
Wake == /\ Slept
        /\ IF running /\ alive
             THEN /\ pc' = "callback"
                  /\ age' = 0 /\ owed' = FALSE
                  /\ fired' = IF fired < 2 THEN fired + 1 ELSE fired
             ELSE /\ pc' = "loop"
                  /\ UNCHANGED <<age, fired, owed>>
        /\ UNCHANGED <<fields, left, todo, request, freed, fresh>>

\* The callback returns; still under the mutex, the mode decides what is next.
CallbackReturns == /\ pc = "callback"
                   /\ pc' = IF periodic THEN "loop" ELSE "expire"
                   /\ UNCHANGED <<fields, left, todo, request, freed, age, fired, owed, fresh>>

\* Mutant of Expire: a one-shot timer goes on running.
ExpireNothing == /\ pc = "expire"
                 /\ pc' = "loop"
                 /\ UNCHANGED <<fields, left, todo, request, freed, age, fired, owed, fresh>>

\* A one-shot timer stops running: also one that was started again since the
\* mode was read, because the start functions do not take the mutex.
Expire == /\ pc = "expire"
          /\ pc' = "loop"
          /\ running' = FALSE
          /\ UNCHANGED <<alive, periodic, period, left, todo, request, freed, age, fired, owed, fresh>>

Worker == Loop \/ Arm \/ Wake \/ CallbackReturns \/ Expire

Tick == /\ left' = IF left > 0 THEN left - 1 ELSE 0
        /\ age' = IF age < MaxPeriod THEN age + 1 ELSE age
        /\ UNCHANGED <<fields, pc, todo, request, freed, fired, owed, fresh>>

Next == \/ \E c \in Controllers : Start(c) \/ Stop(c) \/ Delete(c) \/ Step(c)
        \/ Worker
        \/ Tick

Spec == Init /\ [][Next]_vars

(***************************************************************************)
(* Every thread is scheduled, callbacks return and time passes; no thread  *)
(* has to make a call.  Halt waits for a mutex the worker takes again and  *)
(* again, but between two callbacks the worker sleeps a whole period: a    *)
(* thread that waits for the mutex gets it in one of these gaps.           *)
(***************************************************************************)
FairSpec == /\ Spec
            /\ \A c \in Controllers : WF_vars(Step(c)) /\ SF_vars(Halt(c))
            /\ WF_vars(Worker) /\ WF_vars(Tick)

-----------------------------------------------------------------------------
(***************************************************************************)
(* Properties                                                              *)
(***************************************************************************)
\* A stopped timer is silent: once a stop has returned, no callback is running
\* and none begins before the next start.
StoppedIsSilent == Quiet /\ ~ running => pc # "callback"

\* After start_once, and until the next call, the callback runs at most once.
OnceIsOnce == Quiet /\ ~ periodic => fired <= 1

\* esp_timer_delete frees the timer only when the worker has ended.
NothingUsesFreedTimer == freed => pc = "ended"

\* Every call returns, and a periodic timer that is left alone fires for ever.
TimerLives == /\ \A c \in Controllers : todo[c] # << >> ~> todo[c] = << >>
              /\ <>[](Quiet /\ running /\ periodic) => []<>(pc = "callback")

\* A timer that is started and then left alone does fire, once or for ever,
\* unless the start fell into the callback of an earlier start: that callback
\* overwrites the flag of a one-shot timer when it returns.
StartedFires == (Quiet /\ owed) ~> ~ (Quiet /\ owed)

\* No callback comes before the period of the last start, counted from that
\* start or the last callback, is over, unless the timer was started while the
\* worker slept: that sleep is the one of the old period.
NeverEarlyUnlessRestarted ==
  [][pc # "callback" /\ pc' = "callback" /\ Quiet /\ fresh => age >= period]_vars
=============================================================================
