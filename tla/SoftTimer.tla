----------------------------- MODULE SoftTimer -----------------------------
(***************************************************************************)
(* include/freertos/timers.h: one FreeRTOS software timer.  Starting it    *)
(* spawns a worker thread that sleeps for the period, polling the running  *)
(* and deleted flags, and calls the callback; stopping it clears the flag  *)
(* and joins the worker.                                                   *)
(*                                                                         *)
(* Nothing here is under a lock: a call is a sequence of atomic steps, and *)
(* the steps of different threads interleave.  The callers are controller  *)
(* threads and, inside the callback, the worker itself.  What C++ answers  *)
(* with std::terminate (a thread that joins itself, a thread object that   *)
(* is assigned while it is joinable) ends the run.                         *)
(*                                                                         *)
(* Time advances in ticks, as fast or as slowly as it likes between the    *)
(* steps of the threads.                                                   *)
(***************************************************************************)
EXTENDS Naturals, Sequences, FiniteSets

CONSTANTS Controllers,  \* the threads that call the timer's functions
          Workers,      \* identities for the worker threads
          MaxPeriod,    \* the longest period the program sets, in ticks
          Ops,          \* the functions the controllers call
          CallbackOps,  \* the functions the callback calls
          NoThread      \* a thread object that is not joinable

AllOps == {"Start", "Stop", "Reset", "ChangePeriod", "Delete"}

ASSUME SoftTimerAssumption ==
  /\ Controllers \cap Workers = {} /\ NoThread \notin Controllers \cup Workers
  /\ MaxPeriod \in Nat \ {0}
  /\ Ops \subseteq AllOps /\ CallbackOps \subseteq AllOps

VARIABLES running, deleted,  \* SoftTimer::running, SoftTimer::deleted
          autoReload,        \* SoftTimer::autoReload
          period,            \* SoftTimer::periodTicks
          worker,            \* SoftTimer::worker: the thread it refers to
          pc,                \* where each worker thread is
          left,              \* the ticks until the deadline of each worker
          todo,              \* the steps left of the call each thread is in
          freed,             \* the timer has been deleted from memory
          terminated,        \* std::terminate was called
          age                \* ghost: ticks since the timer was last armed

vars == <<running, deleted, autoReload, period, worker, pc, left, todo,
          freed, terminated, age>>

Threads == Controllers \cup Workers
Periods == 1 .. MaxPeriod

Init == /\ running = FALSE /\ deleted = FALSE
        /\ autoReload \in BOOLEAN
        /\ period \in Periods
        /\ worker = NoThread
        /\ pc = [w \in Workers |-> "none"]
        /\ left = [w \in Workers |-> 0]
        /\ todo = [t \in Threads |-> << >>]
        /\ freed = FALSE /\ terminated = FALSE
        /\ age = 0

-----------------------------------------------------------------------------
(***************************************************************************)
(* The functions as sequences of steps.  xTimerStart returns at its first  *)
(* step if the timer is running; xTimerChangePeriod decides at its first   *)
(* step whether it restarts the timer.                                     *)
(***************************************************************************)
\* Mutants of StartSteps and StopSteps: a start spawns blindly; a stop does
\* not wait for the worker.
StartBlindly == <<"set", "spawn">>
StopWithoutJoin == <<"clear">>

StartSteps == <<"check", "join", "set", "spawn">>
StopSteps  == <<"clear", "join">>

Steps(op) == CASE op = "Start"        -> StartSteps
               [] op = "Stop"         -> StopSteps
               [] op = "Reset"        -> StopSteps \o StartSteps
               [] op = "ChangePeriod" -> <<"look">>
               [] op = "Delete"       -> <<"mark">> \o StopSteps \o <<"free">>

\* A program does not use a timer that it has begun to delete.
Usable == ~ freed /\ \A t \in Threads : "free" \notin {todo[t][i] : i \in DOMAIN todo[t]}

MayCall(t) == IF t \in Controllers THEN Ops
              ELSE IF pc[t] = "callback" THEN CallbackOps ELSE {}

Call(t) ==
  /\ ~ terminated /\ Usable
  /\ todo[t] = << >>
  /\ \E op \in MayCall(t) : todo' = [todo EXCEPT ![t] = Steps(op)]
  /\ UNCHANGED <<autoReload, running, deleted, period, worker, pc, left, freed, terminated, age>>

At(t, step) == ~ terminated /\ todo[t] # << >> /\ Head(todo[t]) = step
Goto(t, steps) == todo' = [todo EXCEPT ![t] = steps]
Done(t) == Goto(t, Tail(todo[t]))

\* if (running.load()) return;
Check(t) == /\ At(t, "check")
            /\ IF running THEN Goto(t, << >>) ELSE Done(t)
            /\ UNCHANGED <<autoReload, running, deleted, period, worker, pc, left, freed, terminated, age>>

\* if (worker.joinable()) worker.join(); -- waits for the thread to end
Join(t) ==
  /\ At(t, "join")
  /\ IF worker = t
       THEN /\ terminated' = TRUE
            /\ UNCHANGED <<worker, pc, todo>>
       ELSE /\ worker # NoThread => pc[worker] = "ended"
            /\ pc' = [w \in Workers |-> IF w = worker THEN "none" ELSE pc[w]]
            /\ worker' = NoThread
            /\ Done(t)
            /\ UNCHANGED terminated
  /\ UNCHANGED <<autoReload, running, deleted, period, left, freed, age>>

\* running = true; before the worker exists
Set(t) == /\ At(t, "set")
          /\ running' = TRUE
          /\ age' = 0
          /\ Done(t)
          /\ UNCHANGED <<autoReload, deleted, period, worker, pc, left, freed, terminated>>

\* worker = std::thread(..): assigning over a joinable thread terminates
Spawn(t) ==
  /\ At(t, "spawn")
  /\ IF worker # NoThread
       THEN /\ terminated' = TRUE
            /\ UNCHANGED <<worker, pc, todo>>
       ELSE \E w \in {v \in Workers : pc[v] = "none"} :
              /\ worker' = w
              /\ pc' = [pc EXCEPT ![w] = "top"]
              /\ Done(t)
              /\ UNCHANGED terminated
  /\ UNCHANGED <<autoReload, running, deleted, period, left, freed, age>>

\* running = false; in stop()
Clear(t) == /\ At(t, "clear")
            /\ running' = FALSE
            /\ Done(t)
            /\ UNCHANGED <<autoReload, deleted, period, worker, pc, left, freed, terminated, age>>

\* bool wasRunning = t->running.load(); in xTimerChangePeriod
Look(t) == /\ At(t, "look")
           /\ Goto(t, IF running THEN StopSteps \o <<"period">> \o StartSteps
                                 ELSE <<"period">>)
           /\ UNCHANGED <<autoReload, running, deleted, period, worker, pc, left, freed, terminated, age>>

SetPeriod(t) == /\ At(t, "period")
                /\ period' \in Periods
                /\ Done(t)
                /\ UNCHANGED <<autoReload, running, deleted, worker, pc, left, freed, terminated, age>>

Mark(t) == /\ At(t, "mark")
           /\ deleted' = TRUE
           /\ Done(t)
           /\ UNCHANGED <<autoReload, running, period, worker, pc, left, freed, terminated, age>>

Free(t) == /\ At(t, "free")
           /\ freed' = TRUE
           /\ Done(t)
           /\ UNCHANGED <<autoReload, running, deleted, period, worker, pc, left, terminated, age>>

Step(t) == \/ Check(t) \/ Join(t) \/ Set(t) \/ Spawn(t) \/ Clear(t)
           \/ Look(t) \/ SetPeriod(t) \/ Mark(t) \/ Free(t)

-----------------------------------------------------------------------------
(***************************************************************************)
(* The worker thread.                                                      *)
(***************************************************************************)
Go(w, place) == ~ terminated /\ pc' = [pc EXCEPT ![w] = place]

\* while (running && !deleted) { deadline = now + period; ..
Top(w) ==
  /\ pc[w] = "top"
  /\ IF running /\ ~ deleted
       THEN Go(w, "sleep") /\ left' = [left EXCEPT ![w] = period]
       ELSE Go(w, "ended") /\ UNCHANGED left
  /\ UNCHANGED <<autoReload, running, deleted, period, worker, todo, freed, terminated, age>>

\* Mutant of Quit: the sleeping worker looks at the deleted flag only.
QuitIfDeleted(w) == /\ pc[w] = "sleep"
                    /\ deleted
                    /\ Go(w, "ended")
                    /\ UNCHANGED <<autoReload, running, deleted, period, worker, left, todo, freed, terminated, age>>

\* A poll of the flags, before or after the deadline, that finds the timer stopped.
Quit(w) == /\ pc[w] = "sleep"
           /\ ~ running \/ deleted
           /\ Go(w, "ended")
           /\ UNCHANGED <<autoReload, running, deleted, period, worker, left, todo, freed, terminated, age>>

\* Mutant of Fire: the deadline is not awaited.
FireAtOnce(w) == /\ pc[w] = "sleep"
                 /\ running /\ ~ deleted
                 /\ Go(w, "callback")
                 /\ age' = 0
                 /\ UNCHANGED <<autoReload, running, deleted, period, worker, left, todo, freed, terminated>>

\* The deadline has passed and the last look at the flags finds them set.
Fire(w) == /\ pc[w] = "sleep"
           /\ left[w] = 0
           /\ running /\ ~ deleted
           /\ Go(w, "callback")
           /\ age' = 0
           /\ UNCHANGED <<autoReload, running, deleted, period, worker, left, todo, freed, terminated>>

\* The callback returns; a one-shot timer is no longer running.
CallbackReturns(w) ==
  /\ pc[w] = "callback"
  /\ todo[w] = << >>
  /\ IF autoReload THEN Go(w, "top") /\ UNCHANGED running
                   ELSE Go(w, "ended") /\ running' = FALSE
  /\ UNCHANGED <<autoReload, deleted, period, worker, left, todo, freed, terminated, age>>

Work(w) == Top(w) \/ Quit(w) \/ Fire(w) \/ CallbackReturns(w)

Tick == /\ left' = [w \in Workers |-> IF left[w] > 0 THEN left[w] - 1 ELSE 0]
        /\ age' = IF age < MaxPeriod THEN age + 1 ELSE age
        /\ UNCHANGED <<autoReload, running, deleted, period, worker, pc, todo, freed, terminated>>

Next == \/ \E t \in Threads : Call(t) \/ Step(t)
        \/ \E w \in Workers : Work(w)
        \/ Tick

Spec == Init /\ [][Next]_vars

(***************************************************************************)
(* Every thread is scheduled, callbacks return and time passes.  No thread *)
(* has to make a call.                                                     *)
(***************************************************************************)
FairSpec == /\ Spec
            /\ \A t \in Threads : WF_vars(Step(t))
            /\ \A w \in Workers : WF_vars(Work(w))
            /\ WF_vars(Tick)

-----------------------------------------------------------------------------
(***************************************************************************)
(* Properties                                                              *)
(***************************************************************************)
\* The flags, the thread object and the program counters are well typed.
TypeOK ==
  /\ {running, deleted, autoReload, freed, terminated} \subseteq BOOLEAN
  /\ period \in Periods /\ age \in 0 .. MaxPeriod
  /\ worker \in Workers \cup {NoThread}
  /\ pc \in [Workers -> {"none", "top", "sleep", "callback", "ended"}]
  /\ left \in [Workers -> 0 .. MaxPeriod]
  /\ DOMAIN todo = Threads

Live  == {w \in Workers : pc[w] \in {"top", "sleep", "callback"}}
Quiet == \A t \in Threads : todo[t] = << >>

\* The worker threads never end in std::terminate, unless a callback stops its
\* own timer, or starts it after a stop: it then joins the thread it runs in.
NeverTerminates ==
  terminated => \E w \in Workers : pc[w] = "callback" /\ todo[w] # << >> /\ Head(todo[w]) = "join"

\* However the calls follow each other, a timer never has two workers, and
\* between calls it has one exactly if xTimerIsTimerActive says it is active:
\* no callback comes after a stop has returned, and no timer that looks
\* active is dead.
ActiveIffWorker == /\ Cardinality(Live) <= 1
                   /\ Quiet => (running <=> Live # {})

\* xTimerDelete frees the timer only when no thread is left that uses it.
NothingUsesFreedTimer == freed => Live = {} /\ worker = NoThread

\* The callback never comes early: since the timer was started, or since its
\* last callback, at least the period that is in force has passed.
NeverEarly == [][\A w \in Workers :
                   pc[w] # "callback" /\ pc'[w] = "callback" => age >= period]_vars

\* Calls return (a stop waits for at most one callback), and an active timer
\* fires unless it is stopped or deleted first.
TimerLives == /\ \A t \in Threads : todo[t] # << >> ~> todo[t] = << >> \/ terminated
              /\ running ~> (\E w \in Workers : pc[w] = "callback") \/ ~ running \/ terminated
=============================================================================
