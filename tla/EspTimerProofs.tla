---------------------------- MODULE EspTimerProofs ----------------------------
(***************************************************************************)
(* Proofs about EspTimer, for any controllers, periods and modes.  None of  *)
(* the four properties is inductive.  What is added to them says what the   *)
(* calls under way still have to do: IInv is their conjunction.             *)
(***************************************************************************)
EXTENDS EspTimer, TLAPS

\* What may be left of a call.
Scripts == {<< >>, <<"period", "mode", "run">>, <<"mode", "run">>, <<"run">>, <<"stop">>,
            <<"kill", "clear", "join", "free">>, <<"clear", "join", "free">>,
            <<"join", "free">>, <<"free">>}

Types ==
  /\ running \in BOOLEAN /\ alive \in BOOLEAN /\ periodic \in BOOLEAN
  /\ period \in 0 .. MaxPeriod
  /\ pc \in {"loop", "armed", "sleep", "callback", "expire", "ended"}
  /\ left \in 0 .. MaxPeriod
  /\ todo \in [Controllers -> Scripts]
  /\ request \in [Controllers -> Requests]
  /\ freed \in BOOLEAN
  /\ age \in 0 .. MaxPeriod
  /\ fired \in 0 .. 2
  /\ fresh \in BOOLEAN

\* Who is about to free the timer has joined the worker.
FreeAfterEnd == \A c \in Controllers : todo[c] = <<"free">> => pc = "ended"

\* A callback whose timer does not run is one that a delete is waiting for.
CallbackRuns == pc = "callback" => running \/ \E c \in Controllers : todo[c] = <<"join", "free">>

\* Unless a start is about to count anew, a one-shot timer has fired at most
\* once, and then it is done or is about to notice.
FiredOnce ==
  (\A c \in Controllers : todo[c] # <<"run">>) /\ ~ periodic
    => fired = 0 \/ (fired = 1 /\ (Locked \/ ~ running))

\* A sleep that began after the last start is not over before the period.
SleepIsLong == pc = "sleep" /\ fresh => age + left >= period

IInv == /\ Types
        /\ NothingUsesFreedTimer /\ FreeAfterEnd
        /\ CallbackRuns
        /\ FiredOnce
        /\ SleepIsLong

-----------------------------------------------------------------------------
\* A call goes on as it is written.
LEMMA HeadsAndTails ==
  /\ Head(<<"run">>) = "run" /\ Tail(<<"run">>) = << >>
  /\ Head(<<"stop">>) = "stop" /\ Tail(<<"stop">>) = << >>
  /\ Head(<<"free">>) = "free" /\ Tail(<<"free">>) = << >>
  /\ Head(<<"mode", "run">>) = "mode" /\ Tail(<<"mode", "run">>) = <<"run">>
  /\ Head(<<"join", "free">>) = "join" /\ Tail(<<"join", "free">>) = <<"free">>
  /\ Head(<<"period", "mode", "run">>) = "period" /\ Tail(<<"period", "mode", "run">>) = <<"mode", "run">>
  /\ Head(<<"clear", "join", "free">>) = "clear" /\ Tail(<<"clear", "join", "free">>) = <<"join", "free">>
  /\ Head(<<"kill", "clear", "join", "free">>) = "kill" /\ Tail(<<"kill", "clear", "join", "free">>) = <<"clear", "join", "free">>
OBVIOUS

LEMMA ScriptSteps ==
  ASSUME NEW s \in Scripts, s # << >>
  PROVE  /\ Head(s) = "period" => Tail(s) = <<"mode", "run">>
         /\ Head(s) = "mode" => Tail(s) = <<"run">>
         /\ Head(s) \in {"run", "stop", "free"} => Tail(s) = << >>
         /\ Head(s) = "kill" => Tail(s) = <<"clear", "join", "free">>
         /\ Head(s) = "clear" => Tail(s) = <<"join", "free">>
         /\ Head(s) = "join" => Tail(s) = <<"free">>
  <1>1. CASE s = <<"run">>
    BY <1>1, HeadsAndTails
  <1>2. CASE s = <<"stop">>
    BY <1>2, HeadsAndTails
  <1>3. CASE s = <<"free">>
    BY <1>3, HeadsAndTails
  <1>4. CASE s = <<"mode", "run">>
    BY <1>4, HeadsAndTails
  <1>5. CASE s = <<"join", "free">>
    BY <1>5, HeadsAndTails
  <1>6. CASE s = <<"period", "mode", "run">>
    BY <1>6, HeadsAndTails
  <1>7. CASE s = <<"clear", "join", "free">>
    BY <1>7, HeadsAndTails
  <1>8. CASE s = <<"kill", "clear", "join", "free">>
    BY <1>8, HeadsAndTails
  <1> QED
    BY <1>1, <1>2, <1>3, <1>4, <1>5, <1>6, <1>7, <1>8 DEF Scripts

\* What may come before, and what begins with, the scripts that IInv names.
LEMMA ScriptsDiffer ==
  \A s \in Scripts : /\ s = <<"run">> => s # << >> /\ Head(s) = "run"
                     /\ s = <<"free">> => s # << >> /\ Head(s) = "free"
                     /\ s = <<"join", "free">> => s # << >> /\ Head(s) = "join"
BY HeadsAndTails

LEMMA StepBefore ==
  ASSUME NEW s \in Scripts, s # << >>
  PROVE  /\ Tail(s) = <<"free">> => Head(s) = "join"
         /\ Tail(s) = <<"run">> => Head(s) = "mode"
  <1>1. \A t \in {<< >>, <<"mode", "run">>, <<"clear", "join", "free">>, <<"join", "free">>} :
          t # <<"free">> /\ t # <<"run">>
    BY HeadsAndTails
  <1>2. <<"run">> # <<"free">>
    BY HeadsAndTails
  <1>3. Head(s) \in {"period", "mode", "run", "stop", "free", "kill", "clear", "join"}
    BY HeadsAndTails DEF Scripts
  <1> QED
    BY <1>1, <1>2, <1>3, ScriptSteps

\* What a step of a call does to the scripts.
LEMMA Taken ==
  ASSUME Types, NEW c \in Controllers, NEW step, Takes(c, step)
  PROVE  /\ todo[c] \in Scripts /\ todo[c] # << >> /\ Head(todo[c]) = step
         /\ todo'[c] = Tail(todo[c])
         /\ \A d \in Controllers : d # c => todo'[d] = todo[d]
         /\ \A d \in Controllers : todo[d] \in Scripts
         /\ DOMAIN todo' = Controllers /\ todo' = [d \in Controllers |-> todo'[d]]
         /\ pc' = pc /\ left' = left /\ request' = request
BY DEF Takes, Types

LEMMA TypesStep == Types /\ [Next]_vars => Types'
  <1> SUFFICES ASSUME Types, [Next]_vars PROVE Types'
    OBVIOUS
  <1> USE EspTimerAssumption
  <1>1. ASSUME NEW c \in Controllers, Start(c) PROVE Types'
    BY <1>1 DEF Start, MayCall, Types, fields, Scripts
  <1>2. ASSUME NEW c \in Controllers, Stop(c) PROVE Types'
    BY <1>2 DEF Stop, MayCall, Types, fields, Scripts
  <1>3. ASSUME NEW c \in Controllers, Delete(c) PROVE Types'
    BY <1>3 DEF Delete, MayCall, Types, fields, Scripts
  <1>4. ASSUME NEW c \in Controllers, Step(c) PROVE Types'
    <2>1. PICK step \in {"period", "mode", "run", "stop", "kill", "clear", "join", "free"} :
               Takes(c, step)
      BY <1>4 DEF Step, SetPeriod, SetMode, SetRunning, Halt, Kill, Clear, Join, Free
    <2>2. Tail(todo[c]) \in Scripts
      <3>1. todo[c] \in Scripts /\ todo[c] # << >> /\ Head(todo[c]) = step
        BY <2>1, Taken
      <3> QED
        BY <3>1, ScriptSteps DEF Scripts
    <2>3. todo' \in [Controllers -> Scripts] /\ UNCHANGED <<request, pc, left>>
      BY <2>1, <2>2 DEF Takes, Types
    <2>4. request[c].period \in 0 .. MaxPeriod
      BY DEF Types, Requests, Periods
    <2>5. CASE SetMode(c)
      <3>1. periodic' \in BOOLEAN
        BY <2>5, SMT DEF SetMode
      <3>2. UNCHANGED <<running, alive, period, freed, age, fired, fresh>>
        BY <2>5, Zenon DEF SetMode
      <3> QED
        BY <2>3, <3>1, <3>2 DEF Types
    <2>6. CASE SetPeriod(c)
      BY <2>3, <2>4, <2>6 DEF SetPeriod, Types
    <2>7. CASE SetRunning(c)
      <3>1. /\ running' \in BOOLEAN /\ age' = 0 /\ fired' = 0 /\ fresh' \in BOOLEAN
            /\ UNCHANGED <<alive, periodic, period, freed>>
        BY <2>7, Zenon DEF SetRunning
      <3> QED
        BY <2>3, <3>1 DEF Types, EspTimerAssumption
    <2>8. CASE Halt(c) \/ Kill(c) \/ Clear(c)
      BY <2>3, <2>8 DEF Halt, Kill, Clear, Types
    <2>9. CASE Join(c) \/ Free(c)
      BY <2>3, <2>9 DEF Join, Free, Types, fields
    <2> QED
      BY <1>4, <2>5, <2>6, <2>7, <2>8, <2>9 DEF Step
  <1>5. CASE Loop
    BY <1>5 DEF Loop, Types, fields
  <1>6. CASE Arm
    BY <1>6 DEF Arm, Types, fields
  <1>7. CASE Wake
    BY <1>7 DEF Wake, Slept, Types, fields
  <1>8. CASE CallbackReturns \/ Expire
    BY <1>8 DEF CallbackReturns, Expire, Types, fields
  <1>9. CASE Tick
    BY <1>9 DEF Tick, Types, fields
  <1>10. CASE UNCHANGED vars
    BY <1>10 DEF vars, Types, fields
  <1> QED
    BY <1>1, <1>2, <1>3, <1>4, <1>5, <1>6, <1>7, <1>8, <1>9, <1>10 DEF Next, Worker

\* A call that begins is none of the scripts of IInv.
LEMMA CallBegins ==
  ASSUME Types, NEW c \in Controllers, Start(c) \/ Stop(c) \/ Delete(c)
  PROVE  /\ todo[c] = << >> /\ Usable
         /\ \A d \in Controllers : d # c => todo'[d] = todo[d]
         /\ todo'[c] \notin {<<"run">>, <<"free">>, <<"join", "free">>}
         /\ UNCHANGED <<fields, pc, left, freed, age, fired, fresh>>
  <1>1. {<<"period", "mode", "run">>, <<"stop">>, <<"kill", "clear", "join", "free">>}
          \cap {<<"run">>, <<"free">>, <<"join", "free">>} = {}
    BY HeadsAndTails
  <1>2. /\ todo[c] = << >> /\ Usable
        /\ UNCHANGED <<fields, pc, left, freed, age, fired, fresh>>
    BY DEF Start, Stop, Delete, MayCall
  <1>3. \E s \in {<<"period", "mode", "run">>, <<"stop">>, <<"kill", "clear", "join", "free">>} :
          todo' = [todo EXCEPT ![c] = s]
    BY DEF Start, Stop, Delete
  <1> QED
    BY <1>1, <1>2, <1>3 DEF Types

\* The steps of the worker and the clock leave the calls alone.
LEMMA WorkerOrTick ==
  ASSUME Worker \/ Tick \/ UNCHANGED vars
  PROVE  todo' = todo /\ freed' = freed /\ periodic' = periodic /\ period' = period
BY DEF Worker, Loop, Arm, Wake, CallbackReturns, Expire, Tick, vars, fields

LEMMA FreedStep ==
  Types /\ NothingUsesFreedTimer /\ FreeAfterEnd /\ [Next]_vars
    => (NothingUsesFreedTimer /\ FreeAfterEnd)'
  <1> SUFFICES ASSUME Types, NothingUsesFreedTimer, FreeAfterEnd, [Next]_vars
               PROVE  NothingUsesFreedTimer' /\ FreeAfterEnd'
    OBVIOUS
  <1>1. ASSUME NEW c \in Controllers, Start(c) \/ Stop(c) \/ Delete(c)
        PROVE  NothingUsesFreedTimer' /\ FreeAfterEnd'
    BY <1>1, CallBegins DEF NothingUsesFreedTimer, FreeAfterEnd
  <1>2. ASSUME NEW c \in Controllers, Step(c)
        PROVE  NothingUsesFreedTimer' /\ FreeAfterEnd'
    <2>1. CASE Join(c)
      BY <2>1, Taken DEF Join, NothingUsesFreedTimer, FreeAfterEnd
    <2>2. CASE Free(c)
      <3>1. todo[c] = <<"free">>
        BY <2>2, Taken, HeadsAndTails DEF Free, Scripts
      <3> QED
        BY <2>2, <3>1, Taken, StepBefore DEF Free, NothingUsesFreedTimer, FreeAfterEnd
    <2>3. CASE ~ Join(c) /\ ~ Free(c)
      <3>1. PICK step \in {"period", "mode", "run", "stop", "kill", "clear"} :
                 Takes(c, step) /\ freed' = freed
        BY <1>2, <2>3 DEF Step, SetPeriod, SetMode, SetRunning, Halt, Kill, Clear
      <3> QED
        BY <3>1, Taken, StepBefore DEF NothingUsesFreedTimer, FreeAfterEnd
    <2> QED
      BY <2>1, <2>2, <2>3
  <1>3. CASE Worker \/ Tick \/ UNCHANGED vars
    <2>1. pc = "ended" => pc' = "ended"
      BY <1>3 DEF Worker, Loop, Arm, Wake, Slept, CallbackReturns, Expire, Tick, vars
    <2> QED
      BY <1>3, <2>1, WorkerOrTick DEF NothingUsesFreedTimer, FreeAfterEnd
  <1> QED
    BY <1>1, <1>2, <1>3 DEF Next

LEMMA CallbackRunsStep == Types /\ CallbackRuns /\ [Next]_vars => CallbackRuns'
  <1> SUFFICES ASSUME Types, CallbackRuns, [Next]_vars, pc' = "callback"
               PROVE  running' \/ \E c \in Controllers : todo'[c] = <<"join", "free">>
    BY DEF CallbackRuns
  <1>1. ASSUME NEW c \in Controllers, Start(c) \/ Stop(c) \/ Delete(c)
        PROVE  running' \/ \E d \in Controllers : todo'[d] = <<"join", "free">>
    <2>1. << >> # <<"join", "free">>
      BY HeadsAndTails
    <2> QED
      BY <1>1, <2>1, CallBegins DEF CallbackRuns, fields
  <1>2. ASSUME NEW c \in Controllers, Step(c)
        PROVE  running' \/ \E d \in Controllers : todo'[d] = <<"join", "free">>
    <2>1. CASE Halt(c)
      BY <2>1, Taken DEF Halt, Locked
    <2>2. CASE Clear(c)
      BY <2>2, Taken, ScriptSteps DEF Clear
    <2>3. CASE Join(c)
      BY <2>3, Taken DEF Join
    <2>4. CASE SetRunning(c)
      BY <2>4 DEF SetRunning
    <2>5. CASE SetPeriod(c) \/ SetMode(c) \/ Kill(c) \/ Free(c)
      <3>1. PICK step \in {"period", "mode", "kill", "free"} :
                 Takes(c, step) /\ running' = running
        BY <2>5 DEF SetPeriod, SetMode, Kill, Free, fields
      <3>2. todo[c] # <<"join", "free">>
        BY <3>1, Taken, ScriptsDiffer
      <3> QED
        BY <3>1, <3>2, Taken DEF CallbackRuns
    <2> QED
      BY <1>2, <2>1, <2>2, <2>3, <2>4, <2>5 DEF Step
  <1>3. CASE Worker \/ Tick \/ UNCHANGED vars
    <2>1. running' \/ (pc = "callback" /\ running' = running)
      BY <1>3 DEF Worker, Loop, Arm, Wake, CallbackReturns, Expire, Tick, vars, fields
    <2> QED
      BY <1>3, <2>1, WorkerOrTick DEF CallbackRuns
  <1> QED
    BY <1>1, <1>2, <1>3 DEF Next

LEMMA FiredOnceStep == Types /\ FiredOnce /\ [Next]_vars => FiredOnce'
  <1> SUFFICES ASSUME Types, FiredOnce, [Next]_vars,
                      \A c \in Controllers : todo'[c] # <<"run">>, ~ periodic'
               PROVE  fired' = 0 \/ (fired' = 1 /\ (Locked' \/ ~ running'))
    BY DEF FiredOnce
  <1>1. ASSUME NEW c \in Controllers, Start(c) \/ Stop(c) \/ Delete(c)
        PROVE  fired' = 0 \/ (fired' = 1 /\ (Locked' \/ ~ running'))
    <2>1. << >> # <<"run">>
      BY HeadsAndTails
    <2>2. \A d \in Controllers : todo[d] # <<"run">>
      BY <1>1, <2>1, CallBegins
    <2> QED
      BY <1>1, <2>2, CallBegins DEF FiredOnce, fields, Locked
  <1>2. ASSUME NEW c \in Controllers, Step(c)
        PROVE  fired' = 0 \/ (fired' = 1 /\ (Locked' \/ ~ running'))
    <2>1. CASE SetRunning(c)
      BY <2>1, Zenon DEF SetRunning
    <2>2. CASE SetMode(c)
      BY <2>2, Taken, ScriptSteps DEF SetMode
    <2>3. CASE ~ SetRunning(c) /\ ~ SetMode(c)
      <3>1. PICK step \in {"period", "stop", "kill", "clear", "join", "free"} : Takes(c, step)
        BY <1>2, <2>3 DEF Step, SetPeriod, Halt, Kill, Clear, Join, Free
      <3>2. \A d \in Controllers : todo[d] # <<"run">>
        BY <3>1, Taken, ScriptsDiffer
      <3>3. periodic' = periodic /\ fired' = fired /\ pc' = pc
        BY <1>2, <2>3, Zenon DEF Step, SetPeriod, Halt, Kill, Clear, Join, Free, Takes, fields
      <3>4. ~ running => ~ running'
        BY <1>2, <2>3, Zenon DEF Step, SetPeriod, Halt, Kill, Clear, Join, Free, fields
      <3> QED
        BY <3>2, <3>3, <3>4 DEF FiredOnce, Locked
    <2> QED
      BY <2>1, <2>2, <2>3
  <1>3. CASE Worker \/ Tick \/ UNCHANGED vars
    <2>1. fired = 0 \/ (fired = 1 /\ (Locked \/ ~ running))
      BY <1>3, WorkerOrTick DEF FiredOnce
    <2>2. ~ periodic
      BY <1>3, WorkerOrTick
    <2>3. CASE Wake
      BY <2>1, <2>3 DEF Wake, Slept, Locked, Types, fields
    <2>4. CASE CallbackReturns \/ Expire
      BY <2>1, <2>2, <2>4 DEF CallbackReturns, Expire, Locked, fields
    <2>5. CASE Loop \/ Arm
      BY <2>1, <2>5 DEF Loop, Arm, Locked, fields
    <2>6. CASE Tick \/ UNCHANGED vars
      BY <2>1, <2>6 DEF Tick, Locked, fields, vars
    <2> QED
      BY <1>3, <2>3, <2>4, <2>5, <2>6 DEF Worker
  <1> QED
    BY <1>1, <1>2, <1>3 DEF Next

LEMMA SleepIsLongStep == Types /\ SleepIsLong /\ [Next]_vars => SleepIsLong'
  <1> SUFFICES ASSUME Types, SleepIsLong, [Next]_vars, pc' = "sleep", fresh'
               PROVE  age' + left' >= period'
    BY DEF SleepIsLong
  <1>1. ASSUME NEW c \in Controllers, Start(c) \/ Stop(c) \/ Delete(c)
        PROVE  age' + left' >= period'
    BY <1>1, CallBegins DEF SleepIsLong, fields
  <1>2. ASSUME NEW c \in Controllers, Step(c)
        PROVE  age' + left' >= period'
    <2>1. ~ SetPeriod(c) /\ ~ SetRunning(c)
      BY DEF SetPeriod, SetRunning
    <2>2. UNCHANGED <<pc, left, fresh, age, period>>
      BY <1>2, <2>1 DEF Step, SetMode, Halt, Kill, Clear, Join, Free, Takes, fields
    <2> QED
      BY <2>2 DEF SleepIsLong
  <1>3. CASE Loop \/ Arm
    BY <1>3 DEF Loop, Arm, Types, fields
  <1>4. CASE Wake \/ CallbackReturns \/ Expire
    BY <1>4 DEF Wake, CallbackReturns, Expire
  <1>5. CASE Tick
    BY <1>5, EspTimerAssumption DEF Tick, SleepIsLong, Types, fields, EspTimerAssumption
  <1>6. CASE UNCHANGED vars
    BY <1>6 DEF vars, SleepIsLong, fields
  <1> QED
    BY <1>1, <1>2, <1>3, <1>4, <1>5, <1>6 DEF Next, Worker

-----------------------------------------------------------------------------
THEOREM Invariant == Spec => []IInv
  <1>1. Init => IInv
    <2> SUFFICES ASSUME Init PROVE IInv
      OBVIOUS
    <2>1. Types
      <3>1. /\ running \in BOOLEAN /\ alive \in BOOLEAN /\ periodic \in BOOLEAN
            /\ freed \in BOOLEAN /\ fresh \in BOOLEAN
        BY Zenon DEF Init
      <3>2. todo \in [Controllers -> Scripts]
        BY DEF Init, Scripts
      <3>3. /\ period = 0 /\ pc = "loop" /\ left = 0 /\ age = 0 /\ fired = 0
            /\ request \in [Controllers -> Requests]
        BY DEF Init
      <3> QED
        BY <3>1, <3>2, <3>3, EspTimerAssumption DEF Types, EspTimerAssumption
    <2>2. << >> # <<"free">>
      BY HeadsAndTails
    <2> QED
      BY <2>1, <2>2 DEF Init, IInv, NothingUsesFreedTimer, FreeAfterEnd, CallbackRuns,
                        FiredOnce, SleepIsLong
  <1>2. IInv /\ [Next]_vars => IInv'
    BY TypesStep, FreedStep, CallbackRunsStep, FiredOnceStep, SleepIsLongStep DEF IInv
  <1> QED
    BY <1>1, <1>2, PTL DEF Spec

\* esp_timer_delete frees the timer only when its worker has ended, whatever
\* else was called, in whatever order, by however many threads.
THEOREM NothingFreedIsUsed == Spec => []NothingUsesFreedTimer
  <1>1. IInv => NothingUsesFreedTimer
    BY DEF IInv
  <1> QED
    BY <1>1, Invariant, PTL

\* Once every call has returned and the timer does not run, no callback runs.
THEOREM StopsSilence == Spec => []StoppedIsSilent
  <1>1. IInv => StoppedIsSilent
    <2>1. << >> # <<"join", "free">>
      BY HeadsAndTails
    <2> QED
      BY <2>1 DEF IInv, CallbackRuns, StoppedIsSilent, Quiet
  <1> QED
    BY <1>1, Invariant, PTL

\* A timer whose last start was start_once fires once at most, whatever starts
\* came before or at the same time.
THEOREM OnceFiresOnce == Spec => []OnceIsOnce
  <1>1. IInv => OnceIsOnce
    <2>1. << >> # <<"run">>
      BY HeadsAndTails
    <2> QED
      BY <2>1 DEF IInv, FiredOnce, OnceIsOnce, Quiet
  <1> QED
    BY <1>1, Invariant, PTL

\* No callback comes early, unless its sleep began before the last start.
THEOREM NeverEarly == Spec => NeverEarlyUnlessRestarted
  <1>1. IInv /\ [Next]_vars
          => [pc # "callback" /\ pc' = "callback" /\ Quiet /\ fresh => age >= period]_vars
    <2> SUFFICES ASSUME IInv, Next, pc # "callback", pc' = "callback", fresh
                 PROVE  age >= period
      BY DEF vars
    <2>1. Wake
      BY CallBegins, Taken DEF IInv, Next, Step, SetPeriod, SetMode, SetRunning, Halt, Kill,
         Clear, Join, Free, Takes, Worker, Loop, Arm, CallbackReturns, Expire, Tick
    <2> QED
      BY <2>1 DEF Wake, Slept, IInv, SleepIsLong, Types
  <1> QED
    BY <1>1, Invariant, PTL DEF Spec, NeverEarlyUnlessRestarted
=============================================================================
