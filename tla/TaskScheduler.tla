--------------------------- MODULE TaskScheduler ---------------------------
(***************************************************************************)
(* The cooperative Scheduler and its Tasks of include/TaskScheduler.h.      *)
(* loop() calls execute, which runs every enabled task once; the callback   *)
(* of a task, and its disable hook, may enable, disable and set any task.   *)
(* They may not add or delete a task: execute iterates over the vector.     *)
(* Intervals play no part, execute does not look at them.  Every task has   *)
(* its callback; one without is never run and never disabled.               *)
(***************************************************************************)
EXTENDS Integers, Sequences, SequencesExt

CONSTANTS Jobs,           \* the tasks
          MaxIterations,  \* bounds what setIterations is given
          MaxListed       \* bounds the vector

Forever == -1
Iterations == {Forever} \union 0..MaxIterations

VARIABLES
  tasks,    \* tasks_, where a task may be twice
  pass,     \* what execute has yet to come to, the task it is at first
  stage,    \* "loop", "task", "callback" or "hook" (on_disable)
  enabled, iterations, max,  \* the fields of each task
  ran,      \* history: callbacks since the last enable or setIterations
  eaten,    \* history: was that inside the callback of the task itself?
  expired   \* history: has the scheduler disabled it since?

tsVars == <<tasks, pass, stage, enabled, iterations, max, ran, eaten, expired>>

SchedulerInit ==
  /\ tasks = <<>> /\ pass = <<>> /\ stage = "loop"
  /\ enabled = [t \in Jobs |-> FALSE]
  /\ iterations = [t \in Jobs |-> Forever] /\ max = [t \in Jobs |-> Forever]
  /\ ran = [t \in Jobs |-> 0]
  /\ eaten = [t \in Jobs |-> FALSE] /\ expired = [t \in Jobs |-> FALSE]

\* Code of the program is running: loop(), a callback or a hook.
ProgramRuns == stage \in {"loop", "callback", "hook"}

\* n iterations are to come; one of them is counted off when the callback
\* that asked for them returns.
Period(t, n) ==
  /\ iterations' = [iterations EXCEPT ![t] = n]
  /\ max' = [max EXCEPT ![t] = n]
  /\ ran' = [ran EXCEPT ![t] = 0]
  /\ eaten' = [eaten EXCEPT ![t] = stage = "callback" /\ t = Head(pass) /\ n > 0]
  /\ expired' = [expired EXCEPT ![t] = FALSE]

\* enable, enableDelayed and restart; on_enable is the program's again.
Enable(t) ==
  /\ ProgramRuns
  /\ enabled' = [enabled EXCEPT ![t] = TRUE]
  /\ Period(t, max[t])
  /\ UNCHANGED <<tasks, pass, stage>>

\* set and setIterations.
SetIterations(t, n) ==
  /\ ProgramRuns /\ Period(t, n)
  /\ UNCHANGED <<tasks, pass, stage, enabled>>

Disable(t) ==
  /\ ProgramRuns
  /\ enabled' = [enabled EXCEPT ![t] = FALSE]
  /\ UNCHANGED <<tasks, pass, stage, iterations, max, ran, eaten, expired>>

Fields == <<enabled, iterations, max, ran, eaten, expired>>

AddTask(t) ==
  /\ stage = "loop" /\ Len(tasks) < MaxListed
  /\ tasks' = Append(tasks, t)
  /\ UNCHANGED <<pass, stage, Fields>>

DeleteTask(t) ==
  /\ stage = "loop"
  /\ tasks' = SelectSeq(tasks, LAMBDA u : u # t)
  /\ UNCHANGED <<pass, stage, Fields>>

-----------------------------------------------------------------------------
Execute ==
  /\ stage = "loop" /\ tasks # <<>>
  /\ pass' = tasks /\ stage' = "task"
  /\ UNCHANGED <<tasks, Fields>>

Advance == pass' = Tail(pass) /\ stage' = IF Len(pass) = 1 THEN "loop" ELSE "task"

Skip ==
  /\ stage = "task" /\ ~ enabled[Head(pass)]
  /\ Advance /\ UNCHANGED <<tasks, Fields>>

\* disable() by the scheduler, whose hook is the program's again.
Expire(t) ==
  /\ enabled' = [enabled EXCEPT ![t] = FALSE]
  /\ expired' = [expired EXCEPT ![t] = TRUE]
  /\ stage' = "hook" /\ UNCHANGED pass

\* Nothing left to run: enabled for no iterations at all.
NothingToRun ==
  LET t == Head(pass) IN
  /\ stage = "task" /\ enabled[t] /\ iterations[t] = 0
  /\ Expire(t)
  /\ UNCHANGED <<tasks, iterations, max, ran, eaten>>

CallBack ==
  LET t == Head(pass) IN
  /\ stage = "task" /\ enabled[t] /\ iterations[t] # 0
  /\ stage' = "callback"
  /\ ran' = [ran EXCEPT ![t] = IF max[t] = Forever THEN 0 ELSE @ + 1]
  /\ UNCHANGED <<tasks, pass, enabled, iterations, max, eaten, expired>>

\* Mutant of CountedOff: a test for >= 1 turned into one for > 1.
CountedOffLate(n) == IF n > 1 THEN n - 1 ELSE n

CountedOff(n) == IF n > 0 THEN n - 1 ELSE n

CallbackReturns ==
  LET t == Head(pass) IN
  /\ stage = "callback"
  /\ iterations' = [iterations EXCEPT ![t] = CountedOff(@)]
  /\ IF iterations'[t] = 0 THEN Expire(t) ELSE Advance /\ UNCHANGED <<enabled, expired>>
  /\ UNCHANGED <<tasks, max, ran, eaten>>

HookReturns == stage = "hook" /\ Advance /\ UNCHANGED <<tasks, Fields>>

SchedulerNext ==
  \/ \E t \in Jobs : \/ Enable(t) \/ Disable(t) \/ AddTask(t) \/ DeleteTask(t)
                     \/ \E n \in Iterations : SetIterations(t, n)
  \/ Execute \/ Skip \/ NothingToRun \/ CallBack \/ CallbackReturns \/ HookReturns

\* The thread of loop() runs on, and callbacks and hooks return.
SchedulerFairness == WF_tsVars(Skip \/ NothingToRun \/ CallBack \/ CallbackReturns \/ HookReturns)

SchedulerSpec == SchedulerInit /\ [][SchedulerNext]_tsVars /\ SchedulerFairness

-----------------------------------------------------------------------------
\* A task that the scheduler disabled because its iterations were used up has
\* run that often since they were set, less the one that is lost when it is
\* enabled or set from its own callback; and no task runs more often.
PeriodsAreWhole == \A t \in Jobs :
  /\ expired[t] => ran[t] = max[t] - (IF eaten[t] THEN 1 ELSE 0)
  /\ max[t] # Forever => ran[t] <= max[t]

\* execute comes to the end of the list whatever the callbacks set.
PassEnds == stage # "loop" ~> stage = "loop"
=============================================================================
