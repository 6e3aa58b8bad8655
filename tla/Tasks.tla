------------------------------- MODULE Tasks -------------------------------
(***************************************************************************)
(* Tasks of include/freertos/FreeRTOS.h: a host thread and a TaskRecord     *)
(* each, the list of records under its mutex, and cleanupTasks, which the   *)
(* main thread calls.  Main and every task may create tasks.                *)
(*                                                                         *)
(* xTaskCreate gives its caller no lock: it starts the thread, then lists   *)
(* the record, then reads the record once more for its message.             *)
(***************************************************************************)
EXTENDS FiniteSets, SequencesExt

CONSTANTS Main,      \* the thread of setup(), loop() and the tests
          TaskIds,   \* the tasks there may ever be
          Endless    \* those whose function never returns

Creators == TaskIds \cup {Main}
Free == <<"free">>     \* a creator that is not inside xTaskCreate

VARIABLES
  record,    \* "none", "live" or "deleted", of each task
  body,      \* "none", "runs" or "ended": the thread of each task
  taskList,  \* the records listed, oldest first
  snapshot,  \* what cleanupTasks has still to join and delete
  cleaning,  \* Main is in cleanupTasks
  creating,  \* <<step, task>> of each creator inside xTaskCreate
  asked,     \* the tasks whose running flag is off
  misread    \* the creators that have read a deleted record

vars == <<record, body, taskList, snapshot, cleaning, creating, asked, misread>>

Init == /\ record = [t \in TaskIds |-> "none"]
        /\ body = [t \in TaskIds |-> "none"]
        /\ taskList = << >> /\ snapshot = << >>
        /\ cleaning = FALSE
        /\ creating = [c \in Creators |-> Free]
        /\ asked = {}
        /\ misread = {}

CanAct(c) == /\ creating[c] = Free
             /\ IF c = Main THEN ~ cleaning ELSE body[c] = "runs"

-----------------------------------------------------------------------------
(***************************************************************************)
(* xTaskCreate, in three steps.                                            *)
(***************************************************************************)
StartThread(c, t) ==
  /\ CanAct(c)
  /\ record[t] = "none"
  /\ record' = [record EXCEPT ![t] = "live"]
  /\ body' = [body EXCEPT ![t] = "runs"]
  /\ creating' = [creating EXCEPT ![c] = <<"list", t>>]
  /\ UNCHANGED <<taskList, snapshot, cleaning, asked, misread>>

List(c, t) ==
  /\ creating[c] = <<"list", t>>
  /\ taskList' = Append(taskList, t)
  /\ creating' = [creating EXCEPT ![c] = <<"report", t>>]
  /\ UNCHANGED <<record, body, snapshot, cleaning, asked, misread>>

Report(c, t) ==
  /\ creating[c] = <<"report", t>>
  /\ creating' = [creating EXCEPT ![c] = Free]
  /\ misread' = IF record[t] = "deleted" THEN misread \cup {c} ELSE misread
  /\ UNCHANGED <<record, body, taskList, snapshot, cleaning, asked>>

\* The function of a task returns, for example behind vTaskDelete(NULL).
EndTask(t) ==
  /\ t \notin Endless
  /\ body[t] = "runs" /\ creating[t] = Free
  /\ body' = [body EXCEPT ![t] = "ended"]
  /\ UNCHANGED <<record, taskList, snapshot, cleaning, creating, asked, misread>>

\* vTaskDelete of a live task turns its flag off, which no task looks at.
Delete(c, t) ==
  /\ CanAct(c)
  /\ record[t] = "live" /\ t \notin asked
  /\ asked' = asked \cup {t}
  /\ UNCHANGED <<record, body, taskList, snapshot, cleaning, creating, misread>>

-----------------------------------------------------------------------------
(***************************************************************************)
(* cleanupTasks: swap the list under the mutex, then join and delete.       *)
(***************************************************************************)
Swap ==
  /\ CanAct(Main)
  /\ cleaning' = TRUE
  /\ snapshot' = taskList
  /\ taskList' = << >>
  /\ UNCHANGED <<record, body, creating, asked, misread>>

\* Mutant of Joined: the thread is not waited for.
Detached(t) == TRUE

Joined(t) == body[t] = "ended"

JoinAndDelete ==
  /\ snapshot # << >>
  /\ LET t == Head(snapshot)
     IN  /\ Joined(t)
         /\ record' = [record EXCEPT ![t] = "deleted"]
         /\ asked' = asked \cup {t}
  /\ snapshot' = Tail(snapshot)
  /\ UNCHANGED <<body, taskList, cleaning, creating, misread>>

\* Mutant of FinishCleanup: the list is emptied at the end.
FinishAndClear ==
  /\ cleaning /\ snapshot = << >>
  /\ cleaning' = FALSE /\ taskList' = << >>
  /\ UNCHANGED <<record, body, snapshot, creating, asked, misread>>

\* Mutant of FinishCleanup: tasks made meanwhile are waited for too.
FinishUntilEmpty ==
  /\ cleaning /\ snapshot = << >>
  /\ cleaning' = (taskList # << >>)
  /\ snapshot' = taskList /\ taskList' = << >>
  /\ UNCHANGED <<record, body, creating, asked, misread>>

FinishCleanup ==
  /\ cleaning /\ snapshot = << >>
  /\ cleaning' = FALSE
  /\ UNCHANGED <<record, body, taskList, snapshot, creating, asked, misread>>

Create(c) == \E t \in TaskIds : StartThread(c, t)
Creating(c) == \E t \in TaskIds : List(c, t) \/ Report(c, t)
Cleanup == JoinAndDelete \/ FinishCleanup

Next == \/ \E c \in Creators : Create(c) \/ Creating(c) \/ \E t \in TaskIds : Delete(c, t)
        \/ \E t \in TaskIds : EndTask(t)
        \/ Swap \/ Cleanup

\* Threads run on; a function that can return returns.
Fairness == /\ WF_vars(Cleanup)
            /\ \A c \in Creators : WF_vars(Creating(c))
            /\ \A t \in TaskIds : WF_vars(EndTask(t))

Spec == Init /\ [][Next]_vars /\ Fairness

-----------------------------------------------------------------------------
Listed(t) == t \in ToSet(taskList) \cup ToSet(snapshot)

\* A record is deleted only after its thread has ended, and the main thread,
\* which is never inside xTaskCreate while it cleans up, reads none that is
\* deleted.  A task that creates tasks has no such promise.
DeletedIsOver ==
  /\ \A t \in TaskIds : record[t] = "deleted" => body[t] = "ended" /\ ~ Listed(t)
  /\ Main \notin misread

\* A task that is not being made is listed, for this cleanup or the next one,
\* until its record is deleted: also one that is made while a cleanup runs.
NoTaskIsForgotten ==
  \A t \in TaskIds :
    record[t] = "live" /\ (\A c \in Creators : creating[c] # <<"list", t>>) => Listed(t)

\* cleanupTasks returns when no task it has to join is endless, however many
\* tasks are made meanwhile; vTaskDelete does not make an endless one return.
CleanupReturns ==
  cleaning /\ ToSet(snapshot) \cap Endless = {} ~> ~ cleaning
=============================================================================
