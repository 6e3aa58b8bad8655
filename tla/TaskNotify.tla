----------------------------- MODULE TaskNotify -----------------------------
(***************************************************************************)
(* include/freertos/FreeRTOS.h, task notifications: the TaskNotification   *)
(* of one task, a counter word and a pending flag under one mutex, with    *)
(* one condition variable on which only the task itself ever sleeps (both  *)
(* ulTaskNotifyTake and xTaskNotifyWait work on currentTask).              *)
(*                                                                         *)
(* Any thread notifies; the task notifies itself too when it is in no      *)
(* call.  One action is one stretch of a call under the mutex.  All waits  *)
(* are finite: portMAX_DELAY is 2^32 - 1 milliseconds here.                *)
(***************************************************************************)
EXTENDS Integers, FiniteSetsExt

CONSTANTS Notifiers,  \* the other threads that notify the task
          Task,       \* the task that owns the notification
          Width,      \* the width of the word in bits; 32 in the code
          Notices,    \* the arguments of xTaskNotify the program uses
          TaskCalls,  \* the calls the task makes
          None        \* neither a call nor a value

Words   == 0 .. (2 ^ Width - 1)
Callers == Notifiers \cup {Task}

AllNotices ==
  [action : {"eNoAction", "eSetBits", "eIncrement", "eSetValueWithOverwrite",
             "eSetValueWithoutOverwrite"}, value : Words]

\* ulTaskNotifyTake(clear, ..) and xTaskNotifyWait(entry, exit, ..)
Takes == [op : {"Take"}, clear : BOOLEAN, block : BOOLEAN]
Waits == [op : {"Wait"}, entry : Words, exit : Words, block : BOOLEAN]

\* That 2 ^ Width is a number the prover cannot derive; TLC evaluates it.
ASSUME WidthAssumption == Width \in Nat \ {0} /\ 2 ^ Width \in Nat

ASSUME TaskNotifyAssumption ==
  /\ Task \notin Notifiers
  /\ Notices \subseteq AllNotices
  /\ TaskCalls \subseteq Takes \cup Waits
  /\ None \notin Words /\ None \notin Takes \cup Waits

VARIABLES value,    \* TaskNotification::value
          pending,  \* TaskNotification::pending
          call,     \* the call the task waits in, or None
          asleep,   \* the task sleeps on TaskNotification::cv
          late,     \* the timeout of that wait has passed
          ret       \* how the last call of each thread ended, and the value it
                    \* brought or got

vars == <<value, pending, call, asleep, late, ret>>

Refused   == [ok |-> FALSE, item |-> None]
Passed(x) == [ok |-> TRUE, item |-> x]

Init == /\ value = 0
        /\ pending = FALSE
        /\ call = None
        /\ asleep = FALSE
        /\ late = FALSE
        /\ ret = [t \in Callers |-> Refused]

-----------------------------------------------------------------------------
(***************************************************************************)
(* The operators | and & ~ of the code on words.                           *)
(***************************************************************************)
Ones(w)      == {i \in 0 .. (Width - 1) : (w \div 2 ^ i) % 2 = 1}
Word(ones)   == MapThenSumSet(LAMBDA i : 2 ^ i, ones)
Or(w, v)     == Word(Ones(w) \cup Ones(v))
AndNot(w, v) == Word(Ones(w) \ Ones(v))

\* A word is the sum of its bits: an induction the prover cannot do either.
ASSUME WordAssumption == \A w \in Words : AndNot(w, 0) = w

Returns(t, result) == ret' = [ret EXCEPT ![t] = result]

\* Mutants of Noted: a give only raises a flag; a value that may not overwrite
\* is never stored.
NotedAsFlag(n) == IF n.action = "eIncrement" THEN 1 ELSE n.value
NotedNowhere(n) == value

\* The value xTaskNotify leaves behind; the counter wraps like a uint32_t.
Noted(n) == CASE n.action = "eSetBits"   -> Or(value, n.value)
              [] n.action = "eIncrement" -> (value + 1) % 2 ^ Width
              [] n.action = "eNoAction"  -> value
              [] OTHER                   -> n.value

\* Mutant of Notify: the sleeper is not notified.
NotifySilently(t, n) ==
  /\ t = Task => call = None
  /\ ~ (n.action = "eSetValueWithoutOverwrite" /\ pending)
  /\ value' = Noted(n)
  /\ pending' = TRUE
  /\ Returns(t, Passed(n.value))
  /\ UNCHANGED <<call, asleep, late>>

(***************************************************************************)
(* xTaskNotify; xTaskNotifyGive is the notice eIncrement.                  *)
(***************************************************************************)
Notify(t, n) ==
  /\ t = Task => call = None
  /\ ~ (n.action = "eSetValueWithoutOverwrite" /\ pending)
  /\ value' = Noted(n)
  /\ pending' = TRUE
  /\ asleep' = FALSE
  /\ Returns(t, Passed(n.value))
  /\ UNCHANGED <<call, late>>

NotifyFails(t, n) ==
  /\ t = Task => call = None
  /\ n.action = "eSetValueWithoutOverwrite" /\ pending
  /\ Returns(t, Refused)
  /\ UNCHANGED <<value, pending, call, asleep, late>>

-----------------------------------------------------------------------------
(***************************************************************************)
(* The task's own calls.                                                   *)
(***************************************************************************)
Runs(r) == call = None \/ (call = r /\ ~ asleep)

\* Mutant of Finish: the result of wait_for decides, not the pending flag.
FinishByClock(result) == /\ Returns(Task, IF late THEN [ok |-> FALSE, item |-> 0]
                                               ELSE result)
                         /\ call' = None
                         /\ late' = FALSE
                         /\ UNCHANGED asleep

Finish(result) == /\ Returns(Task, result)
                  /\ call' = None
                  /\ late' = FALSE
                  /\ UNCHANGED asleep

\* Mutant of MaySleep: after a timeout the call waits again.
MaySleepAgain(r) == ~ pending /\ r.block

MaySleep(r) == ~ pending /\ r.block /\ ~ late
GivesUp(r)  == ~ pending /\ (~ r.block \/ late)

Doze(r) == /\ call' = r
           /\ asleep' = TRUE
           /\ UNCHANGED <<pending, late, ret>>

\* ulTaskNotifyTake: a timeout returns 0, and so does a pending value of 0.
Take(r) ==
  /\ r.op = "Take" /\ Runs(r)
  /\ \/ /\ MaySleep(r)
        /\ Doze(r)
        /\ UNCHANGED value
     \/ /\ GivesUp(r)
        /\ Finish(Passed(0))
        /\ UNCHANGED <<value, pending>>
     \/ /\ pending
        /\ value' = IF r.clear \/ value = 0 THEN 0 ELSE value - 1
        /\ pending' = (value' > 0)
        /\ Finish(Passed(value))

\* xTaskNotifyWait clears the entry bits once, before it waits, and keeps them
\* cleared if it times out; it drops the pending flag whatever value is left.
Wait(r) ==
  LET entered == IF call = None THEN AndNot(value, r.entry) ELSE value
  IN  /\ r.op = "Wait" /\ Runs(r)
      /\ \/ /\ MaySleep(r)
            /\ Doze(r)
            /\ value' = entered
         \/ /\ GivesUp(r)
            /\ Finish(Refused)
            /\ value' = entered
            /\ UNCHANGED pending
         \/ /\ pending
            /\ value' = AndNot(entered, r.exit)
            /\ pending' = FALSE
            /\ Finish(Passed(entered))

Spurious == /\ asleep
            /\ asleep' = FALSE
            /\ UNCHANGED <<value, pending, call, late, ret>>

Deadline == /\ call # None /\ ~ late
            /\ late' = TRUE
            /\ asleep' = FALSE
            /\ UNCHANGED <<value, pending, call, ret>>

Own(r) == Take(r) \/ Wait(r)

Next == \/ \E t \in Callers, n \in Notices : Notify(t, n) \/ NotifyFails(t, n)
        \/ \E r \in TaskCalls : Own(r)
        \/ Spurious
        \/ Deadline

Spec == Init /\ [][Next]_vars

(***************************************************************************)
(* An awake task gets the mutex again.  Its timeout need not pass.         *)
(***************************************************************************)
Resume == call # None /\ Own(call)

FairSpec == Spec /\ WF_vars(Resume)

-----------------------------------------------------------------------------
(***************************************************************************)
(* Properties                                                              *)
(***************************************************************************)
\* The word keeps its width and only a task in a call sleeps or is late.
TypeOK ==
  /\ value \in Words
  /\ pending \in BOOLEAN /\ asleep \in BOOLEAN /\ late \in BOOLEAN
  /\ call \in TaskCalls \cup {None}
  /\ ret \in [Callers -> [ok : BOOLEAN, item : Words \cup {None}]]
  /\ asleep => call # None /\ ~ late
  /\ late => call # None

\* The task never sleeps through a notification.
NoMissedNotification == asleep => ~ pending

\* A notification stays pending until the task itself takes delivery of it:
\* no other notification, refusal or timeout can make it disappear.
PendingUntilDelivered ==
  [][(pending /\ ~ pending') => /\ call' = None
                                /\ ret'[Task].ok
                                /\ \A t \in Notifiers : ret'[t] = ret[t]]_vars

\* A call returns once a notification is pending, without help of its timeout,
\* and once the timeout has passed, without help of a notification.
CallsReturn == (call # None /\ (pending \/ late)) ~> (call = None)
=============================================================================
