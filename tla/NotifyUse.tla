----------------------------- MODULE NotifyUse -----------------------------
(***************************************************************************)
(* Three ways to use the notification of a task.  Anything goes in "any".  *)
(* As a "counter", everybody gives with xTaskNotifyGive and the task takes *)
(* with ulTaskNotifyTake.  As a "mailbox", values are posted with          *)
(* xTaskNotify and eSetValueWithoutOverwrite, and fetched with             *)
(* xTaskNotifyWait.                                                        *)
(*                                                                         *)
(* given and taken are what the program of a counter can count itself: its *)
(* gives, and what its takes told it.  A take that clears the counter      *)
(* tells how many gives it accounts for; one that does not stands for one. *)
(***************************************************************************)
EXTENDS TaskNotify, Sequences

CONSTANT MaxGives   \* bound on the gives of a counter, below the word's wrap

ASSUME NoWrapAssumption == MaxGives \in Nat /\ MaxGives \in Words

VARIABLES use,    \* how this program uses the notification
          given,  \* the number of gives that were made
          taken   \* the number of gives the takes have accounted for

useVars == <<vars, use, given, taken>>

UseInit == /\ Init
           /\ use \in {"any", "counter", "mailbox"}
           /\ given = 0 /\ taken = 0

AnyStep == /\ use = "any"
           /\ \/ \E t \in Callers, n \in Notices : Notify(t, n) \/ NotifyFails(t, n)
              \/ \E r \in TaskCalls : Own(r)
           /\ UNCHANGED <<given, taken>>

-----------------------------------------------------------------------------
GiveNotice == [action |-> "eIncrement", value |-> 0]

Give(t) == /\ given < MaxGives
           /\ Notify(t, GiveNotice)
           /\ given' = given + 1
           /\ UNCHANGED taken

\* What the caller of ulTaskNotifyTake makes of the count it returned.
Accounted(r, count) == IF r.clear \/ count = 0 THEN count ELSE 1

TakeOne(r) ==
  /\ Take(r)
  /\ taken' = IF call' = None THEN taken + Accounted(r, ret'[Task].item)
                              ELSE taken
  /\ UNCHANGED given

Taking == use = "counter" /\ \E r \in Takes \cap TaskCalls : TakeOne(r)

CounterStep == /\ use = "counter"
               /\ \/ \E t \in Callers : Give(t)
                  \/ Taking

-----------------------------------------------------------------------------
Posts == {n \in Notices : n.action = "eSetValueWithoutOverwrite"}

\* Clearing bits on entry would eat into a value that is already posted;
\* clearing on exit is harmless, the value has been fetched.
Fetches == [op : {"Wait"}, entry : {0}, exit : Words, block : BOOLEAN]

MailboxStep ==
  /\ use = "mailbox"
  /\ \/ \E t \in Callers, n \in Posts : Notify(t, n) \/ NotifyFails(t, n)
     \/ \E r \in Fetches \cap TaskCalls : Wait(r)
  /\ UNCHANGED <<given, taken>>

Mail == INSTANCE BoundedQueue WITH
          Threads   <- Callers,
          Items     <- Words,
          MaxLength <- 1,
          Ops       <- {"SendToBack", "Receive"},
          NoItem    <- None,
          items     <- IF use = "mailbox" /\ pending THEN <<value>> ELSE << >>,
          call      <- [t \in Callers |->
                          [op   |-> IF t = Task /\ call # None THEN "Receive"
                                                               ELSE "none",
                           item |-> None]],
          ret       <- ret

-----------------------------------------------------------------------------
Pass == (Spurious \/ Deadline) /\ UNCHANGED <<given, taken>>

UseNext == /\ AnyStep \/ CounterStep \/ MailboxStep \/ Pass
           /\ UNCHANGED use

UseSpec == UseInit /\ [][UseNext]_useVars

(***************************************************************************)
(* An awake task gets the mutex again, and the task of a counter calls     *)
(* ulTaskNotifyTake over and over.  No timeout has to pass.                *)
(***************************************************************************)
ResumeAny == use # "counter" /\ Resume /\ UNCHANGED <<use, given, taken>>

FairUse == /\ UseSpec
           /\ WF_useVars(ResumeAny)
           /\ WF_useVars(Taking /\ UNCHANGED use)

-----------------------------------------------------------------------------
\* No give is lost and none is counted twice: what the takes have accounted
\* for and what is still in the word add up to what was given, and the task
\* is notified exactly as long as something is left.  It holds only if the
\* word does not wrap and if no xTaskNotifyWait drops the pending flag.
GivesAreConserved == use = "counter" => /\ given = taken + value
                                        /\ pending <=> value > 0

\* A task that keeps taking accounts for every give.
EveryGiveIsTaken == (use = "counter" /\ given = MaxGives) ~> (taken = MaxGives)

\* A posted value is delivered exactly once and unchanged, or its post is
\* refused because the mailbox is full: the notification implements the
\* bounded queue of capacity 1.
Mailbox == /\ Mail!Init
           /\ [][use = "mailbox" => Mail!Next]_(Mail!vars)
=============================================================================
