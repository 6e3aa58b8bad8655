---------------------------- MODULE NotifyProofs ----------------------------
(***************************************************************************)
(* Machine-checked facts about task notifications: no notification is      *)
(* slept through, whatever the actions and the calls, and as a counting    *)
(* semaphore they conserve gives, for any number of threads, any width of  *)
(* the word and any number of gives below its wrap; as a mailbox they are  *)
(* a queue of one.                                                         *)
(***************************************************************************)
EXTENDS NotifyUse, TLAPS

(***************************************************************************)
(* The strengthening of NoMissedNotification that is inductive: a task     *)
(* that sleeps is inside a call.                                           *)
(***************************************************************************)
SleepsInCall == asleep => call # None /\ ~ pending

LEMMA CallsAreNotNone == \A r \in TaskCalls \cup Takes : r # None
  BY TaskNotifyAssumption

LEMMA OwnStep ==
  ASSUME SleepsInCall, NEW r, r # None, Own(r)
  PROVE  SleepsInCall'
  <1>1. Runs(r)
    BY DEF Own, Take, Wait
  <1>2. ~ asleep
    BY <1>1 DEF Runs, SleepsInCall
  <1>3. CASE Take(r)
    BY <1>2, <1>3 DEF Take, Doze, MaySleep, Finish, SleepsInCall
  <1>4. CASE Wait(r)
    BY <1>2, <1>4 DEF Wait, Doze, MaySleep, Finish, SleepsInCall
  <1> QED
    BY <1>3, <1>4 DEF Own

LEMMA SleepsInCallStep == SleepsInCall /\ [Next]_vars => SleepsInCall'
  <1> SUFFICES ASSUME SleepsInCall, [Next]_vars
               PROVE  SleepsInCall'
      OBVIOUS
  <1>1. ASSUME NEW t \in Callers, NEW n \in Notices,
               Notify(t, n) \/ NotifyFails(t, n)
        PROVE  SleepsInCall'
    BY <1>1 DEF Notify, NotifyFails, SleepsInCall
  <1>2. ASSUME NEW r \in TaskCalls, Own(r)
        PROVE  SleepsInCall'
    BY <1>2, OwnStep, CallsAreNotNone
  <1>3. CASE Spurious \/ Deadline
    BY <1>3 DEF Spurious, Deadline, SleepsInCall
  <1>4. CASE UNCHANGED vars
    BY <1>4 DEF vars, SleepsInCall
  <1> QED
    BY <1>1, <1>2, <1>3, <1>4 DEF Next

(***************************************************************************)
(* The task never sleeps through a notification, whichever of the actions  *)
(* of xTaskNotify and of the calls of the task the program mixes.          *)
(***************************************************************************)
THEOREM NotificationsNotMissed == Spec => []NoMissedNotification
  <1>1. Init => SleepsInCall
    BY DEF Init, SleepsInCall
  <1>2. SleepsInCall => NoMissedNotification
    BY DEF SleepsInCall, NoMissedNotification
  <1> QED
    BY <1>1, <1>2, SleepsInCallStep, PTL DEF Spec

-----------------------------------------------------------------------------
ResultsOfAll == ret = [t \in Callers |-> ret[t]]

LEMMA DeliveryStep ==
  ASSUME ResultsOfAll, NEW r \in TaskCalls, Own(r), pending, ~ pending'
  PROVE  call' = None /\ ret'[Task].ok /\ \A t \in Notifiers : ret'[t] = ret[t]
  <1>1. \E item : Finish(Passed(item))
    BY DEF Own, Take, Wait, MaySleep, GivesUp
  <1>2. Task \in Callers /\ Notifiers \subseteq Callers /\ Task \notin Notifiers
    BY TaskNotifyAssumption DEF Callers
  <1> QED
    BY <1>1, <1>2 DEF Finish, Returns, Passed, ResultsOfAll

(***************************************************************************)
(* Only the task makes a notification disappear, by a call that reports it. *)
(***************************************************************************)
THEOREM NotificationsStay == Spec => PendingUntilDelivered
  <1>1. Init => ResultsOfAll
    BY DEF Init, ResultsOfAll
  <1>2. ResultsOfAll /\ [Next]_vars => ResultsOfAll'
    BY DEF ResultsOfAll, Next, vars, Notify, NotifyFails, Own, Take, Wait, Doze, Finish,
           Returns, Spurious, Deadline
  <1>3. ResultsOfAll /\ [Next]_vars =>
          [(pending /\ ~ pending') => /\ call' = None
                                      /\ ret'[Task].ok
                                      /\ \A t \in Notifiers : ret'[t] = ret[t]]_vars
    <2> SUFFICES ASSUME ResultsOfAll, Next, pending, ~ pending'
                 PROVE  call' = None /\ ret'[Task].ok /\ \A t \in Notifiers : ret'[t] = ret[t]
      BY DEF vars
    <2>1. PICK r \in TaskCalls : Own(r)
      BY DEF Next, Notify, NotifyFails, Spurious, Deadline
    <2> QED
      BY <2>1, DeliveryStep
  <1> QED
    BY <1>1, <1>2, <1>3, PTL DEF Spec, PendingUntilDelivered

-----------------------------------------------------------------------------
(***************************************************************************)
(* GivesAreConserved in a counter, with what it takes to be inductive: the counters are  *)
(* numbers, no more gives are made than fit in the word, and a call of the *)
(* task is a take.                                                         *)
(***************************************************************************)
Balanced == given = taken + value /\ (pending <=> value > 0)

CountInv == /\ given \in Nat /\ taken \in Nat /\ value \in Nat
            /\ given <= MaxGives
            /\ call \in Takes \cup {None}
            /\ ret \in [Callers -> [ok : BOOLEAN, item : Nat \cup {None}]]
            /\ pending \in BOOLEAN
            /\ SleepsInCall
            /\ Balanced

LEMMA GiveStep ==
  ASSUME CountInv, NEW t \in Callers, Give(t)
  PROVE  CountInv'
  <1> USE NoWrapAssumption
  <1>1. Noted(GiveNotice) = (value + 1) % 2 ^ Width
    BY DEF Noted, GiveNotice
  <1>2. value + 1 \in Words
    BY WidthAssumption DEF CountInv, Balanced, Give, Words
  <1>3. (value + 1) % 2 ^ Width = value + 1
    <2> DEFINE M == 2 ^ Width
    <2>1. M \in Nat
      BY WidthAssumption
    <2> HIDE DEF M
    <2>2. value + 1 \in 0 .. (M - 1)
      BY <1>2 DEF Words, M
    <2>3. (value + 1) % M = value + 1
      BY <2>1, <2>2 DEF CountInv
    <2> QED
      BY <2>3 DEF M
  <1>4. value' = value + 1 /\ pending' = TRUE /\ given' = given + 1
    BY <1>1, <1>3 DEF Give, Notify
  <1>5. ret' \in [Callers -> [ok : BOOLEAN, item : Nat \cup {None}]]
    BY DEF Give, Notify, Returns, Passed, CountInv, GiveNotice
  <1> QED
    BY <1>4, <1>5
       DEF Give, Notify, CountInv, Balanced, SleepsInCall

LEMMA TakeStep ==
  ASSUME CountInv, NEW r \in Takes, TakeOne(r)
  PROVE  CountInv'
  <1>1. SleepsInCall'
    BY OwnStep, CallsAreNotNone DEF CountInv, TakeOne, Own
  <1>2. Task \in Callers /\ r # None
    BY CallsAreNotNone DEF Callers
  <1>3. CASE MaySleep(r) /\ Doze(r) /\ UNCHANGED value
    BY <1>1, <1>2, <1>3 DEF TakeOne, Doze, CountInv, Balanced
  <1>4. CASE GivesUp(r) /\ Finish(Passed(0)) /\ UNCHANGED <<value, pending>>
    <2>1. ret' \in [Callers -> [ok : BOOLEAN, item : Nat \cup {None}]]
          /\ ret'[Task].item = 0 /\ call' = None
      BY <1>2, <1>4 DEF Finish, Returns, Passed, CountInv
    <2>2. taken' = taken /\ given' = given
      BY <2>1 DEF TakeOne, Accounted, CountInv
    <2> QED
      BY <1>1, <1>4, <2>1, <2>2 DEF CountInv, Balanced
  <1>5. CASE /\ pending
             /\ value' = IF r.clear \/ value = 0 THEN 0 ELSE value - 1
             /\ pending' = (value' > 0)
             /\ Finish(Passed(value))
    <2>1. ret' \in [Callers -> [ok : BOOLEAN, item : Nat \cup {None}]]
          /\ ret'[Task].item = value /\ call' = None
      BY <1>2, <1>5 DEF Finish, Returns, Passed, CountInv
    <2>2. value > 0
      BY <1>5 DEF CountInv, Balanced
    <2>3. taken' = taken + (IF r.clear THEN value ELSE 1) /\ given' = given
      BY <2>1, <2>2 DEF TakeOne, Accounted, CountInv
    <2>4. value' = (IF r.clear THEN 0 ELSE value - 1) /\ value' \in Nat
      BY <1>5, <2>2 DEF CountInv
    <2>5. given' = taken' + value'
      BY <2>3, <2>4 DEF CountInv, Balanced
    <2>6. Balanced' /\ pending' \in BOOLEAN
      <3>1. pending' = (value' > 0)
        BY <1>5
      <3>2. pending' \in BOOLEAN
        BY <3>1, <2>4, SMT
      <3>3. pending' <=> value' > 0
        BY <3>1, Zenon
      <3> QED
        BY <2>5, <3>2, <3>3 DEF Balanced
    <2>7. taken' \in Nat /\ given' \in Nat /\ given' <= MaxGives
      BY <2>3 DEF CountInv
    <2> QED
      BY <1>1, <2>1, <2>4, <2>6, <2>7 DEF CountInv
  <1> QED
    BY <1>3, <1>4, <1>5 DEF TakeOne, Take

IInv == use = "counter" => CountInv

LEMMA CountStep == IInv /\ [UseNext]_useVars => IInv'
  <1> SUFFICES ASSUME IInv, [UseNext]_useVars, use' = "counter"
               PROVE  CountInv'
      BY DEF IInv
  <1>0. CountInv /\ use = "counter"
    BY DEF IInv, UseNext, useVars
  <1>1. CASE \E t \in Callers : Give(t)
    BY <1>0, <1>1, GiveStep
  <1>2. CASE Taking
    BY <1>0, <1>2, TakeStep DEF Taking
  <1>3. CASE Pass
    BY <1>0, <1>3 DEF Pass, Spurious, Deadline, CountInv, Balanced, SleepsInCall
  <1>4. CASE UNCHANGED useVars
    BY <1>0, <1>4 DEF useVars, vars, CountInv, Balanced, SleepsInCall
  <1> QED
    BY <1>0, <1>1, <1>2, <1>3, <1>4 DEF UseNext, AnyStep, CounterStep, MailboxStep

(***************************************************************************)
(* Gives and takes balance: nothing given is lost, nothing is taken twice. *)
(***************************************************************************)
THEOREM GivesConserved == UseSpec => []GivesAreConserved
  <1>1. ASSUME UseInit
        PROVE  CountInv
    <2> USE <1>1 DEF UseInit, Init
    <2>1. ret \in [Callers -> [ok : BOOLEAN, item : Nat \cup {None}]]
      BY DEF Refused
    <2>2. pending = FALSE /\ ~ (value > 0)
      OBVIOUS
    <2>3. Balanced
      BY <2>2 DEF Balanced
    <2>4. SleepsInCall
      BY DEF SleepsInCall
    <2>5. given <= MaxGives
      BY NoWrapAssumption
    <2>6. call \in Takes \cup {None}
      OBVIOUS
    <2> QED
      BY <2>1, <2>2, <2>3, <2>4, <2>5, <2>6 DEF CountInv
  <1>2. UseInit => IInv
    BY <1>1 DEF IInv
  <1>3. IInv => GivesAreConserved
    BY DEF IInv, CountInv, Balanced, GivesAreConserved
  <1> QED
    BY <1>2, <1>3, CountStep, PTL DEF UseSpec

-----------------------------------------------------------------------------
(***************************************************************************)
(* The mailbox.  What is pending in it was posted, and who waits, fetches. *)
(***************************************************************************)
MailInv == use = "mailbox" => /\ pending \in BOOLEAN
                              /\ pending => value \in Words
                              /\ call \in Fetches \cup {None}
                              /\ SleepsInCall

Letters == IF use = "mailbox" /\ pending THEN <<value>> ELSE << >>
Asking == [t \in Callers |-> [op   |-> IF t = Task /\ call # None THEN "Receive" ELSE "none",
                             item |-> None]]

LEMMA TaskIsCaller == Task \in Callers /\ \A r \in Fetches \cap TaskCalls : r # None
  BY TaskNotifyAssumption DEF Callers

LEMMA PostsAreWords == \A n \in Posts : n \in Notices /\ n.value \in Words
                                        /\ n.action = "eSetValueWithoutOverwrite"
  BY TaskNotifyAssumption DEF Posts, AllNotices

LEMMA MailInvStep == MailInv /\ [UseNext]_useVars => MailInv'
  <1> SUFFICES ASSUME MailInv, [UseNext]_useVars, use' = "mailbox"
               PROVE  MailInv'
    BY DEF MailInv
  <1>0. use = "mailbox" /\ pending \in BOOLEAN /\ (pending => value \in Words)
        /\ call \in Fetches \cup {None} /\ SleepsInCall
    BY DEF MailInv, UseNext, useVars
  <1>1. ASSUME NEW t \in Callers, NEW n \in Posts, Notify(t, n) \/ NotifyFails(t, n)
        PROVE  MailInv'
    BY <1>0, <1>1, PostsAreWords DEF Notify, NotifyFails, Noted, MailInv, SleepsInCall
  <1>2. ASSUME NEW r \in Fetches \cap TaskCalls, Wait(r)
        PROVE  MailInv'
    <2>1. SleepsInCall'
      BY <1>0, <1>2, OwnStep, TaskIsCaller DEF Own
    <2>2. (call' = r \/ call' = None) /\ (pending' = FALSE \/ (pending' = pending /\ ~ pending))
      BY <1>2 DEF Wait, Doze, Finish, MaySleep, GivesUp
    <2>3. CASE pending' = FALSE
      BY <1>0, <2>1, <2>2, <2>3 DEF MailInv
    <2>4. CASE pending' = pending /\ ~ pending
      <3>1. pending' \in BOOLEAN
        BY <1>0, <2>4, Zenon
      <3>2. ~ pending'
        BY <2>4, Zenon
      <3> QED
        BY <1>0, <2>1, <2>2, <3>1, <3>2 DEF MailInv
    <2> QED
      BY <2>2, <2>3, <2>4
  <1>3. CASE Pass
    BY <1>0, <1>3 DEF Pass, Spurious, Deadline, MailInv, SleepsInCall
  <1>4. CASE UNCHANGED useVars
    BY <1>0, <1>4 DEF useVars, vars, MailInv, SleepsInCall
  <1> QED
    BY <1>0, <1>1, <1>2, <1>3, <1>4 DEF UseNext, AnyStep, CounterStep, MailboxStep, Taking

\* A post is a send to the queue of one, served or refused.
LEMMA PostSends ==
  ASSUME MailInv, use = "mailbox", use' = use,
         NEW t \in Callers, NEW n \in Posts, Notify(t, n) \/ NotifyFails(t, n)
  PROVE  Mail!Next
  <1> DEFINE r == [op |-> "SendToBack", item |-> n.value]
  <1>1. r \in Mail!Requests
    BY PostsAreWords DEF Mail!Requests, Mail!Sends
  <1>2. Asking[t] = Mail!Idle /\ Asking' = Asking /\ Asking = [Asking EXCEPT ![t] = Mail!Idle]
    BY DEF Asking, Mail!Idle, Notify, NotifyFails
  <1>3. CASE Notify(t, n)
    <2>1. Letters = << >> /\ Letters' = <<n.value>>
      BY <1>3, PostsAreWords DEF Letters, Notify, Noted, MailInv
    <2>2. ret' = [ret EXCEPT ![t] = Mail!Passed(n.value)]
      BY <1>3 DEF Notify, Returns, Passed, Mail!Passed
    <2>3. Len(Letters) < 1 /\ Letters' = Append(Letters, n.value)
      BY <2>1
    <2>4. Mail!Serve(t, r)
      BY <1>2, <2>2, <2>3
         DEF Mail!Serve, Mail!CallOf, Mail!CanServe, Mail!Returns, Mail!Sends, Letters, Asking
    <2> QED
      BY <1>1, <2>4 DEF Mail!Next
  <1>4. CASE NotifyFails(t, n)
    <2>1. Letters = <<value>> /\ Letters' = Letters
      BY <1>4 DEF Letters, NotifyFails
    <2>2. ret' = [ret EXCEPT ![t] = Mail!Refused]
      BY <1>4 DEF NotifyFails, Returns, Refused, Mail!Refused
    <2>3. Mail!Refuse(t, r)
      BY <1>2, <2>1, <2>2
         DEF Mail!Refuse, Mail!CallOf, Mail!CanServe, Mail!Returns, Mail!Sends, Letters, Asking
    <2> QED
      BY <1>1, <2>3 DEF Mail!Next
  <1> QED
    BY <1>3, <1>4

\* A fetch receives, waits, or gives up when there is nothing to receive; a wait
\* that goes on is a stutter.
LEMMA FetchReceives ==
  ASSUME MailInv, use = "mailbox", use' = use,
         NEW f \in Fetches \cap TaskCalls, Wait(f)
  PROVE  Mail!Next \/ UNCHANGED Mail!vars
  <1> DEFINE r == [op |-> "Receive", item |-> None]
             entered == IF call = None THEN AndNot(value, f.entry) ELSE value
  <1>1. r \in Mail!Requests
    BY DEF Mail!Requests, Mail!Takes
  <1>2. Task \in Callers /\ f # None
    BY TaskIsCaller
  <1>3. Asking[Task] \in {Mail!Idle, r}
    BY <1>2 DEF Asking, Mail!Idle
  <1>4. CASE MaySleep(f) /\ Doze(f)
    <2>1. Letters = << >> /\ Letters' = << >> /\ ret' = ret
      BY <1>4 DEF MaySleep, Doze, Letters
    <2>2. Asking' = [Asking EXCEPT ![Task] = r]
      BY <1>2, <1>4 DEF Asking, Doze
    <2>3. CASE call = None
      <3>1. Asking[Task] = Mail!Idle
        BY <1>2, <2>3 DEF Asking, Mail!Idle
      <3>2. Mail!Wait(Task, r)
        BY <2>1, <2>2, <3>1 DEF Mail!Wait, Mail!CanServe, Mail!Sends, Letters, Asking
      <3> QED
        BY <1>1, <1>2, <3>2 DEF Mail!Next
    <2>4. CASE call # None
      <3>1. Asking' = Asking
        BY <1>2, <1>4, <2>4 DEF Asking, Doze
      <3> QED
        BY <2>1, <3>1 DEF Mail!vars, Letters, Asking
    <2> QED
      BY <2>3, <2>4
  <1>5. ASSUME NEW x, Finish(x)
        PROVE  /\ ret' = [ret EXCEPT ![Task] = x]
               /\ Asking' = [Asking EXCEPT ![Task] = Mail!Idle]
    BY <1>2, <1>5 DEF Finish, Returns, Asking, Mail!Idle
  <1>6. CASE GivesUp(f) /\ Finish(Refused) /\ UNCHANGED pending
    <2>1. Letters = << >> /\ Letters' = << >>
      BY <1>6 DEF GivesUp, Letters
    <2>2. Mail!Refuse(Task, r)
      BY <1>3, <1>5, <1>6, <2>1
         DEF Mail!Refuse, Mail!CallOf, Mail!CanServe, Mail!Returns, Mail!Sends, Mail!Refused,
             Refused, Letters, Asking
    <2> QED
      BY <1>1, <1>2, <2>2 DEF Mail!Next
  <1>7. CASE pending /\ pending' = FALSE /\ Finish(Passed(entered))
    <2>1. Letters = <<value>> /\ Letters' = << >> /\ entered = value
      BY <1>7, WordAssumption DEF Letters, Fetches, MailInv
    <2>2. ret' = [ret EXCEPT ![Task] = Mail!Passed(value)]
      BY <1>5, <1>7, <2>1 DEF Passed, Mail!Passed
    <2>3. Len(Letters) > 0 /\ Letters' = Tail(Letters) /\ Head(Letters) = value
      BY <2>1
    <2>4. Mail!Serve(Task, r)
      BY <1>3, <1>5, <1>7, <2>2, <2>3
         DEF Mail!Serve, Mail!CallOf, Mail!CanServe, Mail!Returns, Mail!Sends, Letters, Asking
    <2> QED
      BY <1>1, <1>2, <2>4 DEF Mail!Next
  <1> QED
    BY <1>4, <1>6, <1>7 DEF Wait

(***************************************************************************)
(* Posts without overwrite and fetches are a bounded queue of one, for any *)
(* posters, values and timeouts.                                           *)
(***************************************************************************)
THEOREM MailboxIsQueue == UseSpec => Mailbox
  <1>1. UseInit => MailInv /\ Mail!Init
    BY DEF UseInit, Init, MailInv, SleepsInCall, Mail!Init, Mail!Idle, Mail!Refused, Refused
  <1>2. MailInv /\ [UseNext]_useVars => [use = "mailbox" => Mail!Next]_(Mail!vars)
    <2> SUFFICES ASSUME MailInv, [UseNext]_useVars, use = "mailbox"
                 PROVE  Mail!Next \/ UNCHANGED Mail!vars
      OBVIOUS
    <2>1. use' = use
      BY DEF UseNext, useVars
    <2>2. CASE \E t \in Callers, n \in Posts : Notify(t, n) \/ NotifyFails(t, n)
      BY <2>1, <2>2, PostSends
    <2>3. CASE \E r \in Fetches \cap TaskCalls : Wait(r)
      BY <2>1, <2>3, FetchReceives
    <2>4. CASE Pass \/ UNCHANGED useVars
      BY <2>1, <2>4 DEF Pass, Spurious, Deadline, useVars, vars, Mail!vars
    <2> QED
      BY <2>2, <2>3, <2>4 DEF UseNext, AnyStep, CounterStep, MailboxStep, Taking
  <1> QED
    BY <1>1, <1>2, MailInvStep, PTL DEF UseSpec, Mailbox
=============================================================================
