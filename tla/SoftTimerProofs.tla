--------------------------- MODULE SoftTimerProofs ---------------------------
(***************************************************************************)
(* Proofs about SoftTimer, for any period, any workers and whatever the     *)
(* callback calls, when at most one controller calls the timer.             *)
(***************************************************************************)
EXTENDS SoftTimer, FiniteSetTheorems, SequenceTheorems, TLAPS

OneController == \A c, d \in Controllers : c = d

-----------------------------------------------------------------------------
\* What may be left of a call, of a call of the worker's, and of a delete that
\* has marked the timer.
Scripts ==
  {<< >>,
   <<"check", "join", "set", "spawn">>, <<"join", "set", "spawn">>,
   <<"set", "spawn">>, <<"spawn">>,
   <<"clear", "join">>, <<"join">>,
   <<"clear", "join", "check", "join", "set", "spawn">>,
   <<"join", "check", "join", "set", "spawn">>,
   <<"look">>, <<"period">>,
   <<"clear", "join", "period", "check", "join", "set", "spawn">>,
   <<"join", "period", "check", "join", "set", "spawn">>,
   <<"period", "check", "join", "set", "spawn">>,
   <<"mark", "clear", "join", "free">>, <<"clear", "join", "free">>,
   <<"join", "free">>, <<"free">>}

PastJoin == {<<"set", "spawn">>, <<"spawn">>, <<"free">>,
             <<"period", "check", "join", "set", "spawn">>}

Doomed == {<<"clear", "join", "free">>, <<"join", "free">>, <<"free">>}

\* The step a thread takes next.
First(s) == IF s = << >> THEN "none" ELSE Head(s)
Before(t, step) == First(todo[t]) = step

Types ==
  /\ running \in BOOLEAN /\ deleted \in BOOLEAN /\ autoReload \in BOOLEAN
  /\ freed \in BOOLEAN /\ terminated \in BOOLEAN
  /\ period \in Periods /\ age \in 0 .. MaxPeriod
  /\ worker \in Workers \cup {NoThread}
  /\ pc \in [Workers -> {"none", "top", "sleep", "callback", "ended"}]
  /\ left \in [Workers -> 0 .. MaxPeriod]
  /\ todo \in [Threads -> Scripts]

\* The thread object refers to the one worker there is.
OwnWorker == \A w \in Workers : pc[w] # "none" <=> worker = w

\* A worker calls from its callback, and no call of its gets past a join.
CallsFromCallback ==
  \A w \in Workers : todo[w] # << >> => pc[w] = "callback" /\ todo[w] \notin PastJoin

\* What the controller has seen is still so.
ControllerKnows ==
  \A c \in Controllers :
    /\ First(todo[c]) \in {"join", "set", "period", "free"} => ~ running
    /\ Before(c, "spawn") => running
    /\ First(todo[c]) \in {"set", "spawn", "free"} => worker = NoThread

\* A timer that runs has a live worker, or one is about to be spawned.
RunningIsAlive ==
  running /\ ~ deleted /\ (\A c \in Controllers : ~ Before(c, "spawn")) => Live # {}

\* Somebody waits for the worker of a timer that does not run.
StoppedIsAwaited == ~ running /\ Live # {} => \E t \in Threads : Before(t, "join")

DeletedIsDoomed == deleted => freed \/ \E t \in Threads : todo[t] \in Doomed

FreedIsLeft == freed => /\ worker = NoThread /\ ~ running
                        /\ \A t \in Threads : todo[t] = << >>

\* A worker that sleeps does not wake before the period is over.
SleepIsLong == \A w \in Workers : pc[w] = "sleep" /\ running => age + left[w] >= period

IInv == /\ Types /\ OwnWorker /\ CallsFromCallback /\ ControllerKnows
        /\ RunningIsAlive /\ StoppedIsAwaited /\ DeletedIsDoomed /\ FreedIsLeft
        /\ SleepIsLong /\ NeverTerminates

-----------------------------------------------------------------------------
\* How the calls go on.
LEMMA Tails ==
  /\ Tail(<<"check", "join", "set", "spawn">>) = <<"join", "set", "spawn">>
  /\ Tail(<<"join", "set", "spawn">>) = <<"set", "spawn">>
  /\ Tail(<<"set", "spawn">>) = <<"spawn">>
  /\ Tail(<<"spawn">>) = << >> /\ Tail(<<"join">>) = << >>
  /\ Tail(<<"look">>) = << >> /\ Tail(<<"period">>) = << >> /\ Tail(<<"free">>) = << >>
  /\ Tail(<<"clear", "join">>) = <<"join">>
  /\ Tail(<<"clear", "join", "check", "join", "set", "spawn">>)
       = <<"join", "check", "join", "set", "spawn">>
  /\ Tail(<<"join", "check", "join", "set", "spawn">>) = <<"check", "join", "set", "spawn">>
  /\ Tail(<<"clear", "join", "period", "check", "join", "set", "spawn">>)
       = <<"join", "period", "check", "join", "set", "spawn">>
  /\ Tail(<<"join", "period", "check", "join", "set", "spawn">>)
       = <<"period", "check", "join", "set", "spawn">>
  /\ Tail(<<"period", "check", "join", "set", "spawn">>) = <<"check", "join", "set", "spawn">>
  /\ Tail(<<"mark", "clear", "join", "free">>) = <<"clear", "join", "free">>
  /\ Tail(<<"clear", "join", "free">>) = <<"join", "free">>
  /\ Tail(<<"join", "free">>) = <<"free">>
OBVIOUS

LEMMA Firsts ==
  /\ First(<< >>) = "none"
  /\ First(<<"check", "join", "set", "spawn">>) = "check"
  /\ First(<<"join", "set", "spawn">>) = "join"
  /\ First(<<"set", "spawn">>) = "set"
  /\ First(<<"spawn">>) = "spawn" /\ First(<<"join">>) = "join"
  /\ First(<<"look">>) = "look" /\ First(<<"period">>) = "period" /\ First(<<"free">>) = "free"
  /\ First(<<"clear", "join">>) = "clear"
  /\ First(<<"clear", "join", "check", "join", "set", "spawn">>) = "clear"
  /\ First(<<"join", "check", "join", "set", "spawn">>) = "join"
  /\ First(<<"clear", "join", "period", "check", "join", "set", "spawn">>) = "clear"
  /\ First(<<"join", "period", "check", "join", "set", "spawn">>) = "join"
  /\ First(<<"period", "check", "join", "set", "spawn">>) = "period"
  /\ First(<<"mark", "clear", "join", "free">>) = "mark"
  /\ First(<<"clear", "join", "free">>) = "clear"
  /\ First(<<"join", "free">>) = "join"
BY DEF First

\* Lengths that tell apart the scripts with the same first step.
LEMMA Differ ==
  /\ <<"period">> \notin PastJoin
  /\ <<"mark", "clear", "join", "free">> \notin Doomed
  /\ \A s \in PastJoin \cup Doomed : s # << >>
BY DEF PastJoin, Doomed

LEMMA Follows ==
  ASSUME NEW s \in Scripts
  PROVE  /\ First(s) = "none" <=> s = << >>
         /\ s # << >> => Tail(s) \in Scripts
         /\ First(s) \in {"spawn", "free", "look"} => Tail(s) = << >>
         /\ First(s) \in {"check", "clear"} => First(Tail(s)) = "join"
         /\ First(s) = "join" => First(Tail(s)) \in {"none", "set", "check", "period", "free"}
         /\ First(s) = "set" => First(Tail(s)) = "spawn"
         /\ First(s) = "period" => First(Tail(s)) \in {"none", "check"}
         /\ First(s) = "mark" => First(Tail(s)) = "clear"
  <1>1. s = << >> \/ (First(s) # "none" /\ s # << >>)
    BY Firsts DEF Scripts
  <1>2. s # << >> => Tail(s) \in Scripts
    BY Tails DEF Scripts
  <1>3. First(s) \in {"spawn", "free", "look"} => Tail(s) = << >>
    <2>1. First(s) \in {"spawn", "free", "look"} => s \in {<<"spawn">>, <<"free">>, <<"look">>}
      BY Firsts DEF Scripts
    <2> QED
      BY <2>1, Tails
  <1>4. First(s) \in {"check", "clear"} => First(Tail(s)) = "join"
    <2>1. First(s) \in {"check", "clear"} =>
            s \in {<<"check", "join", "set", "spawn">>, <<"clear", "join">>,
                   <<"clear", "join", "check", "join", "set", "spawn">>,
                   <<"clear", "join", "period", "check", "join", "set", "spawn">>,
                   <<"clear", "join", "free">>}
      BY Firsts DEF Scripts
    <2> QED
      BY <2>1, Tails, Firsts
  <1>5. First(s) = "join" => First(Tail(s)) \in {"none", "set", "check", "period", "free"}
    <2>1. First(s) = "join" =>
            s \in {<<"join", "set", "spawn">>, <<"join">>,
                   <<"join", "check", "join", "set", "spawn">>,
                   <<"join", "period", "check", "join", "set", "spawn">>, <<"join", "free">>}
      BY Firsts DEF Scripts
    <2> QED
      BY <2>1, Tails, Firsts
  <1>6. First(s) = "set" => First(Tail(s)) = "spawn"
    <2>1. First(s) = "set" => s = <<"set", "spawn">>
      BY Firsts DEF Scripts
    <2> QED
      BY <2>1, Tails, Firsts
  <1>7. First(s) = "period" => First(Tail(s)) \in {"none", "check"}
    <2>1. First(s) = "period" =>
            s \in {<<"period">>, <<"period", "check", "join", "set", "spawn">>}
      BY Firsts DEF Scripts
    <2> QED
      BY <2>1, Tails, Firsts
  <1>8. First(s) = "mark" => First(Tail(s)) = "clear"
    <2>1. First(s) = "mark" => s = <<"mark", "clear", "join", "free">>
      BY Firsts DEF Scripts
    <2> QED
      BY <2>1, Tails, Firsts
  <1> QED
    BY <1>1, <1>2, <1>3, <1>4, <1>5, <1>6, <1>7, <1>8, Firsts

LEMMA FollowsDoomed ==
  ASSUME NEW s \in Scripts
  PROVE  /\ First(s) = "mark" => Tail(s) \in Doomed
         /\ s \in Doomed => First(s) \in {"clear", "join", "free"}
         /\ s \in Doomed /\ First(s) # "free" => Tail(s) \in Doomed
  <1>1. s \in Doomed => s = <<"clear", "join", "free">> \/ s = <<"join", "free">> \/ s = <<"free">>
    BY DEF Doomed
  <1>2. First(s) = "mark" => s = <<"mark", "clear", "join", "free">>
    BY Firsts DEF Scripts
  <1> QED
    BY <1>1, <1>2, Tails, Firsts DEF Doomed

LEMMA FollowsPastJoin ==
  ASSUME NEW s \in Scripts, s # << >>
  PROVE  /\ First(s) \notin {"join", "set"} => Tail(s) \notin PastJoin
         /\ First(s) \in {"set", "spawn", "free"} => s \in PastJoin
  <1>1. First(s) \in {"set", "spawn", "free"} => s \in PastJoin
    BY Firsts DEF Scripts, PastJoin
  <1>2. First(s) \notin {"join", "set"} =>
          Tail(s) \in {<< >>, <<"join", "set", "spawn">>, <<"join">>,
                       <<"join", "check", "join", "set", "spawn">>,
                       <<"join", "period", "check", "join", "set", "spawn">>,
                       <<"check", "join", "set", "spawn">>,
                       <<"clear", "join", "free">>, <<"join", "free">>}
    BY Tails, Firsts DEF Scripts
  <1>3. \A r \in PastJoin : First(r) \in {"set", "spawn", "free", "period"}
    BY Firsts DEF PastJoin
  <1> QED
    BY <1>1, <1>2, <1>3, Firsts

\* What a thread that is in a call may be doing.
LEMMA InCall ==
  ASSUME IInv, NEW t \in Threads, todo[t] # << >>
  PROVE  /\ todo[t] \in Scripts /\ First(todo[t]) = Head(todo[t]) /\ ~ freed
         /\ t \in Workers => /\ pc[t] = "callback" /\ worker = t /\ todo[t] \notin PastJoin
                             /\ First(todo[t]) \notin {"set", "spawn", "free"}
  <1>1. todo[t] \in Scripts /\ First(todo[t]) = Head(todo[t]) /\ ~ freed
    BY DEF IInv, Types, FreedIsLeft, First
  <1>2. ASSUME t \in Workers
        PROVE  pc[t] = "callback" /\ worker = t /\ todo[t] \notin PastJoin
    BY <1>2 DEF IInv, CallsFromCallback, OwnWorker
  <1> QED
    BY <1>1, <1>2, FollowsPastJoin

LEMMA Taken ==
  ASSUME IInv, NEW t \in Threads, NEW step, At(t, step), Done(t)
  PROVE  /\ ~ terminated /\ todo[t] # << >> /\ Before(t, step)
         /\ todo' = [todo EXCEPT ![t] = Tail(todo[t])]
         /\ Tail(todo[t]) \in Scripts
         /\ todo'[t] = Tail(todo[t])
         /\ \A u \in Threads : u # t => todo'[u] = todo[u]
  <1>1. todo \in [Threads -> Scripts] /\ todo[t] \in Scripts
    BY DEF IInv, Types
  <1> QED
    BY <1>1, InCall, Follows DEF At, Done, Goto, Before

\* A step of a call that neither starts nor stops the timer.
LEMMA StepOfCall ==
  ASSUME IInv, NEW t \in Threads, NEW s \in Scripts,
         todo' = [todo EXCEPT ![t] = s],
         UNCHANGED <<running, autoReload, worker, pc, left, freed, terminated, age>>,
         ~ terminated, ~ freed, ~ Before(t, "join"), ~ Before(t, "spawn"),
         t \in Workers /\ s # << >> => pc[t] = "callback" /\ s \notin PastJoin,
         t \in Controllers =>
           /\ First(s) \in {"join", "set", "period", "free"} => ~ running
           /\ First(s) \notin {"set", "spawn", "free"},
         deleted' \in BOOLEAN, deleted => deleted',
         deleted' => s \in Doomed \/ (deleted /\ todo[t] \notin Doomed),
         period' \in Periods,
         period' = period \/ ~ running \/ \A w \in Workers : pc[w] # "sleep"
  PROVE  IInv'
  <1> USE DEF IInv
  <1>1. /\ todo'[t] = s /\ \A u \in Threads : u # t => todo'[u] = todo[u]
        /\ Live' = Live /\ Controllers \subseteq Threads /\ Workers \subseteq Threads
    BY DEF Types, Live, Threads
  <1>2. Types'
    BY DEF Types
  <1>3. OwnWorker' /\ CallsFromCallback'
    BY <1>1 DEF OwnWorker, CallsFromCallback
  <1>4. ControllerKnows'
    BY <1>1 DEF ControllerKnows, Before
  <1>5. RunningIsAlive'
    BY <1>1 DEF RunningIsAlive, Before
  <1>6. StoppedIsAwaited'
    BY <1>1 DEF StoppedIsAwaited, Before
  <1>7. DeletedIsDoomed'
    BY <1>1 DEF DeletedIsDoomed
  <1>8. FreedIsLeft' /\ SleepIsLong' /\ NeverTerminates'
    BY <1>1 DEF FreedIsLeft, SleepIsLong, NeverTerminates
  <1> QED
    BY <1>2, <1>3, <1>4, <1>5, <1>6, <1>7, <1>8

StepNames == {"check", "join", "set", "spawn", "clear", "look", "period", "mark", "free"}

\* r is a with b behind it.
Joins(a, b, r) ==
  /\ a \in Seq(StepNames) /\ b \in Seq(StepNames) /\ r \in Seq(StepNames)
  /\ Len(r) = Len(a) + Len(b)
  /\ \A i \in 1 .. Len(r) : r[i] = IF i <= Len(a) THEN a[i] ELSE b[i - Len(a)]

LEMMA Concatenated == \A a, b, r : Joins(a, b, r) => a \o b = r
BY ConcatProperties, SeqEqual, LenProperties DEF Joins

LEMMA Joined ==
  /\ StopSteps \o StartSteps = <<"clear", "join", "check", "join", "set", "spawn">>
  /\ StopSteps \o <<"period">> \o StartSteps
       = <<"clear", "join", "period", "check", "join", "set", "spawn">>
  /\ <<"mark">> \o StopSteps \o <<"free">> = <<"mark", "clear", "join", "free">>
  <1>1. /\ Joins(StopSteps, StartSteps, <<"clear", "join", "check", "join", "set", "spawn">>)
        /\ Joins(StopSteps, <<"period">>, <<"clear", "join", "period">>)
        /\ Joins(<<"clear", "join", "period">>, StartSteps,
                 <<"clear", "join", "period", "check", "join", "set", "spawn">>)
        /\ Joins(<<"mark">>, StopSteps, <<"mark", "clear", "join">>)
        /\ Joins(<<"mark", "clear", "join">>, <<"free">>, <<"mark", "clear", "join", "free">>)
    BY DEF Joins, StepNames, StartSteps, StopSteps
  <1>2. StopSteps \o StartSteps = <<"clear", "join", "check", "join", "set", "spawn">>
    BY <1>1, Concatenated, Zenon
  <1>3. StopSteps \o <<"period">> = <<"clear", "join", "period">>
    BY <1>1, Concatenated, Zenon
  <1>4. <<"clear", "join", "period">> \o StartSteps
          = <<"clear", "join", "period", "check", "join", "set", "spawn">>
    BY <1>1, Concatenated, Zenon
  <1>5. <<"mark">> \o StopSteps = <<"mark", "clear", "join">>
    BY <1>1, Concatenated, Zenon
  <1>6. <<"mark", "clear", "join">> \o <<"free">> = <<"mark", "clear", "join", "free">>
    BY <1>1, Concatenated, Zenon
  <1> QED
    BY <1>2, <1>3, <1>4, <1>5, <1>6, Zenon

LEMMA Begins ==
  ASSUME NEW op \in AllOps
  PROVE  /\ Steps(op) \in Scripts /\ Steps(op) \notin PastJoin
         /\ First(Steps(op)) \in {"check", "clear", "look", "mark"}
  <1>1. Steps(op) \in {StartSteps, StopSteps, StopSteps \o StartSteps, <<"look">>,
                       <<"mark">> \o StopSteps \o <<"free">>}
    BY DEF Steps, AllOps
  <1>2. Steps(op) \in Scripts /\ First(Steps(op)) \in {"check", "clear", "look", "mark"}
    BY <1>1, Joined, Firsts DEF StartSteps, StopSteps, Scripts
  <1>3. \A r \in PastJoin : First(r) \in {"set", "spawn", "free", "period"}
    BY Firsts DEF PastJoin
  <1> QED
    BY <1>2, <1>3

LEMMA CallKeeps == ASSUME IInv, NEW t \in Threads, Call(t) PROVE IInv'
  <1> PICK op \in MayCall(t) : todo' = [todo EXCEPT ![t] = Steps(op)]
    BY DEF Call
  <1>1. op \in AllOps /\ (t \in Workers => pc[t] = "callback")
    BY SoftTimerAssumption DEF MayCall
  <1>2. /\ todo[t] = << >> /\ ~ terminated /\ ~ freed
        /\ UNCHANGED <<autoReload, running, deleted, period, worker, pc, left, freed, terminated, age>>
    BY DEF Call, Usable
  <1>3. ~ Before(t, "join") /\ ~ Before(t, "spawn") /\ todo[t] \notin Doomed
    BY <1>2, Firsts, Differ DEF Before
  <1>4. deleted \in BOOLEAN /\ period \in Periods
    BY DEF IInv, Types
  <1> QED
    BY <1>1, <1>2, <1>3, <1>4, Begins, StepOfCall

LEMMA CheckKeeps == ASSUME IInv, NEW t \in Threads, Check(t) PROVE IInv'
  <1> DEFINE s == IF running THEN << >> ELSE Tail(todo[t])
  <1>1. /\ ~ terminated /\ todo[t] # << >> /\ Before(t, "check") /\ todo[t] \in Scripts
        /\ ~ freed /\ todo' = [todo EXCEPT ![t] = s]
        /\ UNCHANGED <<autoReload, running, deleted, period, worker, pc, left, freed, terminated, age>>
    BY InCall DEF Check, At, Done, Goto, Before
  <1>2. t \in Workers => pc[t] = "callback"
    BY <1>1, InCall
  <1>3. Tail(todo[t]) \in Scripts \ PastJoin /\ First(Tail(todo[t])) = "join" /\ todo[t] \notin Doomed
    BY <1>1, Follows, FollowsDoomed, FollowsPastJoin DEF Before
  <1>4. << >> \in Scripts /\ First(<< >>) = "none"
    BY Firsts DEF Scripts
  <1>5. /\ s \in Scripts /\ (s # << >> => s \notin PastJoin) /\ First(s) \in {"none", "join"}
        /\ First(s) = "join" => ~ running
    BY <1>3, <1>4
  <1>6. deleted \in BOOLEAN /\ period \in Periods
    BY DEF IInv, Types
  <1>7. ~ Before(t, "join") /\ ~ Before(t, "spawn")
    BY <1>1 DEF Before
  <1> HIDE DEF s
  <1> QED
    BY <1>1, <1>2, <1>3, <1>5, <1>6, <1>7, StepOfCall

LEMMA LookKeeps == ASSUME IInv, NEW t \in Threads, Look(t) PROVE IInv'
  <1> DEFINE s == IF running THEN StopSteps \o <<"period">> \o StartSteps ELSE <<"period">>
  <1>1. /\ ~ terminated /\ todo[t] # << >> /\ Before(t, "look") /\ todo[t] \in Scripts
        /\ ~ freed /\ todo' = [todo EXCEPT ![t] = s]
        /\ UNCHANGED <<autoReload, running, deleted, period, worker, pc, left, freed, terminated, age>>
    BY InCall DEF Look, At, Goto, Before
  <1>2. t \in Workers => pc[t] = "callback"
    BY <1>1, InCall
  <1>3. todo[t] \notin Doomed /\ ~ Before(t, "join") /\ ~ Before(t, "spawn")
    BY <1>1, FollowsDoomed DEF Before
  <1>4. \A r \in PastJoin : First(r) # "clear"
    BY Firsts DEF PastJoin
  <1>5. /\ s \in Scripts /\ s \notin PastJoin /\ First(s) \in {"clear", "period"}
        /\ First(s) = "period" => ~ running
    BY <1>4, Joined, Firsts, Differ DEF Scripts
  <1>6. deleted \in BOOLEAN /\ period \in Periods
    BY DEF IInv, Types
  <1> HIDE DEF s
  <1> QED
    BY <1>1, <1>2, <1>3, <1>5, <1>6, StepOfCall

LEMMA SetPeriodKeeps == ASSUME IInv, NEW t \in Threads, SetPeriod(t) PROVE IInv'
  <1>1. /\ ~ terminated /\ todo[t] # << >> /\ Before(t, "period") /\ todo[t] \in Scripts
        /\ Tail(todo[t]) \in Scripts /\ todo' = [todo EXCEPT ![t] = Tail(todo[t])]
        /\ UNCHANGED <<autoReload, running, deleted, worker, pc, left, freed, terminated, age>>
        /\ period' \in Periods
    BY Taken, InCall DEF SetPeriod
  <1>2. ~ freed /\ (t \in Workers => pc[t] = "callback" /\ worker = t)
    BY <1>1, InCall
  <1>3. /\ todo[t] \notin Doomed /\ ~ Before(t, "join") /\ ~ Before(t, "spawn")
        /\ Tail(todo[t]) \notin PastJoin /\ First(Tail(todo[t])) \in {"none", "check"}
    BY <1>1, Follows, FollowsDoomed, FollowsPastJoin DEF Before
  <1>4. ~ running \/ \A w \in Workers : pc[w] # "sleep"
    <2>1. CASE t \in Controllers
      BY <1>1, <2>1 DEF IInv, ControllerKnows, Before
    <2>2. CASE t \in Workers
      BY <1>2, <2>2 DEF IInv, OwnWorker
    <2> QED
      BY <2>1, <2>2 DEF Threads
  <1>5. deleted \in BOOLEAN
    BY DEF IInv, Types
  <1> QED
    BY <1>1, <1>2, <1>3, <1>4, <1>5, StepOfCall

LEMMA MarkKeeps == ASSUME IInv, NEW t \in Threads, Mark(t) PROVE IInv'
  <1>1. /\ ~ terminated /\ todo[t] # << >> /\ Before(t, "mark") /\ todo[t] \in Scripts
        /\ Tail(todo[t]) \in Scripts /\ todo' = [todo EXCEPT ![t] = Tail(todo[t])]
        /\ UNCHANGED <<autoReload, running, period, worker, pc, left, freed, terminated, age>>
        /\ deleted' = TRUE
    BY Taken, InCall DEF Mark
  <1>2. ~ freed /\ (t \in Workers => pc[t] = "callback")
    BY <1>1, InCall
  <1>3. /\ Tail(todo[t]) \in Doomed /\ ~ Before(t, "join") /\ ~ Before(t, "spawn")
        /\ Tail(todo[t]) \notin PastJoin /\ First(Tail(todo[t])) = "clear"
    BY <1>1, Follows, FollowsDoomed, FollowsPastJoin DEF Before
  <1>4. period \in Periods
    BY DEF IInv, Types
  <1> QED
    BY <1>1, <1>2, <1>3, <1>4, StepOfCall

\* Nobody but the controller gets to set, spawn and free.
LEMMA ByController ==
  ASSUME IInv, OneController, NEW t \in Threads, todo[t] # << >>,
         First(todo[t]) \in {"set", "spawn", "free"}
  PROVE  /\ t \in Controllers /\ worker = NoThread /\ Live = {}
         /\ \A w \in Workers : pc[w] = "none" /\ todo[w] = << >>
         /\ \A u \in Threads : u # t => todo[u] = << >>
  <1>1. t \in Controllers
    BY InCall DEF Threads
  <1>2. worker = NoThread
    BY <1>1 DEF IInv, ControllerKnows
  <1>3. \A w \in Workers : pc[w] = "none" /\ todo[w] = << >>
    BY <1>2, SoftTimerAssumption DEF IInv, OwnWorker, CallsFromCallback
  <1> QED
    BY <1>1, <1>2, <1>3 DEF OneController, Threads, Live

LEMMA SetKeeps == ASSUME IInv, OneController, NEW t \in Threads, Set(t) PROVE IInv'
  <1> USE DEF IInv
  <1>1. /\ ~ terminated /\ todo[t] # << >> /\ Before(t, "set") /\ todo[t] \in Scripts
        /\ Tail(todo[t]) \in Scripts /\ todo' = [todo EXCEPT ![t] = Tail(todo[t])]
        /\ todo'[t] = Tail(todo[t]) /\ \A u \in Threads : u # t => todo'[u] = todo[u]
        /\ UNCHANGED <<autoReload, deleted, period, worker, pc, left, freed, terminated>>
        /\ running' = TRUE /\ age' = 0
    BY Taken, InCall DEF Set
  <1>2. /\ t \in Controllers /\ worker = NoThread /\ Live = {}
        /\ \A w \in Workers : pc[w] = "none" /\ todo[w] = << >>
        /\ \A u \in Threads : u # t => todo[u] = << >>
    BY <1>1, ByController DEF Before
  <1>3. First(todo'[t]) = "spawn" /\ ~ freed /\ Live' = Live /\ t \notin Workers /\ todo[t] \notin Doomed
    BY <1>1, <1>2, InCall, Follows, FollowsDoomed, SoftTimerAssumption DEF Before, Live
  <1>4. Types'
    BY <1>1, SoftTimerAssumption DEF Types
  <1>5. OwnWorker' /\ CallsFromCallback'
    BY <1>1, <1>2, <1>3 DEF OwnWorker, CallsFromCallback, Threads
  <1>6. ControllerKnows'
    BY <1>1, <1>2, <1>3 DEF ControllerKnows, Before, OneController
  <1>7. RunningIsAlive' /\ StoppedIsAwaited'
    BY <1>1, <1>2, <1>3 DEF RunningIsAlive, StoppedIsAwaited, Before
  <1>8. DeletedIsDoomed' /\ FreedIsLeft'
    BY <1>1, <1>2, <1>3, Differ DEF DeletedIsDoomed, FreedIsLeft
  <1>9. SleepIsLong' /\ NeverTerminates'
    BY <1>1, <1>2 DEF SleepIsLong, NeverTerminates
  <1> QED
    BY <1>4, <1>5, <1>6, <1>7, <1>8, <1>9

LEMMA SpawnKeeps == ASSUME IInv, OneController, NEW t \in Threads, Spawn(t) PROVE IInv'
  <1> USE DEF IInv
  <1>1. ~ terminated /\ todo[t] # << >> /\ Before(t, "spawn") /\ todo[t] \in Scripts
    BY InCall DEF Spawn, At, Before
  <1>2. /\ t \in Controllers /\ worker = NoThread /\ Live = {} /\ running
        /\ \A w \in Workers : pc[w] = "none" /\ todo[w] = << >>
        /\ \A u \in Threads : u # t => todo[u] = << >>
    BY <1>1, ByController DEF Before, ControllerKnows
  <1>3. /\ Done(t) /\ UNCHANGED <<autoReload, running, deleted, period, left, freed, terminated, age>>
        /\ \E w \in Workers : worker' = w /\ pc' = [pc EXCEPT ![w] = "top"]
    BY <1>2 DEF Spawn
  <1>4. /\ Tail(todo[t]) \in Scripts /\ todo' = [todo EXCEPT ![t] = Tail(todo[t])]
        /\ todo'[t] = Tail(todo[t]) /\ \A u \in Threads : u # t => todo'[u] = todo[u]
    BY <1>3, Taken DEF Spawn
  <1>5. /\ todo'[t] = << >> /\ First(todo'[t]) = "none"
        /\ ~ freed /\ t \notin Workers /\ todo[t] \notin Doomed
    <2>1. Tail(todo[t]) = << >> /\ todo[t] \notin Doomed
      BY <1>1, Follows, FollowsDoomed DEF Before
    <2>2. ~ freed /\ t \notin Workers
      BY <1>1, <1>2, InCall, SoftTimerAssumption
    <2> QED
      BY <1>4, <2>1, <2>2, Firsts
  <1> PICK w \in Workers : worker' = w /\ pc' = [pc EXCEPT ![w] = "top"]
    BY <1>3
  <1>6. /\ pc'[w] = "top" /\ \A v \in Workers : v # w => pc'[v] = "none"
        /\ w \in Live'
    BY <1>2 DEF Types, Live
  <1>7. Types'
    BY <1>3, <1>4 DEF Types
  <1>8. OwnWorker' /\ CallsFromCallback'
    BY <1>2, <1>4, <1>5, <1>6 DEF OwnWorker, CallsFromCallback, Threads
  <1>9. ControllerKnows'
    BY <1>2, <1>4, <1>5, <1>6 DEF ControllerKnows, Before, OneController
  <1>10. RunningIsAlive' /\ StoppedIsAwaited'
    BY <1>2, <1>3, <1>6 DEF RunningIsAlive, StoppedIsAwaited
  <1>11. DeletedIsDoomed' /\ FreedIsLeft'
    BY <1>2, <1>3, <1>4, <1>5, Differ DEF DeletedIsDoomed, FreedIsLeft
  <1>12. SleepIsLong' /\ NeverTerminates'
    BY <1>1, <1>3, <1>6 DEF SleepIsLong, NeverTerminates
  <1> QED
    BY <1>7, <1>8, <1>9, <1>10, <1>11, <1>12

LEMMA ClearKeeps == ASSUME IInv, OneController, NEW t \in Threads, Clear(t) PROVE IInv'
  <1> USE DEF IInv
  <1>1. /\ ~ terminated /\ todo[t] # << >> /\ Before(t, "clear") /\ todo[t] \in Scripts
        /\ Tail(todo[t]) \in Scripts /\ todo' = [todo EXCEPT ![t] = Tail(todo[t])]
        /\ todo'[t] = Tail(todo[t]) /\ \A u \in Threads : u # t => todo'[u] = todo[u]
        /\ UNCHANGED <<autoReload, deleted, period, worker, pc, left, freed, terminated, age>>
        /\ running' = FALSE
    BY Taken, InCall DEF Clear
  <1>2. /\ ~ freed /\ First(todo'[t]) = "join" /\ Live' = Live
        /\ todo'[t] \notin PastJoin /\ (todo[t] \in Doomed => todo'[t] \in Doomed)
        /\ t \in Workers => pc[t] = "callback"
    BY <1>1, InCall, Follows, FollowsDoomed, FollowsPastJoin DEF Before, Live
  <1>3. Types'
    BY <1>1 DEF Types
  <1>4. OwnWorker' /\ CallsFromCallback'
    BY <1>1, <1>2 DEF OwnWorker, CallsFromCallback, Threads
  <1>5. ControllerKnows'
    <2>1. \A c \in Controllers : c # t => ~ Before(c, "spawn")
      <3> SUFFICES ASSUME NEW c \in Controllers, c # t, Before(c, "spawn") PROVE FALSE
        OBVIOUS
      <3>1. todo[c] # << >> /\ First(todo[c]) = "spawn" /\ c \in Threads
        BY Firsts DEF Before, Threads
      <3> QED
        BY <1>1, <3>1, ByController
    <2> QED
      BY <1>1, <1>2, <2>1 DEF ControllerKnows, Before
  <1>6. RunningIsAlive' /\ StoppedIsAwaited'
    BY <1>1, <1>2 DEF RunningIsAlive, StoppedIsAwaited, Before
  <1>7. DeletedIsDoomed' /\ FreedIsLeft'
    BY <1>1, <1>2 DEF DeletedIsDoomed, FreedIsLeft
  <1>8. SleepIsLong' /\ NeverTerminates'
    BY <1>1 DEF SleepIsLong, NeverTerminates
  <1> QED
    BY <1>3, <1>4, <1>5, <1>6, <1>7, <1>8

LEMMA JoinKeeps == ASSUME IInv, OneController, NEW t \in Threads, Join(t) PROVE IInv'
  <1> USE DEF IInv
  <1>1. ~ terminated /\ todo[t] # << >> /\ Before(t, "join") /\ todo[t] \in Scripts /\ ~ freed
    BY InCall DEF Join, At, Before
  <1>2. CASE worker = t
    <2>1. t \in Workers /\ pc[t] = "callback" /\ Head(todo[t]) = "join"
      <3>1. t # NoThread
        BY SoftTimerAssumption DEF Threads
      <3> QED
        BY <1>1, <1>2, <3>1, InCall DEF Types, Before
    <2>2. /\ terminated' = TRUE
          /\ UNCHANGED <<autoReload, running, deleted, period, worker, pc, left, todo, freed, age>>
      BY <1>2 DEF Join
    <2>3. NeverTerminates'
      BY <1>1, <2>1, <2>2 DEF NeverTerminates
    <2>4. Types' /\ OwnWorker' /\ CallsFromCallback'
      BY <2>2 DEF Types, OwnWorker, CallsFromCallback
    <2>5. ControllerKnows' /\ RunningIsAlive' /\ StoppedIsAwaited'
      BY <2>2 DEF ControllerKnows, RunningIsAlive, StoppedIsAwaited, Before, Live
    <2>6. DeletedIsDoomed' /\ FreedIsLeft' /\ SleepIsLong'
      BY <2>2 DEF DeletedIsDoomed, FreedIsLeft, SleepIsLong
    <2> QED
      BY <2>3, <2>4, <2>5, <2>6
  <1>3. CASE worker # t
    <2>1. t \in Controllers /\ t \notin Workers /\ ~ running
      BY <1>1, <1>3, InCall, SoftTimerAssumption DEF Threads, ControllerKnows, Before
    <2>2. /\ worker # NoThread => pc[worker] = "ended"
          /\ pc' = [w \in Workers |-> IF w = worker THEN "none" ELSE pc[w]]
          /\ worker' = NoThread /\ Done(t)
          /\ UNCHANGED <<autoReload, running, deleted, period, left, freed, terminated, age>>
      BY <1>3 DEF Join
    <2>3. /\ Tail(todo[t]) \in Scripts /\ todo' = [todo EXCEPT ![t] = Tail(todo[t])]
          /\ todo'[t] = Tail(todo[t]) /\ \A u \in Threads : u # t => todo'[u] = todo[u]
      BY <2>2, Taken DEF Join
    <2>4. /\ First(todo'[t]) \in {"none", "set", "check", "period", "free"}
          /\ todo[t] \in Doomed => todo'[t] \in Doomed
      BY <1>1, <2>3, Follows, FollowsDoomed DEF Before
    <2>5. /\ \A w \in Workers : pc'[w] = "none" /\ todo[w] = << >>
          /\ \A u \in Threads : u # t => todo[u] = << >>
      <3>1. \A w \in Workers : pc[w] # "callback" /\ pc'[w] = "none"
        BY <2>2, SoftTimerAssumption DEF OwnWorker
      <3> QED
        BY <2>1, <3>1 DEF CallsFromCallback, OneController, Threads
    <2>6. Live' = {}
      BY <2>5 DEF Live
    <2>7. Types'
      BY <2>2, <2>3 DEF Types
    <2>8. OwnWorker' /\ CallsFromCallback'
      BY <2>1, <2>2, <2>3, <2>5, SoftTimerAssumption DEF OwnWorker, CallsFromCallback, Threads
    <2>9. ControllerKnows'
      BY <2>1, <2>2, <2>4 DEF ControllerKnows, Before, OneController
    <2>10. RunningIsAlive' /\ StoppedIsAwaited'
      BY <2>1, <2>2, <2>6 DEF RunningIsAlive, StoppedIsAwaited
    <2>11. DeletedIsDoomed' /\ FreedIsLeft'
      BY <1>1, <2>2, <2>3, <2>4 DEF DeletedIsDoomed, FreedIsLeft
    <2>12. SleepIsLong' /\ NeverTerminates'
      BY <1>1, <2>2, <2>5 DEF SleepIsLong, NeverTerminates
    <2> QED
      BY <2>7, <2>8, <2>9, <2>10, <2>11, <2>12
  <1> QED
    BY <1>2, <1>3

LEMMA FreeKeeps == ASSUME IInv, OneController, NEW t \in Threads, Free(t) PROVE IInv'
  <1> USE DEF IInv
  <1>1. /\ ~ terminated /\ todo[t] # << >> /\ Before(t, "free") /\ todo[t] \in Scripts
        /\ Tail(todo[t]) \in Scripts /\ todo' = [todo EXCEPT ![t] = Tail(todo[t])]
        /\ todo'[t] = Tail(todo[t]) /\ \A u \in Threads : u # t => todo'[u] = todo[u]
        /\ UNCHANGED <<autoReload, running, deleted, period, worker, pc, left, terminated, age>>
        /\ freed' = TRUE
    BY Taken, InCall DEF Free
  <1>2. /\ t \in Controllers /\ worker = NoThread /\ Live = {} /\ ~ running
        /\ \A w \in Workers : pc[w] = "none" /\ todo[w] = << >>
        /\ \A u \in Threads : u # t => todo[u] = << >>
    BY <1>1, ByController DEF Before, ControllerKnows
  <1>3. /\ todo'[t] = << >> /\ Live' = Live /\ t \notin Workers
        /\ First(<< >>) = "none"
    <2>1. Tail(todo[t]) = << >>
      <3>1. todo[t] \in Scripts /\ First(todo[t]) = "free"
        BY <1>1 DEF Before
      <3> QED
        BY <3>1, Follows
    <2>2. Live' = Live
      BY <1>1 DEF Live
    <2>3. t \notin Workers
      BY <1>2, SoftTimerAssumption
    <2> QED
      BY <1>1, <2>1, <2>2, <2>3, Firsts
  <1>4. \A u \in Threads : todo'[u] = << >>
    BY <1>1, <1>2, <1>3
  <1>5. Types'
    BY <1>1 DEF Types
  <1>6. OwnWorker' /\ CallsFromCallback'
    BY <1>1, <1>4 DEF OwnWorker, CallsFromCallback, Threads
  <1>7. ControllerKnows'
    BY <1>3, <1>4 DEF ControllerKnows, Before, Threads
  <1>8. RunningIsAlive' /\ StoppedIsAwaited'
    BY <1>1, <1>2, <1>3 DEF RunningIsAlive, StoppedIsAwaited
  <1>9. DeletedIsDoomed' /\ FreedIsLeft'
    BY <1>1, <1>2, <1>4 DEF DeletedIsDoomed, FreedIsLeft
  <1>10. SleepIsLong' /\ NeverTerminates'
    BY <1>1 DEF SleepIsLong, NeverTerminates
  <1> QED
    BY <1>5, <1>6, <1>7, <1>8, <1>9, <1>10

\* A step of the worker: its next place is none unless it goes there.
LEMMA WorkerKeeps == ASSUME IInv, NEW w \in Workers, Work(w) PROVE IInv'
  <1> USE DEF IInv
  <1>1. /\ ~ terminated /\ worker = w /\ todo[w] = << >>
        /\ pc[w] \in {"top", "sleep", "callback"} /\ w \in Live
        /\ \A v \in Workers : v # w => pc[v] = "none"
    <2>1. ~ terminated /\ pc[w] \in {"top", "sleep", "callback"} /\ todo[w] = << >>
      BY DEF Work, Top, Quit, Fire, CallbackReturns, Go, CallsFromCallback
    <2> QED
      BY <2>1 DEF OwnWorker, Live
  <1>2. /\ UNCHANGED <<autoReload, deleted, period, worker, todo, freed, terminated>>
        /\ ~ freed /\ w \in Threads
    BY <1>1, SoftTimerAssumption DEF Work, Top, Quit, Fire, CallbackReturns, FreedIsLeft, Threads
  <1> PICK place \in {"top", "sleep", "callback", "ended"} : pc' = [pc EXCEPT ![w] = place]
    BY DEF Work, Top, Quit, Fire, CallbackReturns, Go
  <1>3. /\ pc'[w] = place /\ \A v \in Workers : v # w => pc'[v] = "none"
        /\ Live' = IF place = "ended" THEN {} ELSE {w}
    BY <1>1 DEF Types, Live
  <1>4. /\ running' \in BOOLEAN /\ age' \in 0 .. MaxPeriod
        /\ left' \in [Workers -> 0 .. MaxPeriod]
        /\ running' => running
        /\ running /\ ~ running' => place = "ended"
        /\ running' /\ place = "ended" => deleted
        /\ place = "sleep" => left'[w] = period /\ age' = age
    <2>1. /\ running \in BOOLEAN /\ age \in 0 .. MaxPeriod /\ 0 \in 0 .. MaxPeriod
          /\ left \in [Workers -> 0 .. MaxPeriod] /\ period \in 0 .. MaxPeriod
      BY SoftTimerAssumption DEF Types, Periods
    <2>2. CASE Top(w)
      <3>1. /\ place = IF running /\ ~ deleted THEN "sleep" ELSE "ended"
            /\ running' = running /\ age' = age
            /\ left' = left \/ left' = [left EXCEPT ![w] = period]
            /\ place = "sleep" => left' = [left EXCEPT ![w] = period]
        BY <1>3, <2>2 DEF Top, Go, Types
      <3> QED
        BY <2>1, <3>1
    <2>3. CASE Quit(w)
      <3>1. place = "ended" /\ running' = running /\ age' = age /\ left' = left /\ (~ running \/ deleted)
        BY <1>3, <2>3 DEF Quit, Go, Types
      <3> QED
        BY <2>1, <3>1
    <2>4. CASE Fire(w)
      <3>1. place = "callback" /\ running' = running /\ age' = 0 /\ left' = left
        BY <1>3, <2>4 DEF Fire, Go, Types
      <3> QED
        BY <2>1, <3>1
    <2>5. CASE CallbackReturns(w)
      <3>1. /\ age' = age /\ left' = left
            /\ \/ place = "top" /\ running' = running
               \/ place = "ended" /\ running' = FALSE
        BY <1>3, <2>5 DEF CallbackReturns, Go, Types
      <3>2. CASE place = "top" /\ running' = running
        BY <2>1, <3>1, <3>2
      <3>3. CASE place = "ended" /\ running' = FALSE
        BY <2>1, <3>1, <3>3
      <3> QED
        BY <3>1, <3>2, <3>3
    <2> QED
      BY <2>2, <2>3, <2>4, <2>5 DEF Work
  <1>5. \A c \in Controllers : ~ Before(c, "spawn")
    BY <1>1, SoftTimerAssumption DEF ControllerKnows, Before
  <1>6. Types'
    BY <1>2, <1>4 DEF Types
  <1>7. OwnWorker' /\ CallsFromCallback'
    BY <1>1, <1>2, <1>3 DEF OwnWorker, CallsFromCallback
  <1>8. ControllerKnows'
    BY <1>2, <1>4, <1>5 DEF ControllerKnows, Before
  <1>9. RunningIsAlive' /\ StoppedIsAwaited'
    BY <1>1, <1>2, <1>3, <1>4 DEF RunningIsAlive, StoppedIsAwaited, Before
  <1>10. DeletedIsDoomed' /\ FreedIsLeft'
    BY <1>2 DEF DeletedIsDoomed, FreedIsLeft
  <1>11. SleepIsLong' /\ NeverTerminates'
    <2>1. period \in Nat /\ age \in Nat
      BY DEF Types, Periods
    <2> QED
      BY <1>1, <1>2, <1>3, <1>4, <2>1 DEF SleepIsLong, NeverTerminates
  <1> QED
    BY <1>6, <1>7, <1>8, <1>9, <1>10, <1>11

LEMMA TickKeeps == ASSUME IInv, Tick PROVE IInv'
  <1> USE DEF IInv
  <1>1. UNCHANGED <<autoReload, running, deleted, period, worker, pc, todo, freed, terminated>>
    BY DEF Tick
  <1>2. Types'
    BY <1>1, SoftTimerAssumption DEF Tick, Types, Periods
  <1>3. OwnWorker' /\ CallsFromCallback' /\ ControllerKnows'
    BY <1>1 DEF OwnWorker, CallsFromCallback, ControllerKnows, Before
  <1>4. RunningIsAlive' /\ StoppedIsAwaited'
    BY <1>1 DEF RunningIsAlive, StoppedIsAwaited, Before, Live
  <1>5. DeletedIsDoomed' /\ FreedIsLeft' /\ NeverTerminates'
    BY <1>1 DEF DeletedIsDoomed, FreedIsLeft, NeverTerminates
  <1>6. SleepIsLong'
    BY <1>1, SoftTimerAssumption DEF Tick, SleepIsLong, Types, Periods
  <1> QED
    BY <1>2, <1>3, <1>4, <1>5, <1>6

-----------------------------------------------------------------------------
LEMMA Initially == Init => IInv
  <1> SUFFICES ASSUME Init PROVE IInv
    OBVIOUS
  <1>1. \A t \in Threads : First(todo[t]) = "none" /\ todo[t] = << >>
    BY Firsts DEF Init
  <1>2. Live = {} /\ (\A w \in Workers : pc[w] = "none" /\ worker # w) /\ << >> \in Scripts
    BY SoftTimerAssumption DEF Init, Live, Scripts
  <1>3. Types
    <2>1. autoReload \in BOOLEAN
      BY Zenon DEF Init
    <2>2. 0 \in 0 .. MaxPeriod
      BY SoftTimerAssumption
    <2> QED
      BY <1>2, <2>1, <2>2 DEF Init, Types
  <1>4. OwnWorker /\ CallsFromCallback /\ ControllerKnows
    BY <1>1, <1>2 DEF OwnWorker, CallsFromCallback, ControllerKnows, Before, Threads
  <1>5. RunningIsAlive /\ StoppedIsAwaited /\ DeletedIsDoomed /\ FreedIsLeft
    BY <1>2 DEF Init, RunningIsAlive, StoppedIsAwaited, DeletedIsDoomed, FreedIsLeft
  <1>6. SleepIsLong /\ NeverTerminates
    BY <1>2 DEF Init, SleepIsLong, NeverTerminates
  <1> QED
    BY <1>3, <1>4, <1>5, <1>6 DEF IInv

LEMMA Preserved == ASSUME OneController PROVE IInv /\ [Next]_vars => IInv'
  <1> SUFFICES ASSUME IInv, [Next]_vars PROVE IInv'
    OBVIOUS
  <1>1. ASSUME NEW t \in Threads, Call(t) \/ Step(t) PROVE IInv'
    BY <1>1, CallKeeps, CheckKeeps, JoinKeeps, SetKeeps, SpawnKeeps, ClearKeeps, LookKeeps,
       SetPeriodKeeps, MarkKeeps, FreeKeeps
    DEF Step
  <1>2. ASSUME NEW w \in Workers, Work(w) PROVE IInv'
    BY <1>2, WorkerKeeps
  <1>3. CASE Tick
    BY <1>3, TickKeeps
  <1>4. CASE UNCHANGED vars
    BY <1>4
    DEF vars, IInv, Types, OwnWorker, CallsFromCallback, ControllerKnows, RunningIsAlive,
        StoppedIsAwaited, DeletedIsDoomed, FreedIsLeft, SleepIsLong, NeverTerminates, Before, Live
  <1> QED
    BY <1>1, <1>2, <1>3, <1>4 DEF Next

THEOREM Invariant == ASSUME OneController PROVE Spec => []IInv
  <1>1. IInv /\ [Next]_vars => IInv'
    BY Preserved
  <1> QED
    BY <1>1, Initially, PTL DEF Spec

\* std::terminate is called only by a callback that joins its own thread.
THEOREM TimerNeverTerminates == ASSUME OneController PROVE Spec => []NeverTerminates
  <1>1. IInv => NeverTerminates
    BY DEF IInv
  <1> QED
    BY <1>1, Invariant, PTL

\* There is one worker at a time, and between calls there is one exactly if the
\* timer is active.
THEOREM TimerIsActiveIffWorker == ASSUME OneController PROVE Spec => []ActiveIffWorker
  <1>1. IInv => ActiveIffWorker
    <2> SUFFICES ASSUME IInv PROVE ActiveIffWorker
      OBVIOUS
    <2>1. Cardinality(Live) <= 1
      <3>1. Live = {} \/ Live = {worker}
        BY DEF IInv, OwnWorker, Live
      <3>2. Cardinality(Live) = 0 \/ Cardinality(Live) = 1
        BY <3>1, FS_EmptySet, FS_Singleton, Zenon
      <3> QED
        BY <3>2
    <2>2. ASSUME Quiet PROVE running <=> Live # {}
      <3>1. /\ \A t \in Threads : First(todo[t]) = "none" /\ todo[t] \notin Doomed
            /\ \A t \in Threads : ~ Before(t, "join") /\ ~ Before(t, "spawn")
        BY <2>2, Firsts, Differ DEF Quiet, Before
      <3>2. running => ~ deleted
        BY <3>1 DEF IInv, DeletedIsDoomed, FreedIsLeft
      <3> QED
        BY <3>1, <3>2 DEF IInv, RunningIsAlive, StoppedIsAwaited, Threads
    <2> QED
      BY <2>1, <2>2 DEF ActiveIffWorker
  <1> QED
    BY <1>1, Invariant, PTL

\* A timer is freed when its worker is gone.
THEOREM FreedTimerIsUnused == ASSUME OneController PROVE Spec => []NothingUsesFreedTimer
  <1>1. IInv => NothingUsesFreedTimer
    BY SoftTimerAssumption DEF IInv, NothingUsesFreedTimer, FreedIsLeft, OwnWorker, Live
  <1> QED
    BY <1>1, Invariant, PTL

\* No callback comes before the period in force has passed since the timer was
\* started or called back last.
THEOREM TimerIsNeverEarly == ASSUME OneController PROVE Spec => NeverEarly
  <1>1. IInv /\ [Next]_vars =>
          [\A w \in Workers : pc[w] # "callback" /\ pc'[w] = "callback" => age >= period]_vars
    <2> SUFFICES ASSUME IInv, Next, NEW w \in Workers, pc[w] # "callback", pc'[w] = "callback"
                 PROVE  age >= period
      OBVIOUS
    <2>1. ASSUME NEW t \in Threads, Call(t) \/ Step(t) PROVE FALSE
      <3>1. CASE Join(t)
        BY <2>1, <3>1 DEF Join
      <3>2. CASE Spawn(t)
        BY <2>1, <3>2 DEF Spawn, IInv, Types
      <3>3. CASE ~ Join(t) /\ ~ Spawn(t)
        BY <2>1, <3>3 DEF Step, Call, Check, Set, Clear, Look, SetPeriod, Mark, Free
      <3> QED
        BY <3>1, <3>2, <3>3
    <2>2. ASSUME NEW v \in Workers, Work(v) PROVE age >= period
      <3>1. v = w /\ Fire(w)
        BY <2>2 DEF Work, Top, Quit, Fire, CallbackReturns, Go, IInv, Types
      <3>2. age \in Nat /\ period \in Nat
        BY DEF IInv, Types, Periods
      <3> QED
        BY <3>1, <3>2 DEF Fire, IInv, SleepIsLong
    <2> QED
      BY <2>1, <2>2 DEF Next, Tick
  <1> QED
    BY <1>1, Invariant, PTL DEF Spec, NeverEarly
=============================================================================
