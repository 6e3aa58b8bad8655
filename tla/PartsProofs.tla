----------------------------- MODULE PartsProofs -----------------------------
(***************************************************************************)
(* Proofs about MCParts, for any tasks, attachments, subscriptions, clients *)
(* and requests: tasks are deleted when they are over and never forgotten,  *)
(* the periods of the cooperative scheduler are whole, a Ticker runs the    *)
(* callback attached last, a publish calls back once per match, an HTTP     *)
(* exchange tells the truth unless a receive timeout cut it short, and a    *)
(* call of an MQTT client that waits for its own thread waits for ever.     *)
(* Each part has an inductive invariant of its own.                         *)
(***************************************************************************)
EXTENDS MCParts, SequenceTheorems, FiniteSetTheorems, TLAPS

\* Lists.
\* A new element keeps a list injective.
LEMMA AppendedSet ==
  ASSUME NEW S, NEW s \in Seq(S), NEW e \in S
  PROVE  /\ ToSet(Append(s, e)) = ToSet(s) \cup {e}
         /\ IsInjective(s) /\ e \notin ToSet(s) => IsInjective(Append(s, e))
  <1> DEFINE a == Append(s, e)
             n == Len(s)
  <1>1. /\ n \in Nat /\ DOMAIN s = 1 .. n /\ DOMAIN a = 1 .. n + 1
        /\ a[n + 1] = e /\ \A i \in 1 .. n : a[i] = s[i]
    BY AppendProperties, LenProperties
  <1> HIDE DEF a, n
  <1>2. \A i \in 1 .. n + 1 : i \in 1 .. n \/ i = n + 1
    BY <1>1
  <1>3. ToSet(a) = ToSet(s) \cup {e}
    BY <1>1, <1>2 DEF ToSet
  <1>4. ASSUME IsInjective(s), e \notin ToSet(s), NEW i \in DOMAIN a, NEW j \in DOMAIN a, a[i] = a[j]
        PROVE  i = j
    <2>1. \A k \in 1 .. n : s[k] # e
      BY <1>1, <1>4 DEF ToSet
    <2> QED
      BY <1>1, <1>2, <1>4, <2>1 DEF IsInjective
  <1> QED
    BY <1>3, <1>4 DEF IsInjective, a

\* The head of an injective list is not in its tail.
LEMMA TailSet ==
  ASSUME NEW S, NEW s \in Seq(S), s # << >>
  PROVE  /\ Head(s) \in S /\ Tail(s) \in Seq(S)
         /\ ToSet(s) = ToSet(Tail(s)) \cup {Head(s)}
         /\ IsInjective(s) => IsInjective(Tail(s)) /\ Head(s) \notin ToSet(Tail(s))
  <1>1. /\ Head(s) \in S /\ Tail(s) \in Seq(S) /\ Len(Tail(s)) = Len(s) - 1
        /\ \A i \in 1 .. Len(Tail(s)) : Tail(s)[i] = s[i + 1]
    BY HeadTailProperties
  <1>2. Len(s) \in Nat \ {0} /\ Head(s) = s[1]
    BY EmptySeq
  <1>3. DOMAIN s = 1 .. Len(s) /\ DOMAIN Tail(s) = 1 .. Len(s) - 1
    BY <1>1, <1>2, LenProperties
  <1>4. \A j \in 2 .. Len(s) : j - 1 \in 1 .. Len(s) - 1 /\ s[j] = Tail(s)[j - 1]
    BY <1>1, <1>2, <1>3
  <1>5. ToSet(s) = ToSet(Tail(s)) \cup {Head(s)}
    <2>1. ASSUME NEW i \in DOMAIN s PROVE s[i] \in ToSet(Tail(s)) \cup {Head(s)}
      <3>1. CASE i = 1
        BY <1>2, <3>1
      <3>2. CASE i # 1
        <4>1. i - 1 \in DOMAIN Tail(s) /\ s[i] = Tail(s)[i - 1]
          BY <1>2, <1>3, <1>4, <3>2
        <4> QED
          BY <4>1 DEF ToSet
      <3> QED
        BY <3>1, <3>2
    <2>2. ASSUME NEW i \in DOMAIN Tail(s) PROVE Tail(s)[i] \in ToSet(s)
      <3>1. i + 1 \in DOMAIN s /\ s[i + 1] = Tail(s)[i]
        BY <1>1, <1>2, <1>3
      <3> QED
        BY <3>1 DEF ToSet
    <2>3. Head(s) \in ToSet(s)
      BY <1>2, <1>3 DEF ToSet
    <2> QED
      BY <2>1, <2>2, <2>3 DEF ToSet
  <1>6. ASSUME IsInjective(s), NEW i \in DOMAIN Tail(s), NEW j \in DOMAIN Tail(s),
               Tail(s)[i] = Tail(s)[j]
        PROVE  i = j
    <2>1. /\ i + 1 \in DOMAIN s /\ Tail(s)[i] = s[i + 1]
          /\ j + 1 \in DOMAIN s /\ Tail(s)[j] = s[j + 1]
      BY <1>1, <1>2, <1>3
    <2>2. i + 1 = j + 1
      BY <1>6, <2>1 DEF IsInjective
    <2> QED
      BY <1>2, <1>3, <2>2
  <1>7. ASSUME IsInjective(s), NEW i \in DOMAIN Tail(s) PROVE Tail(s)[i] # Head(s)
    <2>1. i + 1 \in DOMAIN s /\ 1 \in DOMAIN s /\ Tail(s)[i] = s[i + 1] /\ i + 1 # 1
      BY <1>1, <1>2, <1>3
    <2> QED
      BY <1>2, <1>7, <2>1 DEF IsInjective
  <1> QED
    BY <1>1, <1>5, <1>6, <1>7 DEF IsInjective, ToSet

LEMMA EmptySet == ToSet(<< >>) = {} /\ IsInjective(<< >>)
BY DEF ToSet, IsInjective

-----------------------------------------------------------------------------
\* Tasks: steps of xTaskCreate.
InCreate == {Free} \cup {<<s, t>> : s \in {"list", "report"}, t \in TaskIds}

TaskTypes ==
  /\ record \in [TaskIds -> {"none", "live", "deleted"}]
  /\ body \in [TaskIds -> {"none", "runs", "ended"}]
  /\ taskList \in Seq(TaskIds)
  /\ snapshot \in Seq(TaskIds)
  /\ cleaning \in BOOLEAN
  /\ creating \in [Creators -> InCreate]

\* The main thread is in one call at a time.
MainIsOne == /\ snapshot # << >> => cleaning
             /\ cleaning => creating[Main] = Free

\* A task is listed once.
ListedOnce == /\ IsInjective(taskList) /\ IsInjective(snapshot)
              /\ ToSet(taskList) \cap ToSet(snapshot) = {}

\* A task is listed by the one who made it, while it is live.
ListedWhenMade ==
  /\ \A t \in TaskIds : Listed(t) => record[t] = "live"
  /\ \A c \in Creators, t \in TaskIds :
       creating[c] = <<"list", t>> => record[t] = "live" /\ ~ Listed(t)
  /\ \A c, d \in Creators, t \in TaskIds :
       creating[c] = <<"list", t>> /\ creating[d] = <<"list", t>> => c = d

\* What the main thread has made is live when it reads it again.
MainReadsLive == /\ \A t \in TaskIds : creating[Main] = <<"report", t>> => record[t] = "live"
                 /\ Main \notin misread

DeletedHasEnded == \A t \in TaskIds : record[t] = "deleted" => body[t] = "ended"

TaskInv == /\ TaskTypes /\ MainIsOne /\ ListedOnce /\ ListedWhenMade
        /\ MainReadsLive /\ DeletedHasEnded /\ NoTaskIsForgotten

LEMMA StepsDiffer ==
  \A t, u : /\ <<"list", t>> # Free /\ <<"report", t>> # Free
            /\ <<"list", t>> # <<"report", u>>
            /\ <<"list", t>> = <<"list", u>> => t = u
BY DEF Free

LEMMA StartThreadStep ==
  ASSUME TaskInv, NEW c \in Creators, NEW t \in TaskIds, StartThread(c, t)
  PROVE  TaskInv'
  <1> USE DEF TaskInv
  <1>1. /\ creating[c] = Free /\ record[t] = "none" /\ ~ Listed(t)
        /\ \A d \in Creators : creating[d] # <<"list", t>>
    BY DEF StartThread, CanAct, ListedWhenMade
  <1>2. /\ creating'[c] = <<"list", t>>
        /\ \A d \in Creators : d # c => creating'[d] = creating[d]
        /\ record'[t] = "live" /\ \A u \in TaskIds : u # t => record'[u] = record[u]
        /\ \A u \in TaskIds : Listed(u)' <=> Listed(u)
    BY DEF StartThread, TaskTypes, Listed
  <1>3. TaskTypes'
    BY DEF StartThread, TaskTypes, InCreate
  <1>4. MainIsOne' /\ ListedOnce'
    BY <1>2 DEF StartThread, CanAct, MainIsOne, ListedOnce, Creators
  <1>5. ListedWhenMade'
    BY <1>1, <1>2, StepsDiffer DEF ListedWhenMade
  <1>6. MainReadsLive'
    BY <1>1, <1>2, StepsDiffer DEF StartThread, MainReadsLive, Creators
  <1>7. DeletedHasEnded'
    BY <1>2 DEF StartThread, DeletedHasEnded, TaskTypes
  <1>8. NoTaskIsForgotten'
    BY <1>1, <1>2, StepsDiffer DEF NoTaskIsForgotten
  <1> QED
    BY <1>3, <1>4, <1>5, <1>6, <1>7, <1>8

LEMMA ListStep ==
  ASSUME TaskInv, NEW c \in Creators, NEW t \in TaskIds, List(c, t)
  PROVE  TaskInv'
  <1> USE DEF TaskInv
  <1>1. creating[c] = <<"list", t>> /\ record[t] = "live" /\ ~ Listed(t)
    BY DEF List, ListedWhenMade
  <1>2. /\ ToSet(taskList') = ToSet(taskList) \cup {t}
        /\ IsInjective(taskList') /\ taskList' \in Seq(TaskIds)
    BY <1>1, AppendedSet, AppendProperties DEF List, TaskTypes, ListedOnce, Listed
  <1>3. /\ creating'[c] = <<"report", t>>
        /\ \A d \in Creators : d # c => creating'[d] = creating[d]
        /\ \A u \in TaskIds : Listed(u)' <=> Listed(u) \/ u = t
    BY <1>2 DEF List, TaskTypes, Listed
  <1>4. TaskTypes'
    BY <1>2 DEF List, TaskTypes, InCreate
  <1>5. MainIsOne' /\ ListedOnce'
    BY <1>1, <1>2, <1>3, StepsDiffer DEF List, MainIsOne, ListedOnce, Listed, Creators
  <1>6. ListedWhenMade'
    BY <1>1, <1>3, StepsDiffer DEF List, ListedWhenMade
  <1>7. MainReadsLive' /\ DeletedHasEnded'
    BY <1>1, <1>3, StepsDiffer DEF List, MainReadsLive, DeletedHasEnded, Creators
  <1>8. NoTaskIsForgotten'
    BY <1>1, <1>3, StepsDiffer DEF List, NoTaskIsForgotten
  <1> QED
    BY <1>4, <1>5, <1>6, <1>7, <1>8

LEMMA ReportStep ==
  ASSUME TaskInv, NEW c \in Creators, NEW t \in TaskIds, Report(c, t)
  PROVE  TaskInv'
  <1> USE DEF TaskInv
  <1>1. /\ creating[c] = <<"report", t>> /\ creating'[c] = Free
        /\ \A d \in Creators : d # c => creating'[d] = creating[d]
        /\ \A u \in TaskIds : Listed(u)' <=> Listed(u)
    BY DEF Report, TaskTypes, Listed
  <1>2. TaskTypes'
    BY DEF Report, TaskTypes, InCreate
  <1>3. MainIsOne' /\ ListedOnce'
    BY <1>1 DEF Report, MainIsOne, ListedOnce, Creators
  <1>4. ListedWhenMade'
    <2>1. /\ record' = record
          /\ \A d \in Creators, u \in TaskIds :
               creating'[d] = <<"list", u>> => creating[d] = <<"list", u>>
      BY <1>1, StepsDiffer DEF Report
    <2> QED
      BY <1>1, <2>1 DEF ListedWhenMade
  <1>5. MainReadsLive' /\ DeletedHasEnded'
    BY <1>1, StepsDiffer DEF Report, MainReadsLive, DeletedHasEnded, Creators
  <1>6. NoTaskIsForgotten'
    BY <1>1, StepsDiffer DEF Report, NoTaskIsForgotten
  <1> QED
    BY <1>2, <1>3, <1>4, <1>5, <1>6

LEMMA SwapStep == ASSUME TaskInv, Swap PROVE TaskInv'
  <1> USE DEF TaskInv
  <1>1. creating[Main] = Free /\ snapshot = << >>
    BY DEF Swap, CanAct, MainIsOne
  <1>2. \A u \in TaskIds : Listed(u)' <=> Listed(u)
    BY <1>1, EmptySet DEF Swap, Listed
  <1>3. TaskTypes'
    BY DEF Swap, TaskTypes
  <1>4. MainIsOne' /\ ListedOnce'
    BY <1>1, EmptySet DEF Swap, MainIsOne, ListedOnce
  <1>5. ListedWhenMade' /\ MainReadsLive' /\ DeletedHasEnded' /\ NoTaskIsForgotten'
    BY <1>2 DEF Swap, ListedWhenMade, MainReadsLive, DeletedHasEnded, NoTaskIsForgotten
  <1> QED
    BY <1>3, <1>4, <1>5

LEMMA JoinAndDeleteStep == ASSUME TaskInv, JoinAndDelete PROVE TaskInv'
  <1> USE DEF TaskInv
  <1> DEFINE t == Head(snapshot)
  <1>1. /\ snapshot # << >> /\ t \in TaskIds /\ snapshot' \in Seq(TaskIds)
        /\ ToSet(snapshot) = ToSet(snapshot') \cup {t} /\ t \notin ToSet(snapshot')
        /\ IsInjective(snapshot')
    BY TailSet DEF JoinAndDelete, TaskTypes, ListedOnce
  <1>2. /\ body[t] = "ended" /\ record' = [record EXCEPT ![t] = "deleted"]
        /\ UNCHANGED <<body, taskList, cleaning, creating, misread>>
    BY DEF JoinAndDelete, Joined
  <1> HIDE DEF t
  <1>3. \A u \in TaskIds : Listed(u)' <=> Listed(u) /\ u # t
    BY <1>1, <1>2 DEF Listed, ListedOnce
  <1>4. Listed(t) /\ \A u \in TaskIds : record'[u] = IF u = t THEN "deleted" ELSE record[u]
    BY <1>1, <1>2 DEF Listed, TaskTypes
  <1>5. TaskTypes'
    BY <1>1, <1>2 DEF TaskTypes
  <1>6. creating[Main] = Free /\ MainIsOne' /\ ListedOnce'
    BY <1>1, <1>2 DEF MainIsOne, ListedOnce
  <1>7. ListedWhenMade'
    BY <1>2, <1>3, <1>4 DEF ListedWhenMade
  <1>8. MainReadsLive'
    BY <1>2, <1>6, StepsDiffer DEF MainReadsLive
  <1>9. DeletedHasEnded'
    BY <1>2, <1>4 DEF DeletedHasEnded
  <1>10. NoTaskIsForgotten'
    <2>1. \A u \in TaskIds : record'[u] = "live" => u # t /\ record[u] = "live"
      BY <1>4
    <2> QED
      BY <1>2, <1>3, <2>1 DEF NoTaskIsForgotten
  <1> QED
    BY <1>5, <1>6, <1>7, <1>8, <1>9, <1>10

\* A step that lists, deletes and makes nothing, and ends threads at most.
LEMMA OtherTaskStep ==
  ASSUME TaskInv, UNCHANGED <<record, taskList, snapshot, creating, misread>>,
         cleaning' = cleaning \/ (cleaning' = FALSE /\ snapshot = << >>),
         body' \in [TaskIds -> {"none", "runs", "ended"}],
         \A t \in TaskIds : body[t] = "ended" => body'[t] = "ended"
  PROVE  TaskInv'
  <1>1. TaskTypes'
    BY DEF TaskInv, TaskTypes
  <1>2. MainIsOne'
    BY DEF TaskInv, MainIsOne
  <1>3. ListedOnce'
    BY DEF TaskInv, ListedOnce
  <1>4. \A t \in TaskIds : Listed(t)' <=> Listed(t)
    BY DEF Listed
  <1>5. ListedWhenMade'
    BY <1>4 DEF TaskInv, ListedWhenMade
  <1>6. MainReadsLive'
    BY DEF TaskInv, MainReadsLive
  <1>7. DeletedHasEnded'
    BY DEF TaskInv, DeletedHasEnded
  <1>8. NoTaskIsForgotten'
    BY <1>4 DEF TaskInv, NoTaskIsForgotten
  <1> QED
    BY <1>1, <1>2, <1>3, <1>5, <1>6, <1>7, <1>8 DEF TaskInv

THEOREM TaskInvariant == Spec => []TaskInv
  <1>1. Init => TaskInv
    <2> SUFFICES ASSUME Init PROVE TaskInv
      OBVIOUS
    <2>1. TaskTypes
      <3>1. cleaning \in BOOLEAN
        BY Zenon DEF Init
      <3>2. taskList \in Seq(TaskIds) /\ snapshot \in Seq(TaskIds)
        BY EmptySeq DEF Init
      <3> QED
        BY <3>1, <3>2 DEF Init, TaskTypes, InCreate
    <2>2. \A t \in TaskIds : ~ Listed(t)
      BY EmptySet DEF Init, Listed
    <2> QED
      BY <2>1, <2>2, EmptySet, StepsDiffer
      DEF Init, TaskInv, MainIsOne, ListedOnce, ListedWhenMade, MainReadsLive, DeletedHasEnded,
          NoTaskIsForgotten, Creators
  <1>2. TaskInv /\ [Next]_vars => TaskInv'
    <2> SUFFICES ASSUME TaskInv, [Next]_vars PROVE TaskInv'
      OBVIOUS
    <2>1. ASSUME NEW c \in Creators, Create(c) \/ Creating(c) PROVE TaskInv'
      BY <2>1, StartThreadStep, ListStep, ReportStep DEF Create, Creating
    <2>2. ASSUME NEW c \in Creators, NEW t \in TaskIds, Delete(c, t) PROVE TaskInv'
      BY <2>2, OtherTaskStep DEF Delete, TaskInv, TaskTypes
    <2>3. ASSUME NEW t \in TaskIds, EndTask(t) PROVE TaskInv'
      <3>1. /\ UNCHANGED <<record, taskList, snapshot, cleaning, creating, misread>>
            /\ body' = [body EXCEPT ![t] = "ended"] /\ body \in [TaskIds -> {"none", "runs", "ended"}]
        BY <2>3 DEF EndTask, TaskInv, TaskTypes
      <3> QED
        BY <3>1, OtherTaskStep
    <2>4. CASE Swap
      BY <2>4, SwapStep
    <2>5. CASE JoinAndDelete
      BY <2>5, JoinAndDeleteStep
    <2>6. CASE FinishCleanup
      BY <2>6, OtherTaskStep DEF FinishCleanup, TaskInv, TaskTypes
    <2>7. CASE UNCHANGED vars
      BY <2>7, OtherTaskStep DEF vars, TaskInv, TaskTypes
    <2> QED
      BY <2>1, <2>2, <2>3, <2>4, <2>5, <2>6, <2>7 DEF Next, Cleanup
  <1> QED
    BY <1>1, <1>2, PTL DEF Spec

\* cleanupTasks deletes a record only when its thread is over, and the record
\* that xTaskCreate reads after it has listed it is a live one on the main thread.
THEOREM DeletedTasksAreOver == Spec => []DeletedIsOver
  <1>1. TaskInv => DeletedIsOver
    BY DEF TaskInv, DeletedIsOver, DeletedHasEnded, ListedWhenMade, MainReadsLive
  <1> QED
    BY <1>1, TaskInvariant, PTL

\* No task that is live and made is missing from the list and the snapshot.
THEOREM TasksAreListed == Spec => []NoTaskIsForgotten
  <1>1. TaskInv => NoTaskIsForgotten
    BY DEF TaskInv
  <1> QED
    BY <1>1, TaskInvariant, PTL

-----------------------------------------------------------------------------
\* TaskScheduler: what a task has run, what is lost and what is to come make up
\* what it was told, where the callback that is running has been counted but not
\* counted off.
JobTypes ==
  /\ iterations \in [Jobs -> Iterations] /\ max \in [Jobs -> Iterations]
  /\ ran \in [Jobs -> Nat]
  /\ eaten \in [Jobs -> BOOLEAN] /\ expired \in [Jobs -> BOOLEAN]

InCallback(t) == stage = "callback" /\ t = Head(pass)
One(p) == IF p THEN 1 ELSE 0

Account(t) ==
  /\ max[t] = Forever => iterations[t] = Forever /\ ran[t] = 0
  /\ max[t] = 0 => iterations[t] = 0 /\ ran[t] = 0 /\ ~ eaten[t]
  /\ max[t] > 0 => /\ iterations[t] = max[t] - ran[t] - One(eaten[t]) + One(InCallback(t))
                   /\ iterations[t] >= One(InCallback(t))
  /\ expired[t] => iterations[t] = 0 /\ ~ InCallback(t)

JobInv == JobTypes /\ \A t \in Jobs : Account(t)

LEMMA IterationsAreIntegers ==
  ASSUME MaxIterations \in Nat
  PROVE  \A n \in Iterations : n \in Int /\ (n = Forever \/ n = 0 \/ n > 0) /\ n >= Forever
BY DEF Iterations, Forever

LEMMA PeriodStep ==
  ASSUME MaxIterations \in Nat, JobInv, NEW t \in Jobs, NEW n \in Iterations, Period(t, n),
         stage' = stage, pass' = pass
  PROVE  JobInv'
  <1>1. JobTypes'
    BY DEF JobInv, JobTypes, Period
  <1>2. ASSUME NEW u \in Jobs, u # t PROVE Account(u)'
    BY <1>2 DEF JobInv, JobTypes, Period, Account, InCallback
  <1>3. Account(t)'
    <2>1. /\ iterations'[t] = n /\ max'[t] = n /\ ran'[t] = 0 /\ ~ expired'[t]
          /\ InCallback(t)' <=> InCallback(t)
      BY DEF JobInv, JobTypes, Period, InCallback
    <2>2. eaten'[t] <=> InCallback(t) /\ n > 0
      BY Zenon DEF JobInv, JobTypes, Period, InCallback
    <2> QED
      BY <2>1, <2>2, IterationsAreIntegers DEF Account, One, Forever
  <1> QED
    BY <1>1, <1>2, <1>3 DEF JobInv

LEMMA CallBackStep ==
  ASSUME MaxIterations \in Nat, JobInv, CallBack
  PROVE  JobInv'
  <1> DEFINE t == Head(pass)
  <1>1. /\ UNCHANGED <<iterations, max, eaten, expired, pass>> /\ iterations[t] # 0
        /\ ran' = [ran EXCEPT ![t] = IF max[t] = Forever THEN 0 ELSE @ + 1]
        /\ stage = "task" /\ stage' = "callback"
    BY DEF CallBack
  <1>2. ran' \in [Jobs -> Nat]
    <2> DEFINE value == IF max[t] = Forever THEN 0 ELSE ran[t] + 1
    <2>1. t \in Jobs => value \in Nat
      BY DEF JobInv, JobTypes
    <2>2. ran' = [ran EXCEPT ![t] = value] /\ ran \in [Jobs -> Nat]
      BY <1>1 DEF JobInv, JobTypes
    <2> HIDE DEF value
    <2> QED
      BY <2>1, <2>2
  <1>3. JobTypes'
    BY <1>1, <1>2 DEF JobInv, JobTypes
  <1>4. ASSUME NEW u \in Jobs, u # t PROVE Account(u)'
    BY <1>1, <1>4 DEF JobInv, JobTypes, Account, InCallback
  <1>5. ASSUME NEW u \in Jobs, u = t PROVE Account(u)'
    <2>1. /\ UNCHANGED <<iterations, max, eaten, expired>> /\ iterations[u] # 0
          /\ ran'[u] = IF max[u] = Forever THEN 0 ELSE ran[u] + 1
          /\ ~ InCallback(u) /\ InCallback(u)'
      BY <1>1, <1>5 DEF JobInv, JobTypes, InCallback
    <2>2. Account(u) /\ max[u] \in Iterations /\ iterations[u] \in Iterations /\ ran[u] \in Nat
      BY DEF JobInv, JobTypes
    <2> QED
      BY <2>1, <2>2, IterationsAreIntegers DEF Account, One, Forever
  <1> QED
    BY <1>3, <1>4, <1>5 DEF JobInv

LEMMA ReturnStep ==
  ASSUME MaxIterations \in Nat, JobInv, CallbackReturns
  PROVE  JobInv'
  <1> DEFINE t == Head(pass)
  <1>1. /\ iterations' = [iterations EXCEPT ![t] = CountedOff(@)]
        /\ UNCHANGED <<max, ran, eaten>> /\ stage' # "callback" /\ stage = "callback"
        /\ \/ iterations'[t] = 0 /\ expired' = [expired EXCEPT ![t] = TRUE]
           \/ UNCHANGED expired
    BY DEF CallbackReturns, Expire, Advance
  <1>2. ASSUME NEW n \in Iterations PROVE CountedOff(n) \in Iterations
    BY <1>2 DEF Iterations, CountedOff, Forever
  <1>3. JobTypes'
    BY <1>1, <1>2 DEF JobInv, JobTypes
  <1>4. ASSUME NEW u \in Jobs, u # t PROVE Account(u)'
    BY <1>1, <1>4 DEF JobInv, JobTypes, Account, InCallback
  <1>5. ASSUME NEW u \in Jobs, u = t PROVE Account(u)'
    <2>1. /\ iterations'[u] = CountedOff(iterations[u]) /\ InCallback(u) /\ ~ InCallback(u)'
          /\ UNCHANGED <<max, ran, eaten>>
          /\ expired'[u] => iterations'[u] = 0
      BY <1>1, <1>5 DEF JobInv, JobTypes, InCallback, Account
    <2>2. Account(u) /\ max[u] \in Iterations /\ iterations[u] \in Iterations /\ ran[u] \in Nat
      BY DEF JobInv, JobTypes
    <2> QED
      BY <2>1, <2>2, IterationsAreIntegers DEF Account, One, Forever, CountedOff
  <1> QED
    BY <1>3, <1>4, <1>5 DEF JobInv

LEMMA OtherJobStep ==
  ASSUME MaxIterations \in Nat, JobInv, UNCHANGED <<iterations, max, ran, eaten>>,
         \/ stage' # "callback" /\ stage # "callback"
         \/ stage' = stage /\ pass' = pass,
         \/ UNCHANGED expired
         \/ \E t : /\ iterations[t] = 0 /\ stage # "callback"
                   /\ expired' = [expired EXCEPT ![t] = TRUE]
  PROVE  JobInv'
  <1>1. JobTypes'
    BY DEF JobInv, JobTypes
  <1>2. ASSUME NEW u \in Jobs PROVE Account(u)'
    <2>1. InCallback(u)' <=> InCallback(u)
      BY DEF InCallback
    <2>2. expired'[u] => iterations[u] = 0 /\ ~ InCallback(u)
      BY DEF JobInv, JobTypes, Account, InCallback
    <2> QED
      BY <2>1, <2>2 DEF JobInv, Account, One
  <1> QED
    BY <1>1, <1>2 DEF JobInv

\* A task that the scheduler has disabled has run as often as it was told, less
\* an iteration lost in its own callback, whatever the callbacks and hooks do.
THEOREM PeriodsStayWhole ==
  ASSUME MaxIterations \in Nat
  PROVE  SchedulerSpec => []PeriodsAreWhole
  <1>1. SchedulerInit => JobInv
    <2> SUFFICES ASSUME SchedulerInit PROVE JobInv
      OBVIOUS
    <2>1. JobTypes
      <3>1. eaten \in [Jobs -> BOOLEAN] /\ expired \in [Jobs -> BOOLEAN]
        BY DEF SchedulerInit
      <3> QED
        BY <3>1 DEF SchedulerInit, JobTypes, Iterations
    <2> QED
      BY <2>1 DEF SchedulerInit, JobInv, Account, InCallback, Forever
  <1>2. JobInv /\ [SchedulerNext]_tsVars => JobInv'
    <2> SUFFICES ASSUME JobInv, [SchedulerNext]_tsVars PROVE JobInv'
      OBVIOUS
    <2>1. ASSUME NEW t \in Jobs, Enable(t) PROVE JobInv'
      <3>1. max[t] \in Iterations
        BY DEF JobInv, JobTypes
      <3> QED
        BY <2>1, <3>1, PeriodStep DEF Enable
    <2>2. ASSUME NEW t \in Jobs, NEW n \in Iterations, SetIterations(t, n) PROVE JobInv'
      BY <2>2, PeriodStep DEF SetIterations
    <2>3. ASSUME NEW t \in Jobs, Disable(t) \/ AddTask(t) \/ DeleteTask(t) PROVE JobInv'
      BY <2>3, OtherJobStep DEF Disable, AddTask, DeleteTask, Fields
    <2>4. CASE Execute \/ Skip \/ HookReturns
      BY <2>4, OtherJobStep DEF Execute, Skip, HookReturns, Advance, Fields
    <2>5. CASE NothingToRun
      BY <2>5, OtherJobStep DEF NothingToRun, Expire
    <2>6. CASE CallBack
      BY <2>6, CallBackStep
    <2>7. CASE CallbackReturns
      BY <2>7, ReturnStep
    <2>8. CASE UNCHANGED tsVars
      BY <2>8, OtherJobStep DEF tsVars
    <2> QED
      BY <2>1, <2>2, <2>3, <2>4, <2>5, <2>6, <2>7, <2>8 DEF SchedulerNext
  <1>3. JobInv => PeriodsAreWhole
    <2> SUFFICES ASSUME JobInv, NEW t \in Jobs
                 PROVE  /\ expired[t] => ran[t] = max[t] - (IF eaten[t] THEN 1 ELSE 0)
                        /\ max[t] # Forever => ran[t] <= max[t]
      BY DEF PeriodsAreWhole
    <2>1. Account(t) /\ max[t] \in Iterations /\ ran[t] \in Nat /\ iterations[t] \in Iterations
      BY DEF JobInv, JobTypes
    <2>2. max[t] = Forever \/ max[t] = 0 \/ max[t] > 0
      BY <2>1, IterationsAreIntegers
    <2>3. CASE max[t] = Forever
      BY <2>1, <2>3 DEF Account, Forever
    <2>4. CASE max[t] = 0
      BY <2>1, <2>4 DEF Account
    <2>5. CASE max[t] > 0
      <3>1. /\ iterations[t] = max[t] - ran[t] - One(eaten[t]) + One(InCallback(t))
            /\ iterations[t] >= One(InCallback(t))
            /\ expired[t] => iterations[t] = 0 /\ ~ InCallback(t)
        BY <2>1, <2>5 DEF Account
      <3>2. /\ max[t] \in Int /\ ran[t] \in Int /\ iterations[t] \in Int
            /\ One(eaten[t]) \in 0 .. 1 /\ One(InCallback(t)) \in 0 .. 1
            /\ ~ InCallback(t) => One(InCallback(t)) = 0
        BY <2>1, IterationsAreIntegers DEF One
      <3> QED
        BY <3>1, <3>2 DEF One
    <2> QED
      BY <2>2, <2>3, <2>4, <2>5
  <1> QED
    BY <1>1, <1>2, <1>3, PTL DEF SchedulerSpec

-----------------------------------------------------------------------------
\* Ticker: besides the property, no callback is under way but from the worker's
\* call, and a controller in a call has stopped the ticker.
TickerInv ==
  /\ once \in BOOLEAN /\ fires \in Nat
  /\ wants \subseteq TheTicker!Attachments
  /\ worker = "calls" \/ calling = {}
  /\ call # "none" => ~ running
  /\ call = "set" => ~ once /\ fires = 0
  /\ OldCallbacksAreSilent

LEMMA TickerInit == TheTicker!Init => TickerInv
  <1> SUFFICES ASSUME TheTicker!Init PROVE TickerInv
    OBVIOUS
  <1> USE DEF TheTicker!Init
  <1>1. once \in BOOLEAN /\ ~ once
    BY Zenon
  <1>2. ~ running
    BY Zenon
  <1> QED
    BY <1>1, <1>2 DEF TickerInv, OldCallbacksAreSilent, TheTicker!OldCallbacksAreSilent

\* A callback is replaced when the old worker has been joined, so what it called
\* is over.
LEMMA TickerStepKeeps ==
  ASSUME TickerInv, [TheTicker!Next]_TheTicker!vars
  PROVE  TickerInv'
  <1> USE DEF TickerInv, OldCallbacksAreSilent, TheTicker!OldCallbacksAreSilent
  <1>1. CASE UNCHANGED TheTicker!vars
    BY <1>1 DEF TheTicker!vars
  <1>2. CASE TheTicker!Attach
    BY <1>2 DEF TheTicker!Attach, TheTicker!Begin
  <1>3. CASE TheTicker!Detach
    BY <1>3 DEF TheTicker!Detach, TheTicker!Begin
  <1>4. CASE TheTicker!Join
    BY <1>4 DEF TheTicker!Join, TheTicker!Joined
  <1>5. CASE TheTicker!SetAndSpawn
    BY <1>5 DEF TheTicker!SetAndSpawn, TheTicker!Attachments
  <1>6. CASE TheTicker!Top
    BY <1>6 DEF TheTicker!Top
  <1>7. CASE TheTicker!Wake
    BY <1>7 DEF TheTicker!Wake
  <1>8. CASE TheTicker!CallbackReturns
    <2>1. running' => ~ once /\ worker' = "top"
      BY <1>8 DEF TheTicker!CallbackReturns, TheTicker!Again
    <2>2. /\ once' = once /\ wants' = wants /\ callback' = callback /\ call' = call
          /\ calling' = {} /\ worker = "calls" /\ fires' \in {fires, fires + 1}
      BY <1>8 DEF TheTicker!CallbackReturns
    <2>3. once => worker' = "ended"
      BY <1>8 DEF TheTicker!CallbackReturns, TheTicker!Again
    <2>4. call # "none" => ~ running'
      BY <1>8 DEF TheTicker!CallbackReturns
    <2>5. once => fires = 0
      BY <2>2
    <2>6. call # "set"
      BY <2>2
    <2>7. once' \in BOOLEAN /\ fires' \in Nat /\ wants' \subseteq TheTicker!Attachments
      BY <2>2
    <2>8. call' = "none" /\ running' => worker' # "ended"
      BY <2>1
    <2>9. /\ once' => fires' <= 1
          /\ once' /\ fires' = 1 => ~ running' /\ worker' = "ended"
      BY <2>1, <2>2, <2>3, <2>5
    <2> QED
      BY <2>2, <2>4, <2>6, <2>7, <2>8, <2>9
  <1>9. CASE TheTicker!CallbackDetaches
    BY <1>9 DEF TheTicker!CallbackDetaches
  <1> QED
    BY <1>1, <1>2, <1>3, <1>4, <1>5, <1>6, <1>7, <1>8, <1>9
       DEF TheTicker!Next, TheTicker!Controls, TheTicker!Works

-----------------------------------------------------------------------------
\* PubSubClient.
InPublish(t) == op[t] \in {"holds", "calls", "stuck"}
Matching(s, topic) == {i \in DOMAIN s : ThePubSub!Matches(s[i], topic)}

\* Whoever publishes has the mutex, and what it has called back and what is still
\* to match make up what was due.
PubSubTypes ==
  /\ subscriptions \in Seq(Filters)
  /\ rest \in [Publishers -> Seq(Filters)]
  /\ op \in [Publishers -> {"none", "waits", "holds", "calls", "stuck"}]
  /\ torn \in [Publishers -> BOOLEAN]
  /\ calls \in [Publishers -> Nat] /\ due \in [Publishers -> Nat]
  /\ todo \in [Publishers -> ThePubSub!Call \cup {ThePubSub!NoCall}]
  /\ \A t \in Publishers : op[t] = "waits" => todo[t] \in ThePubSub!Call

Accounts(t) ==
  /\ InPublish(t) => mtx = t
  /\ ~ InPublish(t) => calls[t] = 0 /\ ~ torn[t]
  /\ InPublish(t) /\ ~ torn[t] =>
       calls[t] + Cardinality(Matching(rest[t], todo[t].arg)) = due[t]

PubSubInv == PubSubTypes /\ \A t \in Publishers : Accounts(t)

\* The Cardinality of PubSub is that of this module.
LEMMA OneCardinality == \A S : ThePubSub!Cardinality(S) = Cardinality(S)
BY Zenon DEF Cardinality, ThePubSub!Cardinality

\* The matches of a list, and those of its tail.
LEMMA MatchingIsFinite ==
  ASSUME NEW S, NEW s \in Seq(S), NEW topic
  PROVE  /\ IsFiniteSet(Matching(s, topic)) /\ Cardinality(Matching(s, topic)) \in Nat
         /\ s = << >> => Cardinality(Matching(s, topic)) = 0
  <1>1. Len(s) \in Nat /\ DOMAIN s = 1 .. Len(s)
    BY LenProperties
  <1>2. IsFiniteSet(1 .. Len(s))
    BY <1>1, FS_Interval
  <1>3. Matching(s, topic) \in SUBSET (1 .. Len(s))
    BY <1>1 DEF Matching
  <1>4. IsFiniteSet(Matching(s, topic))
    BY <1>2, <1>3, FS_Subset
  <1>5. ASSUME s = << >> PROVE Matching(s, topic) = {}
    <2>1. Len(s) = 0
      BY <1>5, EmptySeq
    <2> QED
      BY <1>3, <2>1
  <1> QED
    BY <1>4, <1>5, FS_CardinalityType, FS_EmptySet

LEMMA MatchingTail ==
  ASSUME NEW S, NEW s \in Seq(S), s # << >>, NEW topic
  PROVE  Cardinality(Matching(s, topic)) =
           Cardinality(Matching(Tail(s), topic))
             + IF ThePubSub!Matches(Head(s), topic) THEN 1 ELSE 0
  <1> DEFINE T == Matching(Tail(s), topic)
             U == {i \in Matching(s, topic) : i # 1}
             f == [i \in T |-> i + 1]
  <1>1. /\ Tail(s) \in Seq(S) /\ Len(Tail(s)) = Len(s) - 1
        /\ \A i \in 1 .. Len(Tail(s)) : Tail(s)[i] = s[i + 1]
        /\ Head(s) = s[1] /\ Len(s) \in Nat \ {0}
    BY HeadTailProperties, EmptySeq
  <1>2. DOMAIN s = 1 .. Len(s) /\ DOMAIN Tail(s) = 1 .. Len(s) - 1
    BY <1>1, LenProperties
  <1>3. IsFiniteSet(T) /\ IsFiniteSet(Matching(s, topic)) /\ Cardinality(T) \in Nat
    BY <1>1, MatchingIsFinite
  <1>4. \A i \in T : i \in Nat /\ i + 1 \in U
    BY <1>1, <1>2 DEF Matching
  <1>5. \A j \in U : j - 1 \in T /\ (j - 1) + 1 = j
    <2> SUFFICES ASSUME NEW j \in U PROVE j - 1 \in T /\ (j - 1) + 1 = j
      OBVIOUS
    <2>1. j \in 2 .. Len(s) /\ ThePubSub!Matches(s[j], topic)
      BY <1>1, <1>2 DEF Matching
    <2>2. j - 1 \in 1 .. Len(s) - 1 /\ (j - 1) + 1 = j
      BY <1>1, <2>1
    <2>3. Tail(s)[j - 1] = s[j]
      BY <1>1, <2>2
    <2> QED
      BY <1>2, <2>1, <2>2, <2>3 DEF Matching
  <1>6. Cardinality(U) = Cardinality(T) /\ IsFiniteSet(U)
    <2> HIDE DEF T, U
    <2>1. f \in [T -> U]
      BY <1>4
    <2>2. \A i, j \in T : f[i] = f[j] => i = j
      BY <1>4
    <2>3. \A j \in U : \E i \in T : f[i] = j
      BY <1>5
    <2>4. f \in Bijection(T, U)
      BY <2>1, <2>2, <2>3, Zenon DEF Bijection, Injection, Surjection, IsInjective
    <2>5. ExistsBijection(T, U)
      BY <2>4 DEF ExistsBijection
    <2> QED
      BY <1>3, <2>5, FS_Bijection
  <1>7. 1 \in DOMAIN s
    BY <1>1, <1>2
  <1>8. CASE ThePubSub!Matches(Head(s), topic)
    <2>1. Matching(s, topic) = U \cup {1} /\ 1 \notin U
      BY <1>1, <1>7, <1>8 DEF Matching
    <2> HIDE DEF U, T
    <2>2. Cardinality(U \cup {1}) = Cardinality(U) + 1
      BY <1>6, <2>1, FS_AddElement
    <2> QED
      BY <1>6, <1>8, <2>1, <2>2 DEF T
  <1>9. CASE ~ ThePubSub!Matches(Head(s), topic)
    <2>1. Matching(s, topic) = U
      BY <1>1, <1>7, <1>9 DEF Matching
    <2> HIDE DEF U, T
    <2> QED
      BY <1>3, <1>6, <1>9, <2>1 DEF T
  <1> QED
    BY <1>8, <1>9

LEMMA PubSubInit == ThePubSub!Init => PubSubInv
  <1>1. << >> \in Seq(Filters)
    BY EmptySeq
  <1> QED
    BY <1>1 DEF ThePubSub!Init, PubSubInv, PubSubTypes, Accounts, InPublish

\* erase and remove leave a list of filters.
LEMMA KeptIsList ==
  ASSUME NEW f, subscriptions \in Seq(Filters), ThePubSub!KeepOthers(f)
  PROVE  subscriptions' \in Seq(Filters)
  <1> DEFINE others == {i \in DOMAIN subscriptions : subscriptions[i] # f}
  <1>1. PICK at \in [1 .. Cardinality(others) -> others] :
          subscriptions' = [i \in DOMAIN at |-> subscriptions[at[i]]]
    BY OneCardinality, Zenon DEF ThePubSub!KeepOthers
  <1>2. Len(subscriptions) \in Nat /\ DOMAIN subscriptions = 1 .. Len(subscriptions)
    BY LenProperties
  <1>3. IsFiniteSet(1 .. Len(subscriptions)) /\ others \in SUBSET (1 .. Len(subscriptions))
    BY <1>2, FS_Interval
  <1>4. Cardinality(others) \in Nat
    BY <1>3, FS_Subset, FS_CardinalityType
  <1>5. \A i \in others : subscriptions[i] \in Filters
    BY <1>2, ElementOfSeq
  <1> HIDE DEF others
  <1>6. subscriptions' \in [1 .. Cardinality(others) -> Filters]
    BY <1>1, <1>5
  <1> QED
    BY <1>4, <1>6

LEMMA PubSubStepKeeps ==
  ASSUME PubSubInv, [ThePubSub!Next]_ThePubSub!psVars
  PROVE  PubSubInv'
  <1> USE DEF PubSubInv
  <1>1. CASE UNCHANGED ThePubSub!psVars
    BY <1>1 DEF ThePubSub!psVars, PubSubTypes, Accounts, InPublish
  <1>2. CASE ThePubSub!Connect
    BY <1>2 DEF ThePubSub!Connect, PubSubTypes, Accounts, InPublish
  <1>3. ASSUME NEW t \in Publishers, ThePubSub!Disconnect(t) PROVE PubSubInv'
    <2>1. << >> \in Seq(Filters)
      BY EmptySeq
    <2>2. PubSubTypes'
      BY <1>3, <2>1 DEF ThePubSub!Disconnect, PubSubTypes
    <2>3. ASSUME NEW u \in Publishers PROVE Accounts(u)'
      <3>1. torn'[u] <=> torn[u] \/ op[u] \in {"holds", "calls"}
        BY <1>3 DEF ThePubSub!Disconnect, PubSubTypes
      <3> QED
        BY <1>3, <3>1 DEF ThePubSub!Disconnect, Accounts, InPublish
    <2> QED
      BY <2>2, <2>3
  <1>4. ASSUME NEW t \in Publishers, NEW c \in ThePubSub!Call, ThePubSub!Begin(t, c)
        PROVE  PubSubInv'
    <2>1. PubSubTypes'
      BY <1>4 DEF ThePubSub!Begin, PubSubTypes
    <2>2. ASSUME NEW u \in Publishers PROVE Accounts(u)'
      BY <1>4 DEF ThePubSub!Begin, PubSubTypes, Accounts, InPublish
    <2> QED
      BY <2>1, <2>2
  <1>5. ASSUME NEW t \in Publishers, ThePubSub!Subscribe(t) PROVE PubSubInv'
    <2>1. todo[t] \in ThePubSub!Call /\ todo[t].name # "publish"
      BY <1>5 DEF ThePubSub!Subscribe, PubSubTypes
    <2>2. todo[t].arg \in Filters
      BY <2>1 DEF ThePubSub!Call
    <2>3. subscriptions' \in Seq(Filters)
      <3>1. CASE ThePubSub!KeepOthers(todo[t].arg)
        BY <3>1, KeptIsList DEF PubSubTypes
      <3>2. CASE subscriptions' = Append(subscriptions, todo[t].arg)
        BY <2>2, <3>2, AppendProperties DEF PubSubTypes
      <3>3. CASE subscriptions' = subscriptions
        BY <3>3 DEF PubSubTypes
      <3> QED
        BY <1>5, <3>1, <3>2, <3>3 DEF ThePubSub!Subscribe
    <2>4. PubSubTypes'
      BY <1>5, <2>3 DEF ThePubSub!Subscribe, PubSubTypes
    <2>5. ASSUME NEW u \in Publishers PROVE Accounts(u)'
      BY <1>5 DEF ThePubSub!Subscribe, PubSubTypes, Accounts, InPublish
    <2> QED
      BY <2>4, <2>5
  <1>6. ASSUME NEW t \in Publishers, ThePubSub!Publish(t) PROVE PubSubInv'
    <2>1. /\ op[t] = "waits" /\ mtx = Nobody /\ mtx' = t
          /\ op' = [op EXCEPT ![t] = "holds"]
          /\ rest' = [rest EXCEPT ![t] = subscriptions]
          /\ due' = [due EXCEPT ![t] = Cardinality(Matching(subscriptions, todo[t].arg))]
          /\ UNCHANGED <<subscriptions, todo, calls, torn>>
      BY <1>6, OneCardinality DEF ThePubSub!Publish, ThePubSub!MatchesOf, Matching
    <2>2. Cardinality(Matching(subscriptions, todo[t].arg)) \in Nat
      BY MatchingIsFinite DEF PubSubTypes
    <2>3. PubSubTypes'
      BY <2>1, <2>2 DEF PubSubTypes
    <2>4. \A u \in Publishers : ~ InPublish(u)
      BY <2>1, PartsAssumption DEF Accounts
    <2>5. ASSUME NEW u \in Publishers PROVE Accounts(u)'
      <3>1. CASE u = t
        BY <2>1, <2>2, <2>4, <3>1 DEF PubSubTypes, Accounts, InPublish
      <3>2. CASE u # t
        BY <2>1, <2>4, <3>2 DEF PubSubTypes, Accounts, InPublish
      <3> QED
        BY <3>1, <3>2
    <2> QED
      BY <2>3, <2>5
  <1>7. ASSUME NEW t \in Publishers, ThePubSub!Compare(t) PROVE PubSubInv'
    <2>1. PICK match \in IF torn[t] THEN BOOLEAN ELSE {ThePubSub!Delivers(t)} :
             IF match THEN /\ op' = [op EXCEPT ![t] = "calls"]
                           /\ calls' = [calls EXCEPT ![t] = @ + 1]
                      ELSE UNCHANGED <<op, calls>>
      BY <1>7 DEF ThePubSub!Compare
    <2>2. /\ op[t] = "holds" /\ rest[t] # << >>
          /\ rest' = [rest EXCEPT ![t] = Tail(@)]
          /\ UNCHANGED <<subscriptions, mtx, todo, due, torn>>
      BY <1>7 DEF ThePubSub!Compare
    <2>3. rest[t] \in Seq(Filters) /\ Tail(rest[t]) \in Seq(Filters)
      BY <2>2, HeadTailProperties DEF PubSubTypes
    <2>4. PubSubTypes'
      <3>1. rest' \in [Publishers -> Seq(Filters)]
        BY <2>2, <2>3 DEF PubSubTypes
      <3>2. op' \in [Publishers -> {"none", "waits", "holds", "calls", "stuck"}]
        BY <2>1 DEF PubSubTypes
      <3>3. calls' \in [Publishers -> Nat]
        BY <2>1 DEF PubSubTypes
      <3>4. \A u \in Publishers : op'[u] = "waits" => op[u] = "waits"
        BY <2>1 DEF PubSubTypes
      <3> QED
        BY <2>2, <3>1, <3>2, <3>3, <3>4 DEF PubSubTypes
    <2>5. ASSUME NEW u \in Publishers, u # t PROVE Accounts(u)'
      BY <2>1, <2>2, <2>5 DEF PubSubTypes, Accounts, InPublish
    <2>6. Accounts(t)'
      <3>1. InPublish(t) /\ InPublish(t)'
        BY <2>1, <2>2 DEF PubSubTypes, InPublish
      <3>2. ASSUME ~ torn[t]
            PROVE  calls'[t] + Cardinality(Matching(rest'[t], todo'[t].arg)) = due'[t]
        <4> DEFINE topic == todo[t].arg
        <4>1. match <=> ThePubSub!Matches(Head(rest[t]), topic)
          BY <2>1, <3>2 DEF ThePubSub!Delivers
        <4>2. Cardinality(Matching(rest[t], topic)) =
                Cardinality(Matching(Tail(rest[t]), topic)) + IF match THEN 1 ELSE 0
          BY <2>2, <2>3, <4>1, MatchingTail
        <4>3. Cardinality(Matching(Tail(rest[t]), topic)) \in Nat
          BY <2>3, MatchingIsFinite
        <4>4. calls[t] + Cardinality(Matching(rest[t], topic)) = due[t]
          BY <3>1, <3>2 DEF Accounts
        <4>5. rest'[t] = Tail(rest[t]) /\ todo' = todo /\ due' = due
          BY <2>2 DEF PubSubTypes
        <4>6. calls'[t] = calls[t] + IF match THEN 1 ELSE 0
          BY <2>1 DEF PubSubTypes
        <4>7. calls[t] \in Nat
          BY DEF PubSubTypes
        <4> QED
          BY <4>2, <4>3, <4>4, <4>5, <4>6, <4>7
      <3> QED
        BY <2>2, <3>1, <3>2 DEF Accounts
    <2> QED
      BY <2>4, <2>5, <2>6
  <1>8. ASSUME NEW t \in Publishers, ThePubSub!CallbackReturns(t) \/ ThePubSub!CallbackCalls(t)
        PROVE  PubSubInv'
    <2>1. PubSubTypes'
      BY <1>8 DEF ThePubSub!CallbackReturns, ThePubSub!CallbackCalls, PubSubTypes
    <2>2. ASSUME NEW u \in Publishers PROVE Accounts(u)'
      BY <1>8 DEF ThePubSub!CallbackReturns, ThePubSub!CallbackCalls, PubSubTypes, Accounts,
                  InPublish
    <2> QED
      BY <2>1, <2>2
  <1>9. ASSUME NEW t \in Publishers, ThePubSub!PublishReturns(t) PROVE PubSubInv'
    <2>1. PubSubTypes'
      BY <1>9 DEF ThePubSub!PublishReturns, PubSubTypes
    <2>2. ASSUME NEW u \in Publishers PROVE Accounts(u)'
      <3>1. CASE u = t
        BY <1>9, <3>1 DEF ThePubSub!PublishReturns, PubSubTypes, Accounts, InPublish
      <3>2. CASE u # t
        <4>1. ~ InPublish(u)
          BY <1>9, <3>2 DEF ThePubSub!PublishReturns, Accounts, InPublish
        <4> QED
          BY <1>9, <3>2, <4>1 DEF ThePubSub!PublishReturns, PubSubTypes, Accounts, InPublish
      <3> QED
        BY <3>1, <3>2
    <2> QED
      BY <2>1, <2>2
  <1> QED
    BY <1>1, <1>2, <1>3, <1>4, <1>5, <1>6, <1>7, <1>8, <1>9
       DEF ThePubSub!Next, ThePubSub!Step

LEMMA PubSubInvIsEnough == PubSubInv => OncePerMatch
  <1> SUFFICES ASSUME PubSubInv PROVE OncePerMatch
    OBVIOUS
  <1>1. ASSUME NEW t \in Publishers, op[t] = "holds", rest[t] = << >>, ~ torn[t]
        PROVE  calls[t] = due[t]
    <2>1. Cardinality(Matching(rest[t], todo[t].arg)) = 0
      BY <1>1, MatchingIsFinite DEF PubSubInv, PubSubTypes
    <2>2. calls[t] + Cardinality(Matching(rest[t], todo[t].arg)) = due[t]
      BY <1>1 DEF PubSubInv, Accounts, InPublish
    <2> QED
      BY <2>1, <2>2 DEF PubSubInv, PubSubTypes
  <1>2. ASSUME NEW t \in Publishers, NEW u \in Publishers, op[t] = "calls", op[u] = "calls"
        PROVE  t = u
    BY <1>2 DEF PubSubInv, Accounts, InPublish
  <1> QED
    BY <1>1, <1>2 DEF OncePerMatch, ThePubSub!OncePerMatch

-----------------------------------------------------------------------------
\* HttpExchange.
Open(r) == link[r].client = "open"
Came(r) == got[r[1]] + link[r].down

Links == [client : {"none", "open", "closed"},
          server : {"none", "queued", "open", "closed", "reset"}, up : Nat, down : Nat]

HttpTypes ==
  /\ backlog \in Seq(TheHttp!Requests) /\ IsInjective(backlog)
  /\ link \in [TheHttp!Requests -> Links]
  /\ tries \in [Clients -> Nat]
  /\ inside \in [Clients -> {"idle", "writing", "reading"}]
  /\ sent \in [Clients -> Nat] /\ got \in [Clients -> Nat]
  /\ status \in [Clients -> {0, 200}]
  /\ answer \in [Clients -> [of : TheHttp!Requests \cup {NoRequest}, parts : Nat]]
  /\ serving \in TheHttp!Requests \cup {NoRequest}
  /\ step \in {"none", "reading", "handling", "head", "body", "closing"}
  /\ serving = NoRequest <=> step = "none"
  /\ read \in Nat
  /\ handled \in [TheHttp!Requests -> Nat]

\* A client that is not idle is in the request of its last connect.
ClientInv(c) ==
  /\ tries[c] <= Turns[c]
  /\ inside[c] # "idle" => tries[c] > 0 /\ Open(TheHttp!Current(c))
  /\ inside[c] = "idle" => sent[c] = 0 /\ got[c] = 0
  /\ inside[c] = "writing" => sent[c] < TheHttp!Parts(TheHttp!Current(c))
  /\ inside[c] = "reading" => sent[c] = TheHttp!Parts(TheHttp!Current(c))

\* The first and the third part of WholeUnlessLate.
Truthful(c) ==
  TheHttp!Answered(c) =>
    LET r == TheHttp!Current(c) IN
    /\ status[c] = 200 =>
         /\ handled[r] > 0
         /\ answer[c] \in {TheHttp!NoBody} \union [of : {r}, parts : 0 .. 1]
         /\ answer[c] = [of |-> r, parts |-> 0] => r \in late
    /\ status[c] # 200 /\ handled[r] > 0 => r \in silent \union late

\* Both ends of a connection, and the backlog, agree on where it is.
Placed(r) ==
  /\ Open(r) => r = TheHttp!Current(r[1]) /\ inside[r[1]] # "idle"
  /\ r[2] > tries[r[1]] => link[r].server = "none"
  /\ link[r].server = "none" => link[r].client = "none"
  /\ link[r].server = "queued" <=> r \in ToSet(backlog)
  /\ link[r].server = "open" <=> r = serving

\* No part of a request is lost before the server hangs up, and a client that
\* leaves before that was late.
Arrived(r) ==
  /\ link[r].server = "queued" => /\ link[r].up <= TheHttp!Parts(r)
                                  /\ Open(r) => link[r].up = sent[r[1]]
  /\ r = serving => /\ read + link[r].up <= TheHttp!Parts(r)
                    /\ Open(r) => read + link[r].up = sent[r[1]]
  /\ link[r].server \in {"queued", "open"} => Open(r) \/ r \in late

\* A handler sees the request once, whole unless it was late.
HandledOnce(r) ==
  /\ link[r].server \in {"none", "queued", "reset"} => handled[r] = 0
  /\ r = serving /\ step \in {"reading", "handling"} => handled[r] = 0
  /\ r = serving /\ step = "handling" =>
       read > 0 /\ (read = TheHttp!Parts(r) \/ r \in late)
  /\ r = serving /\ step \in {"head", "body", "closing"} => handled[r] \in {0, read}
  /\ r = serving /\ step \in {"head", "body"} => handled[r] > 0
  /\ Open(r) => handled[r] <= sent[r[1]]
  /\ handled[r] > 0 => handled[r] = TheHttp!Parts(r) \/ r \in late

\* What has come of the answer is what the server has sent, but for what a reset
\* has dropped, and that happens to late requests only.
AnswerComes(r) ==
  Open(r) =>
    /\ link[r].server \in {"queued", "reset"} => Came(r) = 0
    /\ r = serving /\ step \in {"reading", "handling", "head"} => Came(r) = 0
    /\ r = serving /\ step = "body" => Came(r) = 1
    /\ r = serving /\ step = "closing" =>
         \/ Came(r) = 0 /\ (handled[r] = 0 \/ r \in silent)
         \/ Came(r) = 2 /\ handled[r] > 0
    /\ link[r].server = "closed" =>
         \/ Came(r) = 0 /\ (handled[r] = 0 \/ r \in silent)
         \/ Came(r) = 2 /\ handled[r] > 0
         \/ Came(r) \in 0 .. 2 /\ handled[r] > 0 /\ r \in late

RequestInv(r) == Placed(r) /\ Arrived(r) /\ HandledOnce(r) /\ AnswerComes(r)

HttpInv ==
  /\ HttpTypes
  /\ \A c \in Clients : ClientInv(c) /\ Truthful(c)
  /\ \A r \in TheHttp!Requests : RequestInv(r)

USE DEF Links

LEMMA RequestFacts ==
  /\ \A r \in TheHttp!Requests :
       r[1] \in Clients /\ r[2] \in 1 .. Turns[r[1]] /\ r = <<r[1], r[2]>> /\ r # NoRequest
  /\ \A c \in Clients : \A n \in 1 .. Turns[c] : <<c, n>> \in TheHttp!Requests
BY PartsAssumption DEF TheHttp!Requests

LEMMA CurrentFacts ==
  ASSUME HttpInv, NEW c \in Clients, inside[c] # "idle"
  PROVE  LET r == TheHttp!Current(c) IN
         /\ r \in TheHttp!Requests /\ r[1] = c /\ r[2] = tries[c] /\ Open(r)
         /\ r # NoRequest /\ link[r].server # "none"
         /\ \A s \in TheHttp!Requests : s # r /\ s[1] = c => ~ Open(s)
  <1> DEFINE r == TheHttp!Current(c)
  <1>1. tries[c] \in 1 .. Turns[c] /\ Open(r)
    BY PartsAssumption DEF HttpInv, HttpTypes, ClientInv
  <1>2. r \in TheHttp!Requests /\ r[1] = c /\ r[2] = tries[c] /\ r # NoRequest
    BY <1>1, RequestFacts DEF TheHttp!Current
  <1>3. link[r].server # "none"
    BY <1>1, <1>2 DEF HttpInv, RequestInv, Placed, Open
  <1>4. \A s \in TheHttp!Requests : s # r /\ s[1] = c => ~ Open(s)
    BY <1>2 DEF HttpInv, RequestInv, Placed
  <1> QED
    BY <1>1, <1>2, <1>3, <1>4

LEMMA HttpInit == TheHttp!Init => HttpInv
  <1> SUFFICES ASSUME TheHttp!Init PROVE HttpInv
    OBVIOUS
  <1> USE DEF TheHttp!Init
  <1>1. << >> \in Seq(TheHttp!Requests) /\ IsInjective(<< >>) /\ ToSet(<< >>) = {}
    BY EmptySeq, EmptySet
  <1>2. HttpTypes
    BY <1>1, RequestFacts DEF HttpTypes, TheHttp!Unused, TheHttp!NoBody
  <1>3. ASSUME NEW c \in Clients PROVE ClientInv(c) /\ Truthful(c)
    BY PartsAssumption DEF ClientInv, Truthful, TheHttp!Answered
  <1>4. ASSUME NEW r \in TheHttp!Requests PROVE RequestInv(r)
    BY <1>1, RequestFacts
       DEF RequestInv, Placed, Arrived, HandledOnce, AnswerComes, Open, TheHttp!Unused
  <1> QED
    BY <1>2, <1>3, <1>4 DEF HttpInv

\* A step of one client in its request leaves the other clients, and the other
\* requests, where they were.
LEMMA OtherClientsKeep ==
  ASSUME HttpInv, NEW c \in Clients, inside[c] # "idle",
         \A d \in Clients : d # c => /\ inside'[d] = inside[d] /\ sent'[d] = sent[d]
                                     /\ got'[d] = got[d] /\ status'[d] = status[d]
                                     /\ answer'[d] = answer[d],
         \A s \in TheHttp!Requests : s # TheHttp!Current(c) => link'[s] = link[s],
         UNCHANGED <<tries, backlog, serving, step, read, handled, silent>>,
         late \subseteq late'
  PROVE  /\ \A d \in Clients : d # c => ClientInv(d)' /\ Truthful(d)'
         /\ \A s \in TheHttp!Requests : s # TheHttp!Current(c) => RequestInv(s)'
  <1> DEFINE r == TheHttp!Current(c)
  <1>1. /\ r \in TheHttp!Requests /\ r[1] = c /\ Open(r)
        /\ \A s \in TheHttp!Requests : s # r /\ s[1] = c => ~ Open(s)
    BY CurrentFacts
  <1>2. ASSUME NEW d \in Clients, d # c PROVE ClientInv(d)' /\ Truthful(d)'
    <2>1. ClientInv(d) /\ Truthful(d) /\ tries[d] <= Turns[d] /\ tries[d] \in Nat
      BY DEF HttpInv, ClientInv, HttpTypes
    <2>2. TheHttp!Current(d)' = TheHttp!Current(d)
      BY DEF TheHttp!Current
    <2>3. TheHttp!Current(d) # r
      BY <1>2 DEF TheHttp!Current
    <2>4. inside[d] # "idle" => Open(TheHttp!Current(d))'
      <3>1. inside[d] # "idle" => TheHttp!Current(d) \in TheHttp!Requests
        BY CurrentFacts
      <3> QED
        BY <2>1, <2>2, <2>3, <3>1 DEF ClientInv, Open
    <2>5. ClientInv(d)'
      BY <1>2, <2>1, <2>2, <2>4 DEF ClientInv
    <2>6. Truthful(d)'
      BY <1>2, <2>1, <2>2 DEF Truthful, TheHttp!Answered
    <2> QED
      BY <2>5, <2>6
  <1>3. ASSUME NEW s \in TheHttp!Requests, s # r PROVE RequestInv(s)'
    <2>1. RequestInv(s) /\ s[1] \in Clients /\ link'[s] = link[s] /\ Open(s)' = Open(s)
      BY <1>3, RequestFacts DEF HttpInv, Open
    <2>2. Open(s) => s[1] # c
      BY <1>1, <1>3
    <2>3. Open(s) => /\ inside'[s[1]] = inside[s[1]] /\ sent'[s[1]] = sent[s[1]]
                     /\ got'[s[1]] = got[s[1]]
      BY <2>1, <2>2
    <2>4. TheHttp!Current(s[1])' = TheHttp!Current(s[1])
      BY DEF TheHttp!Current
    <2>5. Placed(s)'
      BY <2>1, <2>3, <2>4 DEF RequestInv, Placed
    <2>6. Arrived(s)'
      BY <2>1, <2>3 DEF RequestInv, Arrived
    <2>7. HandledOnce(s)'
      BY <2>1, <2>3 DEF RequestInv, HandledOnce
    <2>8. AnswerComes(s)'
      BY <2>1, <2>3 DEF RequestInv, AnswerComes, Came
    <2> QED
      BY <2>5, <2>6, <2>7, <2>8 DEF RequestInv
  <1> QED
    BY <1>2, <1>3

\* What a step of a client has to show: the types, and its own client and request.
LEMMA ClientStep ==
  ASSUME HttpInv, NEW c \in Clients, inside[c] # "idle",
         \A d \in Clients : d # c => /\ inside'[d] = inside[d] /\ sent'[d] = sent[d]
                                     /\ got'[d] = got[d] /\ status'[d] = status[d]
                                     /\ answer'[d] = answer[d],
         \A s \in TheHttp!Requests : s # TheHttp!Current(c) => link'[s] = link[s],
         UNCHANGED <<tries, backlog, serving, step, read, handled, silent>>,
         late \subseteq late',
         HttpTypes', ClientInv(c)', Truthful(c)',
         \A r \in TheHttp!Requests : r = TheHttp!Current(c) => RequestInv(r)'
  PROVE  HttpInv'
  <1>1. \A d \in Clients : d # c => ClientInv(d)' /\ Truthful(d)'
    BY OtherClientsKeep
  <1>2. \A s \in TheHttp!Requests : s # TheHttp!Current(c) => RequestInv(s)'
    BY OtherClientsKeep
  <1>3. TheHttp!Requests' = TheHttp!Requests
    BY DEF TheHttp!Requests
  <1> QED
    BY <1>1, <1>2, <1>3 DEF HttpInv

\* A client that has sent less than its request may find the server gone: then
\* what the handler saw, if one did, was not whole.
LEMMA ShortIsLate ==
  ASSUME HttpInv, NEW c \in Clients, inside[c] = "writing",
         handled[TheHttp!Current(c)] > 0
  PROVE  TheHttp!Current(c) \in late
  <1> DEFINE r == TheHttp!Current(c)
  <1>1. r \in TheHttp!Requests /\ r[1] = c /\ Open(r)
    BY CurrentFacts
  <1>2. /\ handled[r] <= sent[c] /\ sent[c] < TheHttp!Parts(r)
        /\ handled[r] = TheHttp!Parts(r) \/ r \in late
    BY <1>1 DEF HttpInv, RequestInv, HandledOnce, ClientInv
  <1>3. handled[r] \in Nat /\ sent[c] \in Nat
    BY <1>1 DEF HttpInv, HttpTypes
  <1>4. TheHttp!Parts(r) \in Nat
    BY DEF TheHttp!Parts
  <1> QED
    BY <1>2, <1>3, <1>4

LEMMA WriteStep ==
  ASSUME HttpInv, NEW c \in Clients, TheHttp!Write(c)
  PROVE  HttpInv'
  <1>1. PICK r \in TheHttp!Requests :
          /\ r = TheHttp!Current(c) /\ r[1] = c /\ r[2] = tries[c] /\ Open(r)
          /\ r # NoRequest /\ link[r].server # "none"
    BY CurrentFacts DEF TheHttp!Write
  <1>2. /\ inside[c] = "writing" /\ sent' = [sent EXCEPT ![c] = @ + 1]
        /\ inside' = [inside EXCEPT ![c] = IF sent'[c] = TheHttp!Parts(r) THEN "reading" ELSE @]
        /\ UNCHANGED <<listener, backlog, serving, step, read, handled, silent, late>>
        /\ UNCHANGED <<tries, got, status, answer>>
    BY <1>1 DEF TheHttp!Write, TheHttp!server
  <1>3. /\ HttpTypes /\ ClientInv(c) /\ RequestInv(r)
    BY <1>1 DEF HttpInv
  <1>4. sent[c] \in Nat /\ sent[c] < TheHttp!Parts(r) /\ TheHttp!Parts(r) \in 1 .. 2
    BY <1>1, <1>2, <1>3 DEF HttpTypes, ClientInv, TheHttp!Parts
  <1>5. /\ sent'[c] = sent[c] + 1 /\ sent'[c] <= TheHttp!Parts(r)
        /\ inside'[c] = IF sent'[c] = TheHttp!Parts(r) THEN "reading" ELSE "writing"
    BY <1>2, <1>3, <1>4 DEF HttpTypes
  <1>6. /\ link[r] \in Links
        /\ got[c] \in Nat
    BY <1>1, <1>3 DEF HttpTypes
  <1>7. PICK k \in Links :
          /\ link' = [link EXCEPT ![r] = k]
          /\ k.client = link[r].client /\ k.server = link[r].server
          /\ TheHttp!Gone(r) => k.up = link[r].up /\ k.down \in {link[r].down, 0}
          /\ ~ TheHttp!Gone(r) => k.up = link[r].up + 1 /\ k.down = link[r].down
    <2>1. CASE TheHttp!Gone(r)
      <3>1. PICK n \in {link[r].down, 0} : link' = [link EXCEPT ![r].down = n]
        BY <1>1, <2>1 DEF TheHttp!Write, TheHttp!MayDrop
      <3> DEFINE k == [link[r] EXCEPT !.down = n]
      <3>2. link' = [link EXCEPT ![r] = k]
        BY <3>1
      <3>3. /\ k \in Links
            /\ k.client = link[r].client /\ k.server = link[r].server
            /\ k.up = link[r].up /\ k.down \in {link[r].down, 0}
        BY <1>6
      <3> HIDE DEF k
      <3> QED
        BY <2>1, <3>2, <3>3
    <2>2. CASE ~ TheHttp!Gone(r)
      <3>1. link' = [link EXCEPT ![r].up = @ + 1]
        BY <1>1, <2>2 DEF TheHttp!Write
      <3> DEFINE k == [link[r] EXCEPT !.up = @ + 1]
      <3>2. link' = [link EXCEPT ![r] = k]
        BY <3>1
      <3>3. /\ k \in Links
            /\ k.client = link[r].client /\ k.server = link[r].server
            /\ k.up = link[r].up + 1 /\ k.down = link[r].down
        BY <1>6
      <3> HIDE DEF k
      <3> QED
        BY <2>2, <3>2, <3>3
    <2> QED
      BY <2>1, <2>2
  <1>8. link'[r] = k /\ \A s \in TheHttp!Requests : s # r => link'[s] = link[s]
    BY <1>1, <1>3, <1>7 DEF HttpTypes
  <1>9. r = TheHttp!Current(c)' /\ TheHttp!Parts(r)' = TheHttp!Parts(r)
    BY <1>1, <1>2 DEF TheHttp!Current, TheHttp!Parts
  <1>10. HttpTypes'
    <2>1. link' \in [TheHttp!Requests -> Links]
      BY <1>1, <1>3, <1>7 DEF HttpTypes
    <2>2. sent' \in [Clients -> Nat]
      BY <1>2, <1>3, <1>4 DEF HttpTypes
    <2>3. inside' \in [Clients -> {"idle", "writing", "reading"}]
      BY <1>2, <1>3 DEF HttpTypes
    <2> QED
      BY <1>2, <1>3, <2>1, <2>2, <2>3 DEF HttpTypes
  <1>11. ClientInv(c)'
    <2>1. Open(r)' /\ r = TheHttp!Current(c)' /\ tries' = tries
      BY <1>1, <1>2, <1>7, <1>8, <1>9 DEF Open
    <2>2. tries[c] <= Turns[c] /\ tries[c] > 0
      BY <1>2, <1>3 DEF ClientInv
    <2>3. /\ inside'[c] # "idle"
          /\ inside'[c] = "writing" => sent'[c] < TheHttp!Parts(r)
          /\ inside'[c] = "reading" => sent'[c] = TheHttp!Parts(r)
      BY <1>4, <1>5
    <2> QED
      BY <1>9, <2>1, <2>2, <2>3 DEF ClientInv
  <1>12. Truthful(c)'
    BY <1>5 DEF Truthful, TheHttp!Answered
  <1>13. RequestInv(r)'
    <2>1. Open(r)' /\ inside'[c] # "idle"
      BY <1>1, <1>5, <1>7, <1>8 DEF Open
    <2>2. Placed(r)'
      BY <1>1, <1>2, <1>3, <1>7, <1>8, <1>9, <2>1 DEF RequestInv, Placed
    <2>3. Arrived(r)'
      <3>1. link[r].server = "queued" => link[r].up = sent[c]
        BY <1>1, <1>3 DEF RequestInv, Arrived
      <3>2. r = serving => read + link[r].up = sent[c] /\ link[r].server = "open" /\ read \in Nat
        BY <1>1, <1>3 DEF RequestInv, Arrived, Placed, HttpTypes
      <3>3. link'[r].server \in {"queued", "open"} => link'[r].up = link[r].up + 1
        BY <1>7, <1>8 DEF TheHttp!Gone
      <3>4. link'[r].server = link[r].server /\ serving' = serving /\ read' = read
        BY <1>2, <1>7, <1>8
      <3> QED
        BY <1>1, <1>4, <1>5, <1>6, <2>1, <3>1, <3>2, <3>3, <3>4 DEF Arrived
    <2>4. HandledOnce(r)'
      <3>1. handled[r] <= sent'[c]
        BY <1>1, <1>3, <1>4, <1>5 DEF RequestInv, HandledOnce, HttpTypes
      <3>2. link'[r].server = link[r].server
        BY <1>7, <1>8
      <3> QED
        BY <1>1, <1>2, <1>3, <3>1, <3>2 DEF RequestInv, HandledOnce
    <2>5. AnswerComes(r)'
      <3>1. link'[r].server = link[r].server /\ got' = got
        BY <1>2, <1>7, <1>8
      <3>2. AnswerComes(r) /\ Open(r)
        BY <1>1, <1>3 DEF RequestInv
      <3>3. CASE Came(r)' = Came(r)
        BY <1>2, <3>1, <3>2, <3>3 DEF AnswerComes
      <3>4. CASE Came(r)' # Came(r)
        <4>1. TheHttp!Gone(r) /\ k.down = 0 /\ Came(r)' = got[c] /\ Came(r) = got[c] + link[r].down
          <5>1. Came(r)' = got[c] + k.down /\ Came(r) = got[c] + link[r].down
            BY <1>1, <1>8, <3>1 DEF Came
          <5> QED
            BY <1>6, <1>7, <3>4, <5>1
        <4>2. handled[r] > 0 => r \in late
          BY <1>1, <1>2, ShortIsLate
        <4>3. Came(r)' \in Nat /\ Came(r)' <= Came(r)
          BY <1>6, <4>1
        <4>4. r # serving
          BY <1>1, <1>3, <4>1 DEF RequestInv, Placed, TheHttp!Gone
        <4>5. Came(r) \in 0 .. 2 /\ (link[r].server = "reset" => Came(r) = 0)
              /\ (handled[r] = 0 \/ handled[r] > 0)
          BY <1>1, <1>3, <3>2, <4>1 DEF AnswerComes, TheHttp!Gone, HttpTypes
        <4>6. Came(r) = 0 => Came(r)' = 0
          BY <4>3
        <4> QED
          BY <1>2, <3>1, <3>2, <4>1, <4>2, <4>3, <4>4, <4>5, <4>6
             DEF AnswerComes, TheHttp!Gone
      <3> QED
        BY <3>3, <3>4
    <2> QED
      BY <2>2, <2>3, <2>4, <2>5 DEF RequestInv
  <1>14. \A d \in Clients : d # c => /\ inside'[d] = inside[d] /\ sent'[d] = sent[d]
                                     /\ got'[d] = got[d] /\ status'[d] = status[d]
                                     /\ answer'[d] = answer[d]
    BY <1>2, <1>3 DEF HttpTypes
  <1> QED
    BY <1>1, <1>2, <1>8, <1>10, <1>11, <1>12, <1>13, <1>14, ClientStep

\* A client that stops gives up its end; a request the server still has is late.
LEMMA StopStep ==
  ASSUME HttpInv, NEW c \in Clients, inside[c] # "idle", TheHttp!Stop(c),
         UNCHANGED <<tries, backlog, serving, step, read, handled, silent>>,
         late \subseteq late',
         NEW n \in {0, 200}, status' = [status EXCEPT ![c] = n],
         NEW b \in [of : TheHttp!Requests \cup {NoRequest}, parts : Nat],
         answer' = [answer EXCEPT ![c] = b],
         ~ TheHttp!Gone(TheHttp!Current(c)) => TheHttp!Current(c) \in late',
         Truthful(c)'
  PROVE  HttpInv'
  <1>1. PICK r \in TheHttp!Requests :
          /\ r = TheHttp!Current(c) /\ r[1] = c /\ r[2] = tries[c] /\ Open(r)
          /\ r # NoRequest /\ link[r].server # "none"
    BY CurrentFacts
  <1>2. /\ inside' = [inside EXCEPT ![c] = "idle"]
        /\ sent' = [sent EXCEPT ![c] = 0] /\ got' = [got EXCEPT ![c] = 0]
    BY DEF TheHttp!Stop
  <1>3. HttpTypes /\ ClientInv(c) /\ RequestInv(r)
    BY <1>1 DEF HttpInv
  <1>4. link[r] \in Links
    BY <1>1, <1>3 DEF HttpTypes
  <1>5. PICK k \in Links :
          /\ link' = [link EXCEPT ![r] = k]
          /\ k.client = "closed" /\ k.server = link[r].server
          /\ k.up = link[r].up /\ k.down = 0
    <2>1. link' = [link EXCEPT ![r].client = "closed", ![r].down = 0]
      BY <1>1 DEF TheHttp!Stop
    <2> DEFINE k == [[link[r] EXCEPT !.client = "closed"] EXCEPT !.down = 0]
    <2>2. link' = [link EXCEPT ![r] = k]
      <3> DEFINE f == [link EXCEPT ![r].client = "closed"]
      <3>1. f = [link EXCEPT ![r] = [link[r] EXCEPT !.client = "closed"]]
        OBVIOUS
      <3>2. link' = [f EXCEPT ![r].down = 0]
        BY <2>1
      <3>3. f[r] = [link[r] EXCEPT !.client = "closed"]
        BY <1>1, <1>3 DEF HttpTypes
      <3> HIDE DEF f
      <3>4. link' = [f EXCEPT ![r] = k]
        BY <3>2, <3>3
      <3> QED
        BY <1>1, <1>3, <3>1, <3>4 DEF HttpTypes
    <2>3. /\ k \in Links
          /\ k.client = "closed" /\ k.server = link[r].server
          /\ k.up = link[r].up /\ k.down = 0
      BY <1>4
    <2> HIDE DEF k
    <2> QED
      BY <2>2, <2>3
  <1>6. link'[r] = k /\ \A s \in TheHttp!Requests : s # r => link'[s] = link[s]
    BY <1>1, <1>3, <1>5 DEF HttpTypes
  <1>7. HttpTypes'
    BY <1>1, <1>2, <1>3, <1>5 DEF HttpTypes
  <1>8. /\ inside'[c] = "idle" /\ sent'[c] = 0 /\ got'[c] = 0 /\ tries'[c] = tries[c]
        /\ tries[c] <= Turns[c]
    BY <1>2, <1>3 DEF HttpTypes, ClientInv
  <1>9. ClientInv(c)'
    BY <1>8 DEF ClientInv
  <1>10. RequestInv(r)'
    <2>1. ~ Open(r)' /\ link'[r].server = link[r].server /\ link'[r].up = link[r].up
      BY <1>5, <1>6 DEF Open
    <2>2. Placed(r)'
      BY <1>1, <1>3, <2>1 DEF RequestInv, Placed
    <2>3. Arrived(r)'
      BY <1>1, <1>3, <2>1 DEF RequestInv, Arrived, TheHttp!Gone
    <2>4. HandledOnce(r)'
      BY <1>1, <1>3, <2>1 DEF RequestInv, HandledOnce
    <2>5. AnswerComes(r)'
      BY <2>1 DEF AnswerComes
    <2> QED
      BY <2>2, <2>3, <2>4, <2>5 DEF RequestInv
  <1>11. \A d \in Clients : d # c => /\ inside'[d] = inside[d] /\ sent'[d] = sent[d]
                                     /\ got'[d] = got[d] /\ status'[d] = status[d]
                                     /\ answer'[d] = answer[d]
    BY <1>2, <1>3 DEF HttpTypes
  <1> QED
    BY <1>1, <1>6, <1>7, <1>9, <1>10, <1>11, ClientStep

LEMMA WriteFailsStep ==
  ASSUME HttpInv, NEW c \in Clients, TheHttp!WriteFails(c)
  PROVE  HttpInv'
  <1>1. PICK r \in TheHttp!Requests : r = TheHttp!Current(c) /\ r[1] = c
    BY CurrentFacts DEF TheHttp!WriteFails
  <1>2. /\ inside[c] = "writing" /\ TheHttp!Stop(c) /\ TheHttp!Gone(r)
        /\ status' = [status EXCEPT ![c] = 0] /\ answer' = answer /\ late' = late
        /\ UNCHANGED <<tries, backlog, serving, step, read, handled, silent>>
    BY <1>1 DEF TheHttp!WriteFails, TheHttp!server
  <1>3. HttpTypes
    BY DEF HttpInv
  <1>4. /\ answer[c] \in [of : TheHttp!Requests \cup {NoRequest}, parts : Nat]
        /\ answer' = [answer EXCEPT ![c] = answer[c]]
        /\ status'[c] = 0 /\ handled' = handled
    BY <1>2, <1>3 DEF HttpTypes
  <1>5. handled[r] > 0 => r \in late
    BY <1>1, <1>2, ShortIsLate
  <1>6. TheHttp!Current(c)' = r
    BY <1>1, <1>2 DEF TheHttp!Current
  <1>7. Truthful(c)'
    BY <1>2, <1>4, <1>5, <1>6 DEF Truthful
  <1> QED
    BY <1>1, <1>2, <1>4, <1>7, StopStep

\* A read that ends judges by what has come: nothing but a head and a body, and
\* nothing at all only from a handler that was silent, or never ran.
LEMMA FinishStep ==
  ASSUME HttpInv, NEW c \in Clients, inside[c] = "reading", TheHttp!Finish(c),
         link[TheHttp!Current(c)].down = 0, late \subseteq late',
         ~ TheHttp!Gone(TheHttp!Current(c)) => TheHttp!Current(c) \in late'
  PROVE  HttpInv'
  <1>1. PICK r \in TheHttp!Requests :
          /\ r = TheHttp!Current(c) /\ r[1] = c /\ Open(r) /\ link[r].server # "none"
    BY CurrentFacts
  <1> DEFINE n == IF got[c] > 0 THEN 200 ELSE 0
             b == TheHttp!NewBody(c)
  <1>2. /\ TheHttp!Stop(c) /\ status' = [status EXCEPT ![c] = n]
        /\ answer' = [answer EXCEPT ![c] = b]
        /\ UNCHANGED <<tries, backlog, serving, step, read, handled, silent>>
    BY DEF TheHttp!Finish, TheHttp!server
  <1>3. HttpTypes /\ RequestInv(r) /\ got[c] \in Nat
    BY <1>1 DEF HttpInv, HttpTypes
  <1>4. Came(r) = got[c] /\ (handled[r] = 0 \/ handled[r] > 0)
    BY <1>1, <1>3 DEF Came, HttpTypes
  <1>5. got[c] \in 0 .. 2
    <2>1. link[r].server \in {"queued", "reset", "closed", "open"}
      BY <1>1, <1>3 DEF HttpTypes
    <2>2. link[r].server = "open" => r = serving
      BY <1>3 DEF RequestInv, Placed
    <2>3. r = serving => step \in {"reading", "handling", "head", "body", "closing"}
      BY <1>1, <1>3, RequestFacts DEF HttpTypes
    <2> QED
      BY <1>1, <1>3, <1>4, <2>1, <2>2, <2>3 DEF RequestInv, AnswerComes
  <1>6. got[c] = 0 /\ handled[r] > 0 => r \in silent \cup late'
    <2> SUFFICES ASSUME got[c] = 0, handled[r] > 0, link[r].server \in {"closed", "reset"}
                 PROVE  r \in silent \cup late
      BY <1>1 DEF TheHttp!Gone
    <2>1. link[r].server # "reset"
      BY <1>3 DEF RequestInv, HandledOnce
    <2> QED
      BY <1>1, <1>3, <1>4, <2>1 DEF RequestInv, AnswerComes
  <1>7. got[c] > 0 => handled[r] > 0
    <2>1. CASE link[r].server \in {"queued", "reset"}
      BY <1>1, <1>3, <1>4, <2>1 DEF RequestInv, AnswerComes
    <2>2. CASE link[r].server = "closed"
      BY <1>1, <1>3, <1>4, <2>2 DEF RequestInv, AnswerComes
    <2>3. CASE link[r].server = "open"
      <3>1. r = serving /\ step # "none"
        BY <1>1, <1>3, <2>3, RequestFacts DEF RequestInv, Placed, HttpTypes
      <3>2. CASE step \in {"reading", "handling", "head"}
        BY <1>1, <1>3, <1>4, <3>1, <3>2 DEF RequestInv, AnswerComes
      <3>3. CASE step \in {"body", "closing"}
        BY <1>1, <1>3, <1>4, <3>1, <3>3 DEF RequestInv, AnswerComes, HandledOnce
      <3> QED
        BY <1>3, <3>1, <3>2, <3>3 DEF HttpTypes
    <2> QED
      BY <1>1, <1>3, <2>1, <2>2, <2>3 DEF HttpTypes
  <1>8. got[c] = 1 => r \in late'
    <2>1. link[r].server = "closed" /\ got[c] = 1 => r \in late
      BY <1>1, <1>3, <1>4 DEF RequestInv, AnswerComes
    <2>2. link[r].server = "reset" => got[c] = 0
      BY <1>1, <1>3, <1>4 DEF RequestInv, AnswerComes
    <2> QED
      BY <1>1, <2>1, <2>2 DEF TheHttp!Gone
  <1>9. b \in [of : TheHttp!Requests \cup {NoRequest}, parts : Nat] /\ n \in {0, 200}
    BY <1>1, <1>5 DEF TheHttp!NewBody, TheHttp!NoBody
  <1>10. TheHttp!Current(c)' = r /\ handled' = handled /\ silent' = silent
    BY <1>1, <1>2 DEF TheHttp!Current
  <1>11. status'[c] = n /\ answer'[c] = b
    BY <1>2, <1>3 DEF HttpTypes
  <1>12. b \in {TheHttp!NoBody} \cup [of : {r}, parts : 0 .. 1]
    BY <1>1, <1>5 DEF TheHttp!NewBody
  <1>13. n = 200 /\ b = [of |-> r, parts |-> 0] => r \in late'
    <2> SUFFICES ASSUME n = 200, b = [of |-> r, parts |-> 0] PROVE got[c] = 1
      BY <1>8
    <2>1. got[c] > 0 /\ b = [of |-> r, parts |-> got[c] - 1]
      BY <1>1 DEF TheHttp!NewBody
    <2>2. [of |-> r, parts |-> 0] = [of |-> r, parts |-> got[c] - 1]
      BY <2>1
    <2>3. \A x, y : [of |-> r, parts |-> x] = [of |-> r, parts |-> y] => x = y
      OBVIOUS
    <2>4. 0 = got[c] - 1
      BY <2>2, <2>3
    <2> QED
      BY <1>3, <2>4
  <1> HIDE DEF b
  <1>14. Truthful(c)'
    <2>1. n = 200 => handled'[r] > 0
      BY <1>7, <1>10
    <2>2. n # 200 /\ handled'[r] > 0 => r \in silent' \cup late'
      BY <1>3, <1>6, <1>10
    <2>3. (TheHttp!NoBody)' = TheHttp!NoBody
      BY DEF TheHttp!NoBody
    <2> QED
      BY <1>10, <1>11, <1>12, <1>13, <2>1, <2>2, <2>3 DEF Truthful
  <1> QED
    BY <1>1, <1>2, <1>9, <1>14, StopStep

LEMMA ReadEndsStep ==
  ASSUME HttpInv, NEW c \in Clients, TheHttp!ReadEnds(c) \/ TheHttp!ReadTimesOut(c)
  PROVE  HttpInv'
BY FinishStep DEF TheHttp!ReadEnds, TheHttp!ReadTimesOut

LEMMA ReadStep ==
  ASSUME HttpInv, NEW c \in Clients, TheHttp!Read(c)
  PROVE  HttpInv'
  <1>1. PICK r \in TheHttp!Requests :
          /\ r = TheHttp!Current(c) /\ r[1] = c /\ r[2] = tries[c] /\ Open(r)
          /\ r # NoRequest /\ link[r].server # "none"
    BY CurrentFacts DEF TheHttp!Read
  <1>2. /\ inside[c] = "reading" /\ link[r].down > 0
        /\ link' = [link EXCEPT ![r].down = @ - 1] /\ got' = [got EXCEPT ![c] = @ + 1]
        /\ UNCHANGED <<backlog, serving, step, read, handled, silent, late>>
        /\ UNCHANGED <<tries, inside, sent, status, answer>>
    BY <1>1 DEF TheHttp!Read, TheHttp!server
  <1>3. HttpTypes /\ ClientInv(c) /\ RequestInv(r) /\ got[c] \in Nat
    BY <1>1 DEF HttpInv, HttpTypes
  <1>4. link[r] \in Links
    BY <1>1, <1>3 DEF HttpTypes
  <1>5. PICK k \in Links :
          /\ link' = [link EXCEPT ![r] = k]
          /\ k.client = link[r].client /\ k.server = link[r].server
          /\ k.up = link[r].up /\ k.down = link[r].down - 1
    <2> DEFINE k == [link[r] EXCEPT !.down = @ - 1]
    <2>1. link' = [link EXCEPT ![r] = k]
      BY <1>2
    <2>2. /\ k \in Links
          /\ k.client = link[r].client /\ k.server = link[r].server
          /\ k.up = link[r].up /\ k.down = link[r].down - 1
      BY <1>2, <1>4
    <2> HIDE DEF k
    <2> QED
      BY <2>1, <2>2
  <1>6. link'[r] = k /\ \A s \in TheHttp!Requests : s # r => link'[s] = link[s]
    BY <1>1, <1>3, <1>5 DEF HttpTypes
  <1>7. HttpTypes'
    <2>1. got' \in [Clients -> Nat]
      <3>1. got \in [Clients -> Nat] /\ got[c] + 1 \in Nat
        BY <1>3 DEF HttpTypes
      <3> QED
        BY <1>2, <3>1
    <2>2. link' \in [TheHttp!Requests -> Links]
      BY <1>1, <1>3, <1>5 DEF HttpTypes
    <2> QED
      BY <1>2, <1>3, <2>1, <2>2 DEF HttpTypes
  <1>8. r = TheHttp!Current(c)' /\ TheHttp!Parts(r)' = TheHttp!Parts(r)
    BY <1>1, <1>2 DEF TheHttp!Current, TheHttp!Parts
  <1>9. Open(r)' /\ inside'[c] = "reading" /\ Came(r)' = Came(r)
    BY <1>1, <1>2, <1>3, <1>4, <1>5, <1>6 DEF Open, Came, HttpTypes
  <1>10. ClientInv(c)'
    BY <1>1, <1>2, <1>3, <1>8, <1>9 DEF ClientInv
  <1>11. Truthful(c)'
    BY <1>9 DEF Truthful, TheHttp!Answered
  <1>12. RequestInv(r)'
    <2>1. Placed(r)'
      BY <1>1, <1>2, <1>3, <1>5, <1>6, <1>8, <1>9 DEF RequestInv, Placed
    <2>2. Arrived(r)'
      BY <1>1, <1>2, <1>3, <1>5, <1>6, <1>8, <1>9 DEF RequestInv, Arrived
    <2>3. HandledOnce(r)'
      BY <1>1, <1>2, <1>3, <1>5, <1>6, <1>8, <1>9 DEF RequestInv, HandledOnce
    <2>4. AnswerComes(r)'
      BY <1>1, <1>2, <1>3, <1>5, <1>6, <1>8, <1>9 DEF RequestInv, AnswerComes
    <2> QED
      BY <2>1, <2>2, <2>3, <2>4 DEF RequestInv
  <1>13. \A d \in Clients : d # c => /\ inside'[d] = inside[d] /\ sent'[d] = sent[d]
                                     /\ got'[d] = got[d] /\ status'[d] = status[d]
                                     /\ answer'[d] = answer[d]
    BY <1>2, <1>3 DEF HttpTypes
  <1> QED
    BY <1>1, <1>2, <1>6, <1>7, <1>10, <1>11, <1>12, <1>13, ClientStep

\* What a step of the server has to show: the types, and the requests it
\* touches; the clients have not moved, and what they were told stays true.
LEMMA ServerStep ==
  ASSUME HttpInv, UNCHANGED <<tries, inside, sent, got, status, answer>>,
         HttpTypes', late \subseteq late', silent \subseteq silent',
         \A s \in TheHttp!Requests : link'[s].client = link[s].client,
         \A s \in TheHttp!Requests : handled'[s] # handled[s] => handled[s] = 0 /\ handled'[s] > 0,
         \A s \in TheHttp!Requests :
           handled'[s] # handled[s] => Open(s) \/ s \in late,
         \A s \in TheHttp!Requests : RequestInv(s)'
  PROVE  HttpInv'
  <1>1. ASSUME NEW c \in Clients PROVE ClientInv(c)'
    <2>1. ClientInv(c) /\ tries[c] \in Nat
      BY DEF HttpInv, HttpTypes
    <2>2. TheHttp!Current(c)' = TheHttp!Current(c)
      BY DEF TheHttp!Current
    <2>3. inside[c] # "idle" => Open(TheHttp!Current(c))'
      <3> SUFFICES ASSUME inside[c] # "idle" PROVE Open(TheHttp!Current(c))'
        OBVIOUS
      <3>1. PICK r \in TheHttp!Requests : r = TheHttp!Current(c) /\ Open(r)
        BY CurrentFacts
      <3> QED
        BY <2>2, <3>1 DEF Open
    <2> QED
      BY <2>1, <2>2, <2>3 DEF ClientInv, TheHttp!Parts
  <1>2. ASSUME NEW c \in Clients PROVE Truthful(c)'
    <2> SUFFICES ASSUME TheHttp!Answered(c)' PROVE Truthful(c)'
      BY DEF Truthful
    <2>1. TheHttp!Answered(c) /\ Truthful(c) /\ tries[c] \in 1 .. Turns[c] /\ inside[c] = "idle"
      BY PartsAssumption DEF HttpInv, ClientInv, HttpTypes, TheHttp!Answered
    <2>2. PICK r \in TheHttp!Requests : r = TheHttp!Current(c) /\ r[1] = c
      BY <2>1, RequestFacts DEF TheHttp!Current
    <2>3. TheHttp!Current(c)' = r
      BY <2>2 DEF TheHttp!Current
    <2>4. ~ Open(r)
      BY <2>1, <2>2 DEF HttpInv, RequestInv, Placed
    <2>5. handled[r] \in Nat /\ handled'[r] \in Nat
      BY <2>2 DEF HttpInv, HttpTypes
    <2>6. handled'[r] = handled[r] \/ r \in late'
      BY <2>2, <2>4
    <2>7. status[c] = 200 => /\ handled[r] > 0
                             /\ answer[c] \in {TheHttp!NoBody} \cup [of : {r}, parts : 0 .. 1]
                             /\ answer[c] = [of |-> r, parts |-> 0] => r \in late
      BY <2>1, <2>2 DEF Truthful
    <2>8. status[c] # 200 /\ handled[r] > 0 => r \in silent \cup late
      BY <2>1, <2>2 DEF Truthful
    <2>9. handled[r] > 0 => handled'[r] > 0
      BY <2>2, <2>5
    <2>10. (TheHttp!NoBody)' = TheHttp!NoBody
      BY DEF TheHttp!NoBody
    <2> QED
      BY <2>3, <2>5, <2>6, <2>7, <2>8, <2>9, <2>10 DEF Truthful
  <1>3. TheHttp!Requests' = TheHttp!Requests
    BY DEF TheHttp!Requests
  <1> QED
    BY <1>1, <1>2, <1>3 DEF HttpInv

\* A request the server does not touch stays as it is.
LEMMA RequestKeeps ==
  ASSUME HttpInv, UNCHANGED <<tries, inside, sent, got>>,
         NEW s \in TheHttp!Requests, link'[s] = link[s], handled'[s] = handled[s],
         late \subseteq late', silent \subseteq silent',
         s \in ToSet(backlog) <=> s \in ToSet(backlog'),
         s # serving, s # serving'
  PROVE  RequestInv(s)'
  <1>1. RequestInv(s) /\ Open(s)' = Open(s) /\ Came(s)' = Came(s)
    BY DEF HttpInv, Open, Came
  <1>2. TheHttp!Current(s[1])' = TheHttp!Current(s[1])
    BY DEF TheHttp!Current
  <1>3. Placed(s)'
    BY <1>1, <1>2 DEF RequestInv, Placed, ToSet
  <1>4. Arrived(s)'
    BY <1>1 DEF RequestInv, Arrived, TheHttp!Parts
  <1>5. HandledOnce(s)'
    BY <1>1 DEF RequestInv, HandledOnce, TheHttp!Parts
  <1>6. AnswerComes(s)'
    BY <1>1 DEF RequestInv, AnswerComes
  <1> QED
    BY <1>3, <1>4, <1>5, <1>6 DEF RequestInv

\* A step of the server about one request leaves the others where they were.
LEMMA ServingStep ==
  ASSUME HttpInv, UNCHANGED <<tries, inside, sent, got, status, answer>>,
         late \subseteq late', silent \subseteq silent',
         NEW r \in TheHttp!Requests,
         NEW k \in Links, link' = [link EXCEPT ![r] = k], k.client = link[r].client,
         NEW n \in Nat, handled' = [handled EXCEPT ![r] = n],
         n # handled[r] => handled[r] = 0 /\ n > 0 /\ (Open(r) \/ r \in late),
         serving \in {r, NoRequest}, serving' \in {r, NoRequest},
         step' \in {"none", "reading", "handling", "head", "body", "closing"},
         serving' = NoRequest <=> step' = "none", read' \in Nat,
         backlog' \in Seq(TheHttp!Requests), IsInjective(backlog'),
         \A s \in TheHttp!Requests : s # r => (s \in ToSet(backlog) <=> s \in ToSet(backlog')),
         RequestInv(r)'
  PROVE  HttpInv'
  <1>1. HttpTypes /\ r # NoRequest
    BY RequestFacts DEF HttpInv
  <1>2. /\ link'[r] = k /\ \A s \in TheHttp!Requests : s # r => link'[s] = link[s]
        /\ handled'[r] = n /\ \A s \in TheHttp!Requests : s # r => handled'[s] = handled[s]
    BY <1>1 DEF HttpTypes
  <1>3. HttpTypes'
    <2>1. link' \in [TheHttp!Requests -> Links] /\ handled' \in [TheHttp!Requests -> Nat]
      BY <1>1 DEF HttpTypes
    <2>2. TheHttp!Requests' = TheHttp!Requests
      BY DEF TheHttp!Requests
    <2> QED
      BY <1>1, <2>1, <2>2 DEF HttpTypes
  <1>4. \A s \in TheHttp!Requests : RequestInv(s)'
    <2> SUFFICES ASSUME NEW s \in TheHttp!Requests, s # r PROVE RequestInv(s)'
      OBVIOUS
    <2>1. s # serving /\ s # serving'
      BY RequestFacts
    <2> QED
      BY <1>2, <2>1, RequestKeeps
  <1>5. \A s \in TheHttp!Requests : link'[s].client = link[s].client
    BY <1>2
  <1>6. \A s \in TheHttp!Requests : handled'[s] # handled[s] =>
          handled[s] = 0 /\ handled'[s] > 0 /\ (Open(s) \/ s \in late)
    BY <1>2
  <1> QED
    BY <1>3, <1>4, <1>5, <1>6, ServerStep

LEMMA ServingFacts ==
  ASSUME HttpInv, serving # NoRequest
  PROVE  /\ serving \in TheHttp!Requests /\ RequestInv(serving)
         /\ link[serving] \in Links /\ link[serving].server = "open"
         /\ step \in {"reading", "handling", "head", "body", "closing"}
         /\ read \in Nat /\ handled[serving] \in Nat /\ TheHttp!Parts(serving) \in 1 .. 2
         /\ backlog \in Seq(TheHttp!Requests) /\ IsInjective(backlog)
         /\ link = [link EXCEPT ![serving] = link[serving]]
         /\ handled = [handled EXCEPT ![serving] = handled[serving]]
         /\ handled[serving] > 0 \/ handled[serving] = 0
         /\ serving \notin ToSet(backlog)
         /\ Open(serving) => sent[serving[1]] \in Nat /\ got[serving[1]] \in Nat
  <1>1. HttpTypes /\ serving \in TheHttp!Requests /\ step # "none"
    BY DEF HttpInv, HttpTypes
  <1>2. RequestInv(serving) /\ serving[1] \in Clients
    BY <1>1, RequestFacts DEF HttpInv
  <1>3. link[serving].server = "open" /\ serving \notin ToSet(backlog)
    BY <1>2 DEF RequestInv, Placed
  <1>4. TheHttp!Parts(serving) \in 1 .. 2
    BY DEF TheHttp!Parts
  <1>5. /\ link = [link EXCEPT ![serving] = link[serving]]
        /\ handled = [handled EXCEPT ![serving] = handled[serving]]
    BY <1>1 DEF HttpTypes
  <1>6. handled[serving] \in Nat
    BY <1>1 DEF HttpTypes
  <1> QED
    BY <1>1, <1>2, <1>3, <1>4, <1>5, <1>6 DEF HttpTypes

LEMMA BeginStep ==
  ASSUME HttpInv,
         UNCHANGED <<backlog, link, serving, step, read, handled, silent, late>>,
         UNCHANGED <<tries, inside, sent, got, status, answer>>
  PROVE  HttpInv'
  <1>1. HttpTypes' /\ TheHttp!Requests' = TheHttp!Requests
    BY DEF HttpInv, HttpTypes, TheHttp!Requests
  <1>2. ASSUME NEW r \in TheHttp!Requests PROVE RequestInv(r)'
    <2>1. RequestInv(r) /\ TheHttp!Current(r[1])' = TheHttp!Current(r[1])
      BY DEF HttpInv, TheHttp!Current
    <2>2. Placed(r)'
      BY <2>1 DEF RequestInv, Placed, Open
    <2>3. Arrived(r)' /\ HandledOnce(r)' /\ AnswerComes(r)'
      BY <2>1 DEF RequestInv, Arrived, HandledOnce, AnswerComes, Open, Came, TheHttp!Parts
    <2> QED
      BY <2>2, <2>3 DEF RequestInv
  <1> QED
    BY <1>1, <1>2, ServerStep

\* Closing the listener resets what waits; no handler has seen it.
LEMMA CloseStep ==
  ASSUME HttpInv, TheHttp!Close
  PROVE  HttpInv'
  <1>1. /\ serving = NoRequest /\ backlog' = << >>
        /\ link' = [r \in TheHttp!Requests |->
                      IF r \in TheHttp!ToSet(backlog)
                        THEN [link[r] EXCEPT !.server = "reset", !.up = 0] ELSE link[r]]
        /\ UNCHANGED <<serving, step, read, handled, silent, late>>
        /\ UNCHANGED <<tries, inside, sent, got, status, answer>>
    BY DEF TheHttp!Close, TheHttp!client
  <1>2. TheHttp!ToSet(backlog) = ToSet(backlog)
    BY DEF TheHttp!ToSet, ToSet
  <1>3. ASSUME NEW r \in TheHttp!Requests
        PROVE  /\ link[r] \in Links
               /\ r \in ToSet(backlog) =>
                    /\ link'[r] \in Links
                    /\ link'[r].client = link[r].client /\ link'[r].server = "reset"
                    /\ link'[r].down = link[r].down
               /\ r \notin ToSet(backlog) => link'[r] = link[r]
    <2>1. link[r] \in Links
      BY DEF HttpInv, HttpTypes
    <2> QED
      BY <1>1, <1>2, <2>1
  <1>4. backlog' \in Seq(TheHttp!Requests) /\ IsInjective(backlog') /\ ToSet(backlog') = {}
    BY <1>1, EmptySeq, EmptySet
  <1>5. link' \in [TheHttp!Requests -> Links]
    <2>1. \A r \in TheHttp!Requests : link'[r] \in Links
      BY <1>3
    <2> HIDE DEF Links
    <2> QED
      BY <1>1, <2>1
  <1>6. HttpTypes'
    <2>1. TheHttp!Requests' = TheHttp!Requests
      BY DEF TheHttp!Requests
    <2> QED
      BY <1>1, <1>4, <1>5, <2>1 DEF HttpInv, HttpTypes
  <1>7. ASSUME NEW r \in TheHttp!Requests PROVE RequestInv(r)'
    <2>1. RequestInv(r) /\ r # NoRequest /\ TheHttp!Current(r[1])' = TheHttp!Current(r[1])
      BY <1>1, RequestFacts DEF HttpInv, TheHttp!Current
    <2>2. CASE r \in ToSet(backlog)
      <3>1. link[r].server = "queued" /\ link'[r].server = "reset"
            /\ Open(r)' = Open(r) /\ Came(r)' = Came(r)
        BY <1>1, <1>3, <2>1, <2>2 DEF RequestInv, Placed, Open, Came
      <3>2. Placed(r)'
        BY <1>1, <1>4, <2>1, <3>1 DEF RequestInv, Placed
      <3>3. Arrived(r)'
        BY <1>1, <2>1, <3>1 DEF Arrived
      <3>4. HandledOnce(r)'
        BY <1>1, <2>1, <3>1 DEF RequestInv, HandledOnce
      <3>5. AnswerComes(r)'
        BY <1>1, <2>1, <3>1 DEF RequestInv, AnswerComes
      <3> QED
        BY <3>2, <3>3, <3>4, <3>5 DEF RequestInv
    <2>3. CASE r \notin ToSet(backlog)
      BY <1>1, <1>3, <1>4, <2>1, <2>3, RequestKeeps
    <2> QED
      BY <2>2, <2>3
  <1>8. \A r \in TheHttp!Requests : link'[r].client = link[r].client
    BY <1>3
  <1> QED
    BY <1>1, <1>6, <1>7, <1>8, ServerStep

LEMMA AcceptStep ==
  ASSUME HttpInv, TheHttp!Accept
  PROVE  HttpInv'
  <1>1. /\ serving = NoRequest /\ backlog # << >>
        /\ serving' = Head(backlog) /\ backlog' = Tail(backlog)
        /\ step' = "reading" /\ read' = 0
        /\ link' = [link EXCEPT ![Head(backlog)].server = "open"]
        /\ UNCHANGED <<handled, silent, late>>
        /\ UNCHANGED <<tries, inside, sent, got, status, answer>>
    BY DEF TheHttp!Accept, TheHttp!client
  <1>2. HttpTypes
    BY DEF HttpInv
  <1>3. PICK r \in TheHttp!Requests :
          /\ r = Head(backlog) /\ backlog' \in Seq(TheHttp!Requests) /\ IsInjective(backlog')
          /\ ToSet(backlog) = ToSet(backlog') \cup {r} /\ r \notin ToSet(backlog')
    BY <1>1, <1>2, TailSet DEF HttpTypes
  <1>4. /\ RequestInv(r) /\ link[r] \in Links /\ link[r].server = "queued" /\ r # NoRequest
        /\ handled[r] \in Nat /\ handled = [handled EXCEPT ![r] = handled[r]]
    BY <1>2, <1>3, RequestFacts DEF HttpInv, HttpTypes, RequestInv, Placed
  <1> DEFINE k == [link[r] EXCEPT !.server = "open"]
  <1>5. /\ k \in Links /\ k.client = link[r].client /\ k.server = "open"
        /\ k.up = link[r].up /\ k.down = link[r].down
        /\ link' = [link EXCEPT ![r] = k]
    BY <1>1, <1>3, <1>4
  <1> HIDE DEF k
  <1>6. link'[r] = k
    BY <1>2, <1>5 DEF HttpTypes
  <1>7. RequestInv(r)'
    <2>1. Open(r)' = Open(r) /\ Came(r)' = Came(r) /\ TheHttp!Current(r[1])' = TheHttp!Current(r[1])
      BY <1>1, <1>5, <1>6 DEF Open, Came, TheHttp!Current
    <2>2. Placed(r)'
      BY <1>1, <1>3, <1>4, <1>5, <1>6, <2>1 DEF RequestInv, Placed
    <2>3. Arrived(r)'
      <3>1. /\ link[r].up <= TheHttp!Parts(r) /\ TheHttp!Parts(r)' = TheHttp!Parts(r)
            /\ Open(r) => link[r].up = sent[r[1]]
        BY <1>4 DEF RequestInv, Arrived, TheHttp!Parts
      <3>2. read' + link'[r].up = link[r].up
        BY <1>1, <1>4, <1>5, <1>6
      <3>3. link'[r].server = "open" /\ (Open(r)' => link'[r].up = sent'[r[1]])
            /\ sent' = sent /\ late' = late /\ link'[r].up = link[r].up
        BY <1>1, <1>5, <1>6, <2>1, <3>1
      <3>4. Open(r) \/ r \in late
        BY <1>4 DEF RequestInv, Arrived
      <3> QED
        BY <2>1, <3>1, <3>2, <3>3, <3>4 DEF Arrived
    <2>4. HandledOnce(r)'
      BY <1>1, <1>3, <1>4, <1>5, <1>6, <2>1 DEF RequestInv, HandledOnce, TheHttp!Parts
    <2>5. AnswerComes(r)'
      BY <1>1, <1>3, <1>4, <1>5, <1>6, <2>1 DEF RequestInv, AnswerComes
    <2> QED
      BY <2>2, <2>3, <2>4, <2>5 DEF RequestInv
  <1> QED
    BY <1>1, <1>3, <1>4, <1>5, <1>7, ServingStep

LEMMA ReceiveStep ==
  ASSUME HttpInv, TheHttp!Receive
  PROVE  HttpInv'
  <1>1. serving # NoRequest
    BY DEF TheHttp!Receive, HttpInv, HttpTypes
  <1>2. PICK r \in TheHttp!Requests : r = serving
    BY <1>1, ServingFacts
  <1>3. /\ step = "reading" /\ link[r].up > 0 /\ read' = read + 1
        /\ link' = [link EXCEPT ![r].up = @ - 1]
        /\ step' = IF r \in Posts /\ read' = 2 THEN "handling" ELSE step
        /\ UNCHANGED <<backlog, serving, handled, silent, late>>
        /\ UNCHANGED <<tries, inside, sent, got, status, answer>>
    BY <1>2 DEF TheHttp!Receive, TheHttp!client
  <1>4. /\ RequestInv(r) /\ link[r] \in Links /\ r # NoRequest
        /\ read \in Nat /\ TheHttp!Parts(r) \in 1 .. 2
        /\ handled[r] \in Nat /\ handled = [handled EXCEPT ![r] = handled[r]]
        /\ backlog \in Seq(TheHttp!Requests) /\ IsInjective(backlog)
        /\ Open(r) => sent[r[1]] \in Nat /\ got[r[1]] \in Nat
    BY <1>1, <1>2, ServingFacts
  <1> DEFINE k == [link[r] EXCEPT !.up = @ - 1]
  <1>5. /\ k \in Links /\ k.client = link[r].client /\ k.server = link[r].server
        /\ k.up = link[r].up - 1 /\ k.down = link[r].down
    BY <1>3, <1>4
  <1>6. link' = [link EXCEPT ![r] = k]
    BY <1>3
  <1> HIDE DEF k
  <1>7. link'[r] = k
    BY <1>6 DEF HttpInv, HttpTypes
  <1>8. RequestInv(r)'
    <2>1. Open(r)' = Open(r) /\ Came(r)' = Came(r) /\ TheHttp!Current(r[1])' = TheHttp!Current(r[1])
          /\ TheHttp!Parts(r)' = TheHttp!Parts(r)
      BY <1>3, <1>5, <1>7 DEF Open, Came, TheHttp!Current, TheHttp!Parts
    <2>2. Placed(r)'
      BY <1>3, <1>4, <1>5, <1>7, <2>1 DEF RequestInv, Placed
    <2>3. Arrived(r)'
      <3>1. read' + link'[r].up = read + link[r].up
        BY <1>3, <1>4, <1>5, <1>7
      <3> QED
        BY <1>2, <1>3, <1>4, <1>5, <1>7, <2>1, <3>1 DEF RequestInv, Arrived, Placed
    <2>4. HandledOnce(r)'
      <3>1. step' = "handling" => read' > 0 /\ read' = TheHttp!Parts(r)
        BY <1>3 DEF TheHttp!Parts
      <3> QED
        BY <1>2, <1>3, <1>4, <1>5, <1>7, <2>1, <3>1 DEF RequestInv, HandledOnce
    <2>5. AnswerComes(r)'
      BY <1>2, <1>3, <1>4, <1>5, <1>7, <2>1 DEF RequestInv, AnswerComes
    <2> QED
      BY <2>2, <2>3, <2>4, <2>5 DEF RequestInv
  <1>9. step' \in {"reading", "handling"} /\ read' \in Nat
    BY <1>3, <1>4
  <1> QED
    BY <1>2, <1>3, <1>4, <1>5, <1>6, <1>8, <1>9, ServingStep

\* A read that ends short of the request had its end of stream from a client
\* that was late, or is late itself.
LEMMA ReceiveEndsStep ==
  ASSUME HttpInv, TheHttp!ReceiveEnds
  PROVE  HttpInv'
  <1>1. serving # NoRequest
    BY DEF TheHttp!ReceiveEnds, HttpInv, HttpTypes
  <1>2. PICK r \in TheHttp!Requests : r = serving
    BY <1>1, ServingFacts
  <1>3. /\ step = "reading" /\ link[r].up = 0
        /\ step' = IF read = 0 THEN "closing" ELSE "handling"
        /\ late' = IF read < TheHttp!Parts(r) /\ Open(r) THEN late \cup {r} ELSE late
        /\ UNCHANGED <<backlog, link, serving, read, handled, silent>>
        /\ UNCHANGED <<tries, inside, sent, got, status, answer>>
    BY <1>2 DEF TheHttp!ReceiveEnds, TheHttp!client, Open
  <1>4. /\ RequestInv(r) /\ link[r] \in Links /\ r # NoRequest
        /\ link[r].server = "open" /\ link = [link EXCEPT ![r] = link[r]]
        /\ read \in Nat /\ TheHttp!Parts(r) \in 1 .. 2
        /\ handled[r] \in Nat /\ handled = [handled EXCEPT ![r] = handled[r]]
        /\ backlog \in Seq(TheHttp!Requests) /\ IsInjective(backlog)
    BY <1>1, <1>2, ServingFacts
  <1>5. RequestInv(r)'
    <2>1. Open(r)' = Open(r) /\ Came(r)' = Came(r) /\ TheHttp!Current(r[1])' = TheHttp!Current(r[1])
          /\ TheHttp!Parts(r)' = TheHttp!Parts(r) /\ link'[r] = link[r] /\ late \subseteq late'
      BY <1>3 DEF Open, Came, TheHttp!Current, TheHttp!Parts
    <2>2. Placed(r)'
      BY <1>3, <1>4, <2>1 DEF RequestInv, Placed
    <2>3. Arrived(r)'
      BY <1>3, <1>4, <2>1 DEF RequestInv, Arrived
    <2>4. HandledOnce(r)'
      <3>1. read <= TheHttp!Parts(r) /\ (Open(r) \/ r \in late)
        BY <1>2, <1>3, <1>4 DEF RequestInv, Arrived
      <3>2. step' = "handling" => read > 0 /\ (read = TheHttp!Parts(r) \/ r \in late')
        BY <1>3, <1>4, <3>1
      <3> QED
        BY <1>2, <1>3, <1>4, <2>1, <3>2 DEF RequestInv, HandledOnce
    <2>5. AnswerComes(r)'
      BY <1>2, <1>3, <1>4, <2>1 DEF RequestInv, AnswerComes, HandledOnce
    <2> QED
      BY <2>2, <2>3, <2>4, <2>5 DEF RequestInv
  <1>6. step' \in {"closing", "handling"}
    BY <1>3
  <1> QED
    BY <1>2, <1>3, <1>4, <1>5, <1>6, ServingStep

LEMMA HandleStep ==
  ASSUME HttpInv, TheHttp!Handle
  PROVE  HttpInv'
  <1>1. serving # NoRequest
    BY DEF TheHttp!Handle, HttpInv, HttpTypes
  <1>2. PICK r \in TheHttp!Requests : r = serving
    BY <1>1, ServingFacts
  <1>3. /\ step = "handling" /\ handled' = [handled EXCEPT ![r] = read]
        /\ \/ step' = "head" /\ silent' = silent
           \/ step' = "closing" /\ silent' = silent \cup {r}
        /\ UNCHANGED <<backlog, link, serving, read, late>>
        /\ UNCHANGED <<tries, inside, sent, got, status, answer>>
    BY <1>2 DEF TheHttp!Handle, TheHttp!client
  <1>4. /\ RequestInv(r) /\ link[r] \in Links /\ r # NoRequest
        /\ link[r].server = "open" /\ link = [link EXCEPT ![r] = link[r]]
        /\ read \in Nat /\ TheHttp!Parts(r) \in 1 .. 2
        /\ handled[r] \in Nat
        /\ backlog \in Seq(TheHttp!Requests) /\ IsInjective(backlog)
        /\ Open(r) => sent[r[1]] \in Nat /\ got[r[1]] \in Nat
    BY <1>1, <1>2, ServingFacts
  <1>5. handled'[r] = read
    BY <1>3 DEF HttpInv, HttpTypes
  <1>6. RequestInv(r)'
    <2>1. Open(r)' = Open(r) /\ Came(r)' = Came(r) /\ TheHttp!Current(r[1])' = TheHttp!Current(r[1])
          /\ TheHttp!Parts(r)' = TheHttp!Parts(r) /\ link'[r] = link[r]
      BY <1>3 DEF Open, Came, TheHttp!Current, TheHttp!Parts
    <2>2. Placed(r)'
      BY <1>3, <1>4, <2>1 DEF RequestInv, Placed
    <2>3. Arrived(r)'
      BY <1>3, <1>4, <2>1 DEF RequestInv, Arrived
    <2>4. HandledOnce(r)'
      <3>1. Open(r) => read <= sent[r[1]]
        BY <1>2, <1>4 DEF RequestInv, Arrived
      <3> QED
        BY <1>2, <1>3, <1>4, <1>5, <2>1, <3>1 DEF RequestInv, HandledOnce
    <2>5. AnswerComes(r)'
      BY <1>2, <1>3, <1>4, <2>1 DEF RequestInv, AnswerComes
    <2> QED
      BY <2>2, <2>3, <2>4, <2>5 DEF RequestInv
  <1>7. step' \in {"head", "closing"} /\ silent \subseteq silent'
    BY <1>3
  <1>8. handled[r] = 0 /\ read > 0 /\ (Open(r) \/ r \in late)
    BY <1>2, <1>3, <1>4 DEF RequestInv, HandledOnce, Arrived
  <1> QED
    BY <1>2, <1>3, <1>4, <1>6, <1>7, <1>8, ServingStep

LEMMA SendStep ==
  ASSUME HttpInv, TheHttp!Send
  PROVE  HttpInv'
  <1>1. serving # NoRequest
    BY DEF TheHttp!Send, HttpInv, HttpTypes
  <1>2. PICK r \in TheHttp!Requests : r = serving
    BY <1>1, ServingFacts
  <1>3. /\ step \in {"head", "body"}
        /\ step' = IF step = "head" THEN "body" ELSE "closing"
        /\ link' = [link EXCEPT ![r].down = IF Open(r) THEN @ + 1 ELSE 0]
        /\ UNCHANGED <<backlog, serving, read, handled, silent, late>>
        /\ UNCHANGED <<tries, inside, sent, got, status, answer>>
    BY <1>2 DEF TheHttp!Send, TheHttp!client, Open
  <1>4. /\ RequestInv(r) /\ link[r] \in Links /\ r # NoRequest /\ read \in Nat
        /\ handled[r] \in Nat /\ handled = [handled EXCEPT ![r] = handled[r]]
        /\ backlog \in Seq(TheHttp!Requests) /\ IsInjective(backlog)
        /\ Open(r) => sent[r[1]] \in Nat /\ got[r[1]] \in Nat
    BY <1>1, <1>2, ServingFacts
  <1> DEFINE k == [link[r] EXCEPT !.down = IF Open(r) THEN @ + 1 ELSE 0]
  <1>5. /\ k \in Links /\ k.client = link[r].client /\ k.server = link[r].server
        /\ k.up = link[r].up
        /\ Open(r) => k.down = link[r].down + 1
    BY <1>4
  <1>6. link' = [link EXCEPT ![r] = k]
    BY <1>3
  <1> HIDE DEF k
  <1>7. link'[r] = k
    BY <1>6 DEF HttpInv, HttpTypes
  <1>8. RequestInv(r)'
    <2>1. Open(r)' = Open(r) /\ TheHttp!Current(r[1])' = TheHttp!Current(r[1])
          /\ TheHttp!Parts(r)' = TheHttp!Parts(r)
      BY <1>3, <1>5, <1>7 DEF Open, TheHttp!Current, TheHttp!Parts
    <2>2. ASSUME Open(r) PROVE Came(r)' = Came(r) + 1
      <3>1. link[r].down \in Nat /\ got[r[1]] \in Nat
        BY <1>4, <2>2
      <3>2. Came(r)' = got[r[1]] + (link[r].down + 1) /\ Came(r) = got[r[1]] + link[r].down
        BY <1>3, <1>5, <1>7, <2>2 DEF Came
      <3> QED
        BY <3>1, <3>2
    <2>3. Placed(r)'
      BY <1>3, <1>4, <1>5, <1>7, <2>1 DEF RequestInv, Placed
    <2>4. Arrived(r)'
      BY <1>3, <1>4, <1>5, <1>7, <2>1 DEF RequestInv, Arrived
    <2>5. HandledOnce(r)'
      BY <1>2, <1>3, <1>4, <1>5, <1>7, <2>1 DEF RequestInv, HandledOnce
    <2>6. AnswerComes(r)'
      BY <1>2, <1>3, <1>4, <1>5, <1>7, <2>1, <2>2 DEF RequestInv, AnswerComes, HandledOnce, Placed
    <2> QED
      BY <2>3, <2>4, <2>5, <2>6 DEF RequestInv
  <1>9. step' \in {"body", "closing"}
    BY <1>3
  <1> QED
    BY <1>2, <1>3, <1>4, <1>5, <1>6, <1>8, <1>9, ServingStep

\* Hanging up with data unread resets the connection: the handler has then not
\* seen the request whole.
LEMMA HangupStep ==
  ASSUME HttpInv, TheHttp!Hangup
  PROVE  HttpInv'
  <1>1. serving # NoRequest
    BY DEF TheHttp!Hangup, HttpInv, HttpTypes
  <1>2. PICK r \in TheHttp!Requests : r = serving
    BY <1>1, ServingFacts
  <1>3. /\ step = "closing" /\ serving' = NoRequest /\ step' = "none" /\ read' = 0
        /\ UNCHANGED <<backlog, handled, silent, late>>
        /\ UNCHANGED <<tries, inside, sent, got, status, answer>>
    BY DEF TheHttp!Hangup, TheHttp!client
  <1>4. /\ RequestInv(r) /\ link[r] \in Links /\ r # NoRequest
        /\ read \in Nat /\ TheHttp!Parts(r) \in 1 .. 2 /\ link[r].server = "open"
        /\ handled[r] \in Nat /\ handled = [handled EXCEPT ![r] = handled[r]]
        /\ backlog \in Seq(TheHttp!Requests) /\ IsInjective(backlog) /\ r \notin ToSet(backlog)
        /\ Open(r) => sent[r[1]] \in Nat /\ got[r[1]] \in Nat
    BY <1>1, <1>2, ServingFacts
  <1>5. PICK n \in {link[r].down, 0} :
          /\ n # link[r].down => link[r].up > 0
          /\ link' = [link EXCEPT ![r].server = "closed", ![r].up = 0, ![r].down = n]
    <2>1. CASE link[r].up > 0
      BY <1>2, <2>1 DEF TheHttp!Hangup, TheHttp!MayDrop
    <2>2. CASE ~ (link[r].up > 0)
      BY <1>2, <2>2 DEF TheHttp!Hangup
    <2> QED
      BY <2>1, <2>2
  <1> DEFINE k == [[[link[r] EXCEPT !.server = "closed"] EXCEPT !.up = 0] EXCEPT !.down = n]
  <1>6. /\ k \in Links /\ k.client = link[r].client /\ k.server = "closed"
        /\ k.up = 0 /\ k.down = n /\ n \in Nat
    <2>1. n \in Nat
      BY <1>4
    <2> QED
      BY <1>4, <2>1
  <1>7. link' = [link EXCEPT ![r] = k]
    <2>1. link \in [TheHttp!Requests -> Links]
      BY DEF HttpInv, HttpTypes
    <2> DEFINE f == [link EXCEPT ![r] = [link[r] EXCEPT !.server = "closed"]]
               g == [f EXCEPT ![r] = [f[r] EXCEPT !.up = 0]]
    <2>2. link' = [g EXCEPT ![r] = [g[r] EXCEPT !.down = n]]
      BY <1>5
    <2>3. f[r] = [link[r] EXCEPT !.server = "closed"] /\ r \in DOMAIN f
      BY <2>1
    <2>4. g = [f EXCEPT ![r] = [[link[r] EXCEPT !.server = "closed"] EXCEPT !.up = 0]]
      BY <2>3
    <2> HIDE DEF f
    <2>5. g[r] = [[link[r] EXCEPT !.server = "closed"] EXCEPT !.up = 0]
      BY <2>3, <2>4
    <2> HIDE DEF g
    <2>6. link' = [g EXCEPT ![r] = k]
      BY <2>2, <2>5
    <2>7. link' = [f EXCEPT ![r] = k]
      BY <2>4, <2>6
    <2> QED
      BY <2>7 DEF f
  <1> HIDE DEF k
  <1>8. link'[r] = k
    BY <1>7 DEF HttpInv, HttpTypes
  <1>9. RequestInv(r)'
    <2>1. Open(r)' = Open(r) /\ TheHttp!Current(r[1])' = TheHttp!Current(r[1])
          /\ TheHttp!Parts(r)' = TheHttp!Parts(r)
      BY <1>3, <1>6, <1>8 DEF Open, TheHttp!Current, TheHttp!Parts
    <2>2. Placed(r)'
      BY <1>3, <1>4, <1>6, <1>8, <2>1 DEF RequestInv, Placed
    <2>3. Arrived(r)'
      BY <1>3, <1>4, <1>6, <1>8, <2>1 DEF Arrived
    <2>4. HandledOnce(r)'
      BY <1>3, <1>4, <1>6, <1>8, <2>1 DEF RequestInv, HandledOnce
    <2>5. AnswerComes(r)'
      <3>1. CASE n = link[r].down
        <4>1. Came(r)' = Came(r)
          BY <1>3, <1>6, <1>8, <3>1 DEF Came
        <4> QED
          BY <1>2, <1>3, <1>4, <1>6, <1>8, <2>1, <4>1 DEF RequestInv, AnswerComes
      <3>2. CASE n # link[r].down
        <4> SUFFICES ASSUME Open(r) PROVE AnswerComes(r)'
          BY <2>1 DEF AnswerComes
        <4>1. Came(r)' \in Nat /\ Came(r) \in Nat /\ Came(r)' <= Came(r)
          BY <1>3, <1>4, <1>5, <1>6, <1>8 DEF Came
        <4>2. read < TheHttp!Parts(r)
          BY <1>2, <1>4, <1>5, <3>2 DEF RequestInv, Arrived
        <4>3. handled[r] > 0 => r \in late
          BY <1>2, <1>3, <1>4, <4>2 DEF RequestInv, HandledOnce
        <4>4. \/ Came(r) = 0 /\ (handled[r] = 0 \/ r \in silent)
              \/ Came(r) = 2 /\ handled[r] > 0
          <5>1. AnswerComes(r)
            BY <1>4 DEF RequestInv
          <5> QED
            BY <1>2, <1>3, <5>1 DEF AnswerComes
        <4>5. Came(r) = 0 => Came(r)' = 0
          BY <4>1
        <4>6. Came(r) = 2 => Came(r)' \in 0 .. 2
          BY <4>1
        <4> QED
          BY <1>3, <1>4, <1>6, <1>8, <2>1, <4>3, <4>4, <4>5, <4>6 DEF AnswerComes
      <3> QED
        BY <3>1, <3>2
    <2> QED
      BY <2>2, <2>3, <2>4, <2>5 DEF RequestInv
  <1> QED
    BY <1>2, <1>3, <1>4, <1>6, <1>7, <1>9, ServingStep

LEMMA ConnectStep ==
  ASSUME HttpInv, NEW c \in Clients, TheHttp!Connect(c)
  PROVE  HttpInv'
  <1>1. PICK r \in TheHttp!Requests :
          r = <<c, tries[c] + 1>> /\ r[1] = c /\ r[2] = tries[c] + 1 /\ r # NoRequest
    <2>1. tries[c] + 1 \in 1 .. Turns[c]
      <3>1. tries[c] \in Nat /\ Turns[c] \in Nat
        BY PartsAssumption DEF HttpInv, HttpTypes
      <3>2. tries[c] < Turns[c]
        BY DEF TheHttp!Connect
      <3> QED
        BY <3>1, <3>2
    <2> QED
      BY <2>1, RequestFacts
  <1>2. /\ inside[c] = "idle" /\ tries[c] < Turns[c]
        /\ tries' = [tries EXCEPT ![c] = @ + 1]
        /\ UNCHANGED <<serving, step, read, handled, silent, late, sent, got>>
    BY DEF TheHttp!Connect
  <1>3. HttpTypes /\ ClientInv(c) /\ RequestInv(r) /\ tries[c] \in Nat /\ Turns[c] \in Nat
    BY <1>1, PartsAssumption DEF HttpInv, HttpTypes
  <1>4. /\ tries'[c] = tries[c] + 1 /\ tries' \in [Clients -> Nat]
        /\ \A d \in Clients : d # c => tries'[d] = tries[d]
        /\ tries'[c] > tries[c] /\ tries'[c] <= Turns[c] /\ tries'[c] > 0
    BY <1>2, <1>3 DEF HttpTypes
  <1>5. r = TheHttp!Current(c)'
    BY <1>1, <1>4 DEF TheHttp!Current
  <1>6. /\ link[r].server = "none" /\ link[r].client = "none" /\ handled[r] = 0
        /\ r \notin ToSet(backlog) /\ r # serving /\ sent[c] = 0 /\ got[c] = 0
    <2>1. link[r].server = "none"
      BY <1>1, <1>3, <1>4 DEF RequestInv, Placed
    <2> QED
      BY <1>2, <1>3, <2>1 DEF RequestInv, Placed, HandledOnce, ClientInv
  <1>7. PICK b \in {answer[c], TheHttp!NoBody} : answer' = [answer EXCEPT ![c] = b]
    BY DEF TheHttp!Connect
  <1>8. /\ answer' \in [Clients -> [of : TheHttp!Requests \cup {NoRequest}, parts : Nat]]
        /\ \A d \in Clients : d # c => answer'[d] = answer[d]
    <2>1. b \in [of : TheHttp!Requests \cup {NoRequest}, parts : Nat]
      BY <1>3, <1>7 DEF HttpTypes, TheHttp!NoBody
    <2> QED
      BY <1>3, <1>7, <2>1 DEF HttpTypes
  <1>9. \A s \in TheHttp!Requests : s[1] = c => ~ Open(s)
    BY <1>2 DEF HttpInv, RequestInv, Placed
  <1>10. TheHttp!Requests' = TheHttp!Requests
    BY DEF TheHttp!Requests
  <1>11. ASSUME NEW d \in Clients, d # c, UNCHANGED <<inside[d], status[d]>>,
                inside[d] # "idle" => link'[TheHttp!Current(d)] = link[TheHttp!Current(d)]
         PROVE  ClientInv(d)' /\ Truthful(d)'
    <2>1. ClientInv(d) /\ Truthful(d) /\ answer'[d] = answer[d] /\ tries'[d] = tries[d]
      BY <1>4, <1>8, <1>11 DEF HttpInv
    <2>2. TheHttp!Current(d)' = TheHttp!Current(d)
      BY <2>1 DEF TheHttp!Current
    <2>3. ClientInv(d)'
      BY <1>2, <1>11, <2>1, <2>2 DEF ClientInv, Open, TheHttp!Parts
    <2>4. Truthful(d)'
      BY <1>2, <1>11, <2>1, <2>2 DEF Truthful, TheHttp!Answered, TheHttp!NoBody
    <2> QED
      BY <2>3, <2>4
  <1>12. ASSUME NEW s \in TheHttp!Requests, link'[s] = link[s],
                s \in ToSet(backlog) <=> s \in ToSet(backlog'),
                \A d \in Clients : d # c => inside'[d] = inside[d]
         PROVE  RequestInv(s)'
    <2>1. RequestInv(s) /\ Open(s)' = Open(s) /\ Came(s)' = Came(s)
          /\ s[1] \in Clients /\ s[2] \in Nat /\ TheHttp!Parts(s)' = TheHttp!Parts(s)
      BY <1>2, <1>12, RequestFacts, PartsAssumption DEF HttpInv, Open, Came, TheHttp!Parts
    <2>2. Open(s) => s[1] # c
      BY <1>9
    <2>3. Open(s) => /\ inside'[s[1]] = inside[s[1]]
                     /\ TheHttp!Current(s[1])' = TheHttp!Current(s[1])
      BY <1>4, <1>12, <2>1, <2>2 DEF TheHttp!Current
    <2>4. s[2] > tries'[s[1]] => s[2] > tries[s[1]]
      <3>1. CASE s[1] = c
        BY <1>3, <1>4, <2>1, <3>1
      <3>2. CASE s[1] # c
        BY <1>4, <2>1, <3>2
      <3> QED
        BY <3>1, <3>2
    <2>5. Placed(s)'
      BY <1>2, <1>12, <2>1, <2>3, <2>4 DEF RequestInv, Placed, ToSet
    <2>6. Arrived(s)'
      BY <1>2, <1>12, <2>1 DEF RequestInv, Arrived
    <2>7. HandledOnce(s)'
      BY <1>2, <1>12, <2>1 DEF RequestInv, HandledOnce
    <2>8. AnswerComes(s)'
      BY <1>2, <1>12, <2>1 DEF RequestInv, AnswerComes
    <2> QED
      BY <2>5, <2>6, <2>7, <2>8 DEF RequestInv
  <1>13. CASE /\ link' = [link EXCEPT ![r] = [TheHttp!Unused EXCEPT !.client = "open",
                                                                   !.server = "queued"]]
              /\ backlog' = Append(backlog, r)
              /\ inside' = [inside EXCEPT ![c] = "writing"]
              /\ UNCHANGED status
    <2>1. /\ link'[r] \in Links /\ link'[r].client = "open" /\ link'[r].server = "queued"
          /\ link'[r].up = 0 /\ link'[r].down = 0
          /\ link' \in [TheHttp!Requests -> Links]
          /\ \A s \in TheHttp!Requests : s # r => link'[s] = link[s]
      <3> DEFINE k == [TheHttp!Unused EXCEPT !.client = "open", !.server = "queued"]
      <3>1. /\ k \in Links /\ k.client = "open" /\ k.server = "queued"
            /\ k.up = 0 /\ k.down = 0
        BY DEF TheHttp!Unused
      <3>2. link' = [link EXCEPT ![r] = k] /\ link \in [TheHttp!Requests -> Links]
        BY <1>3, <1>13 DEF HttpTypes
      <3> HIDE DEF k, Links
      <3>3. /\ link' \in [TheHttp!Requests -> Links] /\ link'[r] = k
            /\ \A s \in TheHttp!Requests : s # r => link'[s] = link[s]
        BY <3>1, <3>2
      <3> QED
        BY <3>1, <3>3
    <2>2. /\ backlog' \in Seq(TheHttp!Requests) /\ IsInjective(backlog')
          /\ ToSet(backlog') = ToSet(backlog) \cup {r}
      BY <1>3, <1>6, <1>13, AppendedSet, AppendProperties DEF HttpTypes
    <2>3. /\ inside'[c] = "writing" /\ \A d \in Clients : d # c => inside'[d] = inside[d]
          /\ inside' \in [Clients -> {"idle", "writing", "reading"}]
      BY <1>3, <1>13 DEF HttpTypes
    <2>4. HttpTypes'
      BY <1>2, <1>3, <1>4, <1>8, <1>10, <1>13, <2>1, <2>2, <2>3 DEF HttpTypes
    <2>5. ClientInv(c)' /\ Truthful(c)'
      <3>1. Open(r)' /\ sent'[c] = 0 /\ sent'[c] < TheHttp!Parts(r)'
        BY <1>2, <1>6, <2>1 DEF Open, TheHttp!Parts
      <3>2. ClientInv(c)'
        BY <1>4, <1>5, <2>3, <3>1 DEF ClientInv
      <3>3. Truthful(c)'
        BY <2>3 DEF Truthful, TheHttp!Answered
      <3> QED
        BY <3>2, <3>3
    <2>6. ASSUME NEW d \in Clients, d # c PROVE ClientInv(d)' /\ Truthful(d)'
      <3>1. inside[d] # "idle" => link'[TheHttp!Current(d)] = link[TheHttp!Current(d)]
        <4> SUFFICES ASSUME inside[d] # "idle"
                     PROVE  link'[TheHttp!Current(d)] = link[TheHttp!Current(d)]
          OBVIOUS
        <4>1. PICK s \in TheHttp!Requests : s = TheHttp!Current(d) /\ s[1] = d
          BY CurrentFacts
        <4> QED
          BY <1>1, <2>1, <2>6, <4>1
      <3> QED
        BY <1>11, <1>13, <2>3, <2>6, <3>1
    <2>7. RequestInv(r)'
      <3>1. Open(r)' /\ Came(r)' = 0
        BY <1>1, <1>2, <1>6, <2>1 DEF Open, Came
      <3>2. Placed(r)'
        BY <1>1, <1>2, <1>3, <1>4, <1>5, <1>6, <2>1, <2>2, <2>3 DEF Placed
      <3>3. Arrived(r)'
        BY <1>1, <1>2, <1>6, <2>1, <3>1 DEF Arrived, TheHttp!Parts
      <3>4. HandledOnce(r)'
        BY <1>1, <1>2, <1>6, <2>1 DEF HandledOnce
      <3>5. AnswerComes(r)'
        BY <1>1, <1>2, <1>6, <2>1, <3>1 DEF AnswerComes
      <3> QED
        BY <3>2, <3>3, <3>4, <3>5 DEF RequestInv
    <2>8. ASSUME NEW s \in TheHttp!Requests, s # r PROVE RequestInv(s)'
      BY <1>12, <2>1, <2>2, <2>3, <2>8
    <2> QED
      BY <1>10, <2>4, <2>5, <2>6, <2>7, <2>8 DEF HttpInv
  <1>14. CASE /\ status' = [status EXCEPT ![c] = 0]
              /\ UNCHANGED <<link, backlog, inside>>
    <2>1. HttpTypes'
      BY <1>2, <1>3, <1>4, <1>8, <1>10, <1>14 DEF HttpTypes
    <2>2. ClientInv(c)'
      BY <1>2, <1>4, <1>6, <1>14 DEF ClientInv
    <2>3. Truthful(c)'
      <3>1. status'[c] = 0 /\ handled'[r] = 0
        BY <1>2, <1>3, <1>6, <1>14 DEF HttpTypes
      <3> QED
        BY <1>5, <3>1 DEF Truthful
    <2>4. ASSUME NEW d \in Clients, d # c PROVE ClientInv(d)' /\ Truthful(d)'
      <3>1. status'[d] = status[d]
        BY <1>3, <1>14, <2>4 DEF HttpTypes
      <3> QED
        BY <1>11, <1>14, <2>4, <3>1
    <2>5. ASSUME NEW s \in TheHttp!Requests PROVE RequestInv(s)'
      BY <1>12, <1>14 DEF ToSet
    <2> QED
      BY <1>10, <2>1, <2>2, <2>3, <2>4, <2>5 DEF HttpInv
  <1> QED
    BY <1>1, <1>13, <1>14 DEF TheHttp!Connect

LEMMA HttpStepKeeps ==
  ASSUME HttpInv, TheHttp!Next
  PROVE  HttpInv'
  <1>1. ASSUME NEW c \in Clients, TheHttp!InRequest(c) PROVE HttpInv'
    BY <1>1, WriteStep, WriteFailsStep, ReadStep, ReadEndsStep DEF TheHttp!InRequest
  <1>2. CASE TheHttp!InHandleClient
    BY <1>2, ReceiveStep, ReceiveEndsStep, HandleStep, SendStep, HangupStep
       DEF TheHttp!InHandleClient
  <1>3. CASE TheHttp!Begin
    <2>1. /\ UNCHANGED <<backlog, link, serving, step, read, handled, silent, late>>
          /\ UNCHANGED <<tries, inside, sent, got, status, answer>>
      BY <1>3 DEF TheHttp!Begin, TheHttp!client
    <2> QED
      BY <2>1, BeginStep
  <1> QED
    BY <1>1, <1>2, <1>3, ConnectStep, CloseStep, AcceptStep DEF TheHttp!Next

LEMMA HttpInvIsEnough == HttpInv => WholeUnlessLate
  <1> SUFFICES ASSUME HttpInv PROVE WholeUnlessLate
    OBVIOUS
  <1>1. ASSUME NEW c \in Clients PROVE Truthful(c)
    BY DEF HttpInv
  <1>2. ASSUME NEW r \in TheHttp!Requests, handled[r] > 0
        PROVE  handled[r] = TheHttp!Parts(r) \/ r \in late
    BY <1>2 DEF HttpInv, RequestInv, HandledOnce
  <1> QED
    BY <1>1, <1>2 DEF WholeUnlessLate, TheHttp!WholeUnlessLate, Truthful

HIDE DEF Links

-----------------------------------------------------------------------------
(***************************************************************************)
(* The MQTT client, for any threads, topics and handlers.                  *)
(***************************************************************************)
MqttFrames == [call : TheMqtt!Calls \cup TheMqtt!Broker, at : {"lock", "handler", "handled"}]

\* The calls of a stack that are past the lock: they are inside the mutex.
Inside(s) == {i \in DOMAIN s : s[i].call \in TheMqtt!Calls /\ s[i].at # "lock"}

\* Only the innermost call may wait or be about to call the handler, and the
\* broker takes no lock.
Stacked(s) == \A i \in DOMAIN s : /\ i # 1 => s[i].at = "handled"
                                  /\ s[i].call \in TheMqtt!Broker => s[i].at # "lock"

OnceInside(s) == \A i, j \in Inside(s) : i = j

\* The mutex is held by the thread that has a call inside, which has one only.
MqttInv ==
  /\ stack \in [Publishers -> Seq(MqttFrames)]
  /\ \A t \in Publishers : /\ Stacked(stack[t]) /\ OnceInside(stack[t])
                           /\ holder = t <=> Inside(stack[t]) # {}

\* What a handler interrupts that calls on messages only is a message.
UnderBroker(s) == \A i \in DOMAIN s : i # 1 => s[i].call \in TheMqtt!Broker

LEMMA CallsAreNotBroker == \A made \in TheMqtt!Broker : made \notin TheMqtt!Calls
  BY DEF TheMqtt!Broker, TheMqtt!Calls

\* An element in front of a list.
LEMMA Pushed ==
  ASSUME NEW S, NEW s \in Seq(S), NEW f \in S
  PROVE  /\ <<f>> \o s \in Seq(S) /\ DOMAIN s = 1 .. Len(s) /\ Len(s) \in Nat
         /\ DOMAIN (<<f>> \o s) = 1 .. Len(s) + 1 /\ (<<f>> \o s)[1] = f
         /\ \A i \in 1 .. Len(s) : (<<f>> \o s)[i + 1] = s[i]
         /\ \A i \in 1 .. Len(s) + 1 : i # 1 => i - 1 \in 1 .. Len(s) /\ (<<f>> \o s)[i] = s[i - 1]
  <1> DEFINE one == <<f>>
             r == one \o s
             n == Len(s)
  <1>1. one \in Seq(S) /\ Len(one) = 1 /\ one[1] = f
    <2>1. one \in Seq(S)
      OBVIOUS
    <2>2. Len(one) = 1 /\ one[1] = f
      OBVIOUS
    <2> QED
      BY <2>1, <2>2
  <1> HIDE DEF one
  <1>2. n \in Nat /\ DOMAIN s = 1 .. n
    BY LenProperties
  <1>3. /\ r \in Seq(S) /\ Len(r) = 1 + n
        /\ \A i \in 1 .. 1 + n : r[i] = IF i <= 1 THEN one[i] ELSE s[i - 1]
    <2>1. /\ r \in Seq(S) /\ Len(r) = Len(one) + n
          /\ \A i \in 1 .. Len(one) + n :
               r[i] = IF i <= Len(one) THEN one[i] ELSE s[i - Len(one)]
      BY <1>1, ConcatProperties
    <2> HIDE DEF r, n
    <2> QED
      BY <1>1, <2>1
  <1> HIDE DEF r, n
  <1>4. DOMAIN r = 1 .. n + 1
    BY <1>2, <1>3, LenProperties
  <1>5. r[1] = f
    BY <1>1, <1>2, <1>3
  <1>6. ASSUME NEW i \in 1 .. n PROVE r[i + 1] = s[i]
    BY <1>2, <1>3
  <1>7. ASSUME NEW i \in 1 .. n + 1, i # 1 PROVE i - 1 \in 1 .. n /\ r[i] = s[i - 1]
    BY <1>2, <1>3, <1>7
  <1> QED
    BY <1>2, <1>3, <1>4, <1>5, <1>6, <1>7 DEF one, r, n

\* The rest of a list.
LEMMA Popped ==
  ASSUME NEW S, NEW s \in Seq(S), s # << >>
  PROVE  /\ Tail(s) \in Seq(S) /\ 1 \in DOMAIN s /\ s[1] \in S
         /\ \A i \in DOMAIN s : i # 1 => i - 1 \in DOMAIN Tail(s) /\ s[i] = Tail(s)[i - 1]
         /\ \A i \in DOMAIN Tail(s) : i + 1 # 1 /\ i + 1 \in DOMAIN s /\ Tail(s)[i] = s[i + 1]
  <1> DEFINE n == Len(s)
             r == Tail(s)
  <1>1. n \in Nat \ {0} /\ DOMAIN s = 1 .. n /\ s \in [1 .. n -> S]
    BY LenProperties, EmptySeq
  <1>2. r \in Seq(S) /\ Len(r) = n - 1 /\ \A i \in 1 .. Len(r) : r[i] = s[i + 1]
    BY HeadTailProperties
  <1> HIDE DEF n, r
  <1>3. DOMAIN r = 1 .. n - 1
    BY <1>2, LenProperties
  <1>4. 1 \in DOMAIN s /\ s[1] \in S
    BY <1>1
  <1>5. ASSUME NEW i \in DOMAIN r PROVE i + 1 # 1 /\ i + 1 \in DOMAIN s /\ r[i] = s[i + 1]
    BY <1>1, <1>2, <1>3
  <1>6. ASSUME NEW i \in DOMAIN s, i # 1 PROVE i - 1 \in DOMAIN r /\ s[i] = r[i - 1]
    <2>1. i - 1 \in 1 .. n - 1 /\ (i - 1) + 1 = i
      BY <1>1, <1>6
    <2> QED
      BY <1>2, <1>3, <2>1
  <1> QED
    BY <1>2, <1>4, <1>5, <1>6 DEF r

\* A list with another element in front.
LEMMA Replaced ==
  ASSUME NEW S, NEW s \in Seq(S), s # << >>, NEW f \in S
  PROVE  /\ <<f>> \o Tail(s) \in Seq(S) /\ DOMAIN (<<f>> \o Tail(s)) = DOMAIN s
         /\ 1 \in DOMAIN s /\ (<<f>> \o Tail(s))[1] = f
         /\ \A i \in DOMAIN s : i # 1 => (<<f>> \o Tail(s))[i] = s[i]
         /\ [s EXCEPT ![1] = f] = <<f>> \o Tail(s)
  <1> DEFINE r == <<f>> \o Tail(s)
             x == [s EXCEPT ![1] = f]
             n == Len(s)
  <1>1. n \in Nat \ {0} /\ DOMAIN s = 1 .. n
    BY LenProperties, EmptySeq
  <1>2. Tail(s) \in Seq(S) /\ Len(Tail(s)) = n - 1
    BY HeadTailProperties
  <1>3. /\ r \in Seq(S) /\ DOMAIN r = 1 .. (n - 1) + 1 /\ r[1] = f
        /\ \A i \in 1 .. (n - 1) + 1 : i # 1 => r[i] = Tail(s)[i - 1]
    BY <1>2, Pushed
  <1>4. (n - 1) + 1 = n /\ 1 \in 1 .. n
    BY <1>1
  <1>5. \A i \in DOMAIN s : i # 1 => s[i] = Tail(s)[i - 1]
    BY Popped
  <1>6. /\ x \in Seq(S) /\ Len(x) = n
        /\ \A i \in 1 .. n : x[i] = IF i = 1 THEN f ELSE s[i]
    BY <1>4, ExceptSeq
  <1> HIDE DEF r, x, n
  <1>7. Len(r) = n
    BY <1>1, <1>3, <1>4, LenProperties
  <1>8. \A i \in 1 .. n : i # 1 => r[i] = s[i]
    BY <1>1, <1>3, <1>4, <1>5
  <1>9. \A i \in 1 .. n : x[i] = r[i]
    BY <1>3, <1>6, <1>8
  <1>10. x = r
    BY <1>3, <1>6, <1>7, <1>9, SeqEqual
  <1> QED
    BY <1>1, <1>3, <1>4, <1>8, <1>10 DEF r, x

\* What a step has to show of the stack of the thread that moves.
LEMMA MqttMove ==
  ASSUME MqttInv, NEW t \in Publishers, NEW s \in Seq(MqttFrames),
         stack' = [stack EXCEPT ![t] = s], Stacked(s), OnceInside(s),
         holder' = t <=> Inside(s) # {},
         \A u \in Publishers : u # t => (holder' = u <=> holder = u)
  PROVE  MqttInv'
  <1>1. /\ stack' \in [Publishers -> Seq(MqttFrames)] /\ stack'[t] = s
        /\ \A u \in Publishers : u # t => stack'[u] = stack[u]
    BY DEF MqttInv
  <1>2. ASSUME NEW u \in Publishers
        PROVE  /\ Stacked(stack'[u]) /\ OnceInside(stack'[u])
               /\ holder' = u <=> Inside(stack'[u]) # {}
    BY <1>1 DEF MqttInv
  <1> QED
    BY <1>1, <1>2 DEF MqttInv, Stacked, OnceInside, Inside, MqttFrames

LEMMA EventsOfCalls ==
  \A made \in TheMqtt!Calls \cup TheMqtt!Broker :
    /\ TheMqtt!EventOf(made) \in TheMqtt!Events
    /\ TheMqtt!EventOf(made) = "DATA" => made \in TheMqtt!Broker
  <1> SUFFICES ASSUME NEW made \in TheMqtt!Calls \cup TheMqtt!Broker
               PROVE  /\ TheMqtt!EventOf(made) \in TheMqtt!Events
                      /\ TheMqtt!EventOf(made) = "DATA" => made \in TheMqtt!Broker
    OBVIOUS
  <1>1. ASSUME made \in TheMqtt!Broker
        PROVE  made.op \in {"disconnect", "reconnect", "message"}
    BY <1>1 DEF TheMqtt!Broker
  <1>2. ASSUME made \in TheMqtt!Calls
        PROVE  made.op \in {"start", "stop", "subscribe", "unsubscribe", "publish"}
    BY <1>2 DEF TheMqtt!Calls
  <1>3. ASSUME made.op \in {"disconnect", "reconnect", "message"}
        PROVE  TheMqtt!EventOf(made) \in TheMqtt!Events
    BY <1>3 DEF TheMqtt!EventOf, TheMqtt!Events
  <1>4. ASSUME made.op \in {"start", "stop", "subscribe", "unsubscribe", "publish"}
        PROVE  TheMqtt!EventOf(made) \in TheMqtt!Events \ {"DATA"}
    BY <1>4 DEF TheMqtt!EventOf, TheMqtt!Events
  <1> QED
    BY <1>1, <1>2, <1>3, <1>4

LEMMA MqttStarts == TheMqtt!Init => MqttInv
  <1>1. << >> \in Seq(MqttFrames) /\ Inside(<< >>) = {} /\ Stacked(<< >>) /\ OnceInside(<< >>)
    BY EmptySeq DEF Inside, Stacked, OnceInside
  <1> QED
    BY <1>1, PartsAssumption DEF TheMqtt!Init, MqttInv

\* A call that begins waits for the mutex; the broker comes without it.
LEMMA BeginsOutside ==
  ASSUME MqttInv, NEW t \in Publishers, stack[t] = << >>, NEW f \in MqttFrames,
         f.at \in {"lock", "handler"}, f.at = "lock" <=> f.call \in TheMqtt!Calls,
         TheMqtt!Push(t, f), holder' = holder
  PROVE  MqttInv'
  <1> DEFINE s == <<f>> \o << >>
  <1>1. << >> \in Seq(MqttFrames) /\ Len(<< >>) = 0
    BY EmptySeq
  <1>2. s \in Seq(MqttFrames) /\ DOMAIN s = {1} /\ s[1] = f
    <2>1. s \in Seq(MqttFrames) /\ DOMAIN s = 1 .. 0 + 1 /\ s[1] = f
      BY <1>1, Pushed
    <2>2. 1 .. 0 + 1 = {1}
      OBVIOUS
    <2> QED
      BY <2>1, <2>2
  <1>3. stack' = [stack EXCEPT ![t] = s]
    BY DEF TheMqtt!Push
  <1> HIDE DEF s
  <1>4. Inside(s) = {}
    BY <1>2, CallsAreNotBroker DEF Inside
  <1>5. Stacked(s) /\ OnceInside(s)
    BY <1>2, <1>4, CallsAreNotBroker DEF Stacked, OnceInside
  <1>6. Inside(stack[t]) = {}
    BY DEF Inside
  <1> QED
    BY <1>2, <1>3, <1>4, <1>5, <1>6, MqttMove DEF MqttInv

LEMMA EnterKeeps ==
  ASSUME MqttInv, NEW t \in Publishers, TheMqtt!Enter(t)
  PROVE  MqttInv'
  <1> DEFINE s == stack[t]
  <1>1. /\ s \in Seq(MqttFrames) /\ s # << >> /\ s[1].at = "lock"
        /\ holder = Nobody /\ holder' = t
    BY DEF TheMqtt!Enter, TheMqtt!Top, MqttInv
  <1>2. /\ \A u \in Publishers : Inside(stack[u]) = {} /\ holder # u
    BY <1>1, PartsAssumption DEF MqttInv
  <1>3. PICK at \in {"handler", "handled"} : TheMqtt!Goto(t, at)
    BY DEF TheMqtt!Enter
  <1> DEFINE f == [s[1] EXCEPT !.at = at]
             r == <<f>> \o Tail(s)
  <1>4. s[1] \in MqttFrames /\ 1 \in DOMAIN s /\ Stacked(s)
    BY <1>1, Popped DEF MqttInv
  <1>5. s[1].call \in TheMqtt!Calls
    BY <1>1, <1>4 DEF Stacked, MqttFrames
  <1>6. f \in MqttFrames /\ f.at = at /\ f.call = s[1].call
    BY <1>4 DEF MqttFrames
  <1>7. stack' = [stack EXCEPT ![t] = [s EXCEPT ![1] = f]]
    BY <1>3 DEF TheMqtt!Goto
  <1> HIDE DEF f
  <1>8. /\ r \in Seq(MqttFrames) /\ DOMAIN r = DOMAIN s /\ 1 \in DOMAIN s /\ r[1] = f
        /\ \A i \in DOMAIN s : i # 1 => r[i] = s[i]
        /\ [s EXCEPT ![1] = f] = r
    BY <1>1, <1>6, Replaced
  <1>9. stack' = [stack EXCEPT ![t] = r]
    BY <1>7, <1>8
  <1> HIDE DEF s, r
  <1>10. Inside(s) = {}
    BY <1>2 DEF s
  <1>11. Inside(r) = {1}
    BY <1>5, <1>6, <1>8, <1>10 DEF Inside
  <1>12. Stacked(r)
    BY <1>4, <1>6, <1>8 DEF Stacked
  <1>13. OnceInside(r)
    BY <1>11 DEF OnceInside
  <1> QED
    BY <1>1, <1>2, <1>8, <1>9, <1>11, <1>12, <1>13, MqttMove

\* The handler returns, or makes a call that waits for the mutex.
LEMMA HandlerKeeps ==
  ASSUME MqttInv, NEW t \in Publishers, TheMqtt!Handler(t)
  PROVE  MqttInv'
  <1> DEFINE s == stack[t]
             f == [s[1] EXCEPT !.at = "handled"]
             r == <<f>> \o Tail(s)
             made == MqttHandler[TheMqtt!EventOf(s[1].call)]
             g == TheMqtt!Frame(made, "lock")
  <1>1. /\ s \in Seq(MqttFrames) /\ s # << >> /\ s[1].at = "handler" /\ holder' = holder
        /\ stack' = [stack EXCEPT ![t] = IF made = NoHandlerCall THEN r ELSE <<g>> \o r]
    BY DEF TheMqtt!Handler, TheMqtt!Top, MqttInv
  <1>2. s[1] \in MqttFrames /\ 1 \in DOMAIN s /\ Stacked(s) /\ OnceInside(s)
    BY <1>1, Popped DEF MqttInv
  <1>3. f \in MqttFrames /\ f.at = "handled" /\ f.call = s[1].call
    BY <1>2 DEF MqttFrames
  <1>4. made \in TheMqtt!Calls \cup {NoHandlerCall}
    <2>1. s[1].call \in TheMqtt!Calls \cup TheMqtt!Broker
      BY <1>2 DEF MqttFrames
    <2>2. TheMqtt!EventOf(s[1].call) \in TheMqtt!Events
      BY <2>1, EventsOfCalls
    <2> QED
      BY <2>2, PartsAssumption
  <1>5. g \in [call : {made}, at : {"lock"}]
    BY DEF TheMqtt!Frame
  <1> HIDE DEF f, g, made
  <1>6. /\ r \in Seq(MqttFrames) /\ DOMAIN r = DOMAIN s /\ 1 \in DOMAIN s /\ r[1] = f
        /\ \A i \in DOMAIN s : i # 1 => r[i] = s[i]
    BY <1>1, <1>3, Replaced
  <1> HIDE DEF r, s
  <1>7. Inside(r) = Inside(s)
    BY <1>1, <1>2, <1>3, <1>6 DEF Inside
  <1>8. Stacked(r) /\ \A i \in DOMAIN r : r[i].at = "handled"
    BY <1>2, <1>3, <1>6 DEF Stacked
  <1>9. OnceInside(r)
    BY <1>2, <1>7 DEF OnceInside
  <1>10. holder = t <=> Inside(s) # {}
    BY DEF MqttInv, s
  <1>11. CASE made = NoHandlerCall
    BY <1>1, <1>6, <1>7, <1>8, <1>9, <1>10, <1>11, MqttMove
  <1>12. CASE made # NoHandlerCall
    <2> DEFINE p == <<g>> \o r
    <2>1. g \in MqttFrames /\ g.at = "lock" /\ g.call \in TheMqtt!Calls
      BY <1>4, <1>5, <1>12 DEF MqttFrames
    <2>2. /\ p \in Seq(MqttFrames) /\ DOMAIN r = 1 .. Len(r) /\ Len(r) \in Nat
          /\ DOMAIN p = 1 .. Len(r) + 1 /\ p[1] = g
          /\ \A i \in 1 .. Len(r) : p[i + 1] = r[i]
          /\ \A i \in 1 .. Len(r) + 1 : i # 1 => i - 1 \in 1 .. Len(r) /\ p[i] = r[i - 1]
      BY <1>6, <2>1, Pushed
    <2> HIDE DEF p
    <2>3. Stacked(p)
      <3>1. g.call \notin TheMqtt!Broker
        BY <2>1, CallsAreNotBroker
      <3>2. \A i \in DOMAIN p : i # 1 => p[i].at = "handled"
        BY <1>8, <2>2
      <3> QED
        BY <2>2, <3>1, <3>2 DEF Stacked
    <2>4. \A i \in Inside(p) : i - 1 \in Inside(r) /\ i \in Int
      BY <2>1, <2>2 DEF Inside
    <2>5. \A i \in Inside(r) : i + 1 \in Inside(p)
      BY <2>2 DEF Inside
    <2>6. OnceInside(p)
      <3> SUFFICES ASSUME NEW i \in Inside(p), NEW j \in Inside(p) PROVE i = j
        BY DEF OnceInside
      <3>1. i - 1 = j - 1 /\ i \in Int /\ j \in Int
        BY <1>9, <2>4 DEF OnceInside
      <3> QED
        BY <3>1
    <2>7. Inside(p) # {} <=> Inside(r) # {}
      BY <2>4, <2>5
    <2>8. stack' = [stack EXCEPT ![t] = p]
      BY <1>1, <1>12 DEF p
    <2> QED
      BY <1>1, <1>7, <1>10, <2>2, <2>3, <2>6, <2>7, <2>8, MqttMove
  <1> QED
    BY <1>11, <1>12

\* A call that returns releases the mutex, the broker's does not hold it.
LEMMA ReturnKeeps ==
  ASSUME MqttInv, NEW t \in Publishers, TheMqtt!Return(t)
  PROVE  MqttInv'
  <1> DEFINE s == stack[t]
             r == Tail(s)
  <1>1. /\ s \in Seq(MqttFrames) /\ s # << >> /\ s[1].at = "handled"
        /\ stack' = [stack EXCEPT ![t] = r]
        /\ holder' = IF s[1].call \in TheMqtt!Calls THEN Nobody ELSE holder
    BY DEF TheMqtt!Return, TheMqtt!Top, MqttInv
  <1>2. /\ r \in Seq(MqttFrames) /\ 1 \in DOMAIN s /\ s[1] \in MqttFrames
        /\ \A i \in DOMAIN s : i # 1 => i - 1 \in DOMAIN r /\ s[i] = r[i - 1]
        /\ \A i \in DOMAIN r : i + 1 # 1 /\ i + 1 \in DOMAIN s /\ r[i] = s[i + 1]
    BY <1>1, Popped
  <1>3. DOMAIN s \subseteq Nat /\ DOMAIN r \subseteq Nat
    <2>1. Len(s) \in Nat /\ DOMAIN s = 1 .. Len(s) /\ Len(r) \in Nat /\ DOMAIN r = 1 .. Len(r)
      BY <1>1, <1>2, LenProperties
    <2> QED
      BY <2>1
  <1>4. Stacked(s) /\ OnceInside(s) /\ (holder = t <=> Inside(s) # {})
    BY DEF MqttInv
  <1> HIDE DEF s, r
  <1>5. \A i \in DOMAIN r : i + 1 \in DOMAIN s /\ i + 1 # 1 /\ r[i] = s[i + 1] /\ s[i + 1].at = "handled"
    BY <1>2, <1>4 DEF Stacked
  <1>6. Stacked(r)
    BY <1>5 DEF Stacked
  <1>7. \A i \in Inside(r) : i + 1 \in Inside(s) /\ i + 1 # 1 /\ i \in Nat
    BY <1>3, <1>5 DEF Inside
  <1>8. \A i \in Inside(s) : i # 1 => i - 1 \in Inside(r)
    BY <1>2 DEF Inside
  <1>9. OnceInside(r)
    <2> SUFFICES ASSUME NEW i \in Inside(r), NEW j \in Inside(r) PROVE i = j
      BY DEF OnceInside
    <2>1. i + 1 = j + 1 /\ i \in Nat /\ j \in Nat
      BY <1>4, <1>7 DEF OnceInside
    <2> QED
      BY <2>1
  <1>10. CASE s[1].call \in TheMqtt!Calls
    <2>1. 1 \in Inside(s)
      BY <1>1, <1>2, <1>10 DEF Inside
    <2>2. Inside(r) = {} /\ holder = t
      BY <1>4, <1>7, <2>1 DEF OnceInside
    <2>3. holder' = Nobody /\ \A u \in Publishers : u # Nobody
      BY <1>1, <1>10, PartsAssumption
    <2> QED
      BY <1>1, <1>2, <1>6, <1>9, <2>2, <2>3, MqttMove
  <1>11. CASE s[1].call \notin TheMqtt!Calls
    <2>1. 1 \notin Inside(s)
      BY <1>11 DEF Inside
    <2>2. Inside(r) # {} <=> Inside(s) # {}
      BY <1>7, <1>8, <2>1
    <2> QED
      BY <1>1, <1>2, <1>4, <1>6, <1>9, <1>11, <2>2, MqttMove
  <1> QED
    BY <1>10, <1>11

LEMMA MqttStepKeeps == MqttInv /\ [TheMqtt!Next]_TheMqtt!clientVars => MqttInv'
  <1> SUFFICES ASSUME MqttInv, [TheMqtt!Next]_TheMqtt!clientVars PROVE MqttInv'
    OBVIOUS
  <1>1. ASSUME NEW t \in Publishers, TheMqtt!Call(t) PROVE MqttInv'
    <2>1. PICK made \in TheMqtt!Calls :
            stack[t] = << >> /\ TheMqtt!Push(t, TheMqtt!Frame(made, "lock")) /\ holder' = holder
      BY <1>1 DEF TheMqtt!Call
    <2> DEFINE f == TheMqtt!Frame(made, "lock")
    <2>2. /\ f \in MqttFrames /\ f.at = "lock" /\ f.call \in TheMqtt!Calls
          /\ TheMqtt!Push(t, f)
      BY <2>1 DEF TheMqtt!Frame, MqttFrames
    <2> HIDE DEF f
    <2>3. f.at \in {"lock", "handler"} /\ (f.at = "lock" <=> f.call \in TheMqtt!Calls)
      BY <2>2, CallsAreNotBroker
    <2>4. stack[t] = << >> /\ holder' = holder
      BY <2>1
    <2>5. f \in MqttFrames /\ TheMqtt!Push(t, f)
      BY <2>2
    <2> QED
      BY <2>3, <2>4, <2>5, BeginsOutside
  <1>2. ASSUME NEW t \in Publishers, TheMqtt!BrokerActs(t) PROVE MqttInv'
    <2>1. PICK act \in TheMqtt!Broker :
            stack[t] = << >> /\ TheMqtt!Push(t, TheMqtt!Frame(act, "handler")) /\ holder' = holder
      BY <1>2 DEF TheMqtt!BrokerActs
    <2> DEFINE f == TheMqtt!Frame(act, "handler")
    <2>2. /\ f \in MqttFrames /\ f.at = "handler" /\ f.call \in TheMqtt!Broker
          /\ TheMqtt!Push(t, f)
      BY <2>1 DEF TheMqtt!Frame, MqttFrames
    <2> HIDE DEF f
    <2>3. f.at \in {"lock", "handler"} /\ (f.at = "lock" <=> f.call \in TheMqtt!Calls)
      BY <2>2, CallsAreNotBroker
    <2>4. stack[t] = << >> /\ holder' = holder
      BY <2>1
    <2>5. f \in MqttFrames /\ TheMqtt!Push(t, f)
      BY <2>2
    <2> QED
      BY <2>3, <2>4, <2>5, BeginsOutside
  <1>3. CASE UNCHANGED TheMqtt!clientVars
    <2>1. stack' = stack /\ holder' = holder
      BY <1>3 DEF TheMqtt!clientVars
    <2>2. ASSUME NEW t \in Publishers
          PROVE  /\ Stacked(stack'[t]) /\ OnceInside(stack'[t])
                 /\ holder' = t <=> Inside(stack'[t]) # {}
      BY <2>1 DEF MqttInv
    <2> QED
      BY <2>1, <2>2 DEF MqttInv, Stacked, OnceInside, Inside, MqttFrames
  <1> QED
    BY <1>1, <1>2, <1>3, EnterKeeps, HandlerKeeps, ReturnKeeps DEF TheMqtt!Next

\* Each step moves the stack of one thread.
LEMMA MovesAlone ==
  ASSUME NEW u \in Publishers, TheMqtt!Call(u) \/ TheMqtt!Enter(u)
           \/ TheMqtt!BrokerActs(u) \/ TheMqtt!Handler(u) \/ TheMqtt!Return(u),
         NEW t \in Publishers, t # u, DOMAIN stack = Publishers
  PROVE  stack'[t] = stack[t]
  <1>1. \E s : stack' = [stack EXCEPT ![u] = s]
    <2>1. CASE TheMqtt!Call(u) \/ TheMqtt!BrokerActs(u)
      BY <2>1 DEF TheMqtt!Call, TheMqtt!BrokerActs, TheMqtt!Push
    <2>2. CASE TheMqtt!Enter(u)
      BY <2>2 DEF TheMqtt!Enter, TheMqtt!Goto
    <2>3. CASE TheMqtt!Handler(u)
      BY <2>3 DEF TheMqtt!Handler
    <2>4. CASE TheMqtt!Return(u)
      BY <2>4 DEF TheMqtt!Return
    <2> QED
      BY <2>1, <2>2, <2>3, <2>4
  <1> QED
    BY <1>1

\* Where handlers call on messages only, calls interrupt messages only.
LEMMA UnderBrokerKeeps ==
  ASSUME MqttInv, TheMqtt!CallsOnDataOnly, \A t \in Publishers : UnderBroker(stack[t]),
         [TheMqtt!Next]_TheMqtt!clientVars, NEW t \in Publishers
  PROVE  UnderBroker(stack'[t])
  <1> DEFINE s == stack[t]
             Shallow(r) == /\ DOMAIN r = DOMAIN s
                           /\ \A i \in DOMAIN r : i # 1 => r[i].call = s[i].call
  <1>1. s \in Seq(MqttFrames) /\ UnderBroker(s) /\ stack \in [Publishers -> Seq(MqttFrames)]
    BY DEF MqttInv
  <1>2. CASE stack'[t] = s
    BY <1>1, <1>2
  <1>3. ASSUME s = << >>, NEW f \in MqttFrames, TheMqtt!Push(t, f)
        PROVE  UnderBroker(stack'[t])
    <2>1. stack'[t] = <<f>> \o << >>
      BY <1>1, <1>3 DEF TheMqtt!Push
    <2>2. << >> \in Seq(MqttFrames) /\ Len(<< >>) = 0
      BY EmptySeq
    <2> DEFINE e == << >>
    <2>3. e \in Seq(MqttFrames) /\ Len(e) = 0 /\ stack'[t] = <<f>> \o e
      BY <2>1, <2>2
    <2> HIDE DEF e
    <2>4. DOMAIN (<<f>> \o e) = 1 .. Len(e) + 1
      BY <2>3, Pushed
    <2>5. \A i \in 1 .. 0 + 1 : i = 1
      OBVIOUS
    <2> QED
      BY <2>3, <2>4, <2>5 DEF UnderBroker
  <1>4. ASSUME TheMqtt!Call(t) PROVE UnderBroker(stack'[t])
    <2>1. PICK made \in TheMqtt!Calls :
            s = << >> /\ TheMqtt!Push(t, TheMqtt!Frame(made, "lock"))
      BY <1>4 DEF TheMqtt!Call
    <2>2. TheMqtt!Frame(made, "lock") \in MqttFrames
      BY DEF TheMqtt!Frame, MqttFrames
    <2> QED
      BY <1>3, <2>1, <2>2
  <1>5. ASSUME TheMqtt!BrokerActs(t) PROVE UnderBroker(stack'[t])
    <2>1. PICK act \in TheMqtt!Broker :
            s = << >> /\ TheMqtt!Push(t, TheMqtt!Frame(act, "handler"))
      BY <1>5 DEF TheMqtt!BrokerActs
    <2>2. TheMqtt!Frame(act, "handler") \in MqttFrames
      BY DEF TheMqtt!Frame, MqttFrames
    <2> QED
      BY <1>3, <2>1, <2>2
  <1>6. ASSUME TheMqtt!Enter(t) PROVE UnderBroker(stack'[t])
    <2>1. s # << >> /\ \E at : TheMqtt!Goto(t, at)
      BY <1>6 DEF TheMqtt!Enter, TheMqtt!Top
    <2>2. PICK at : stack' = [stack EXCEPT ![t] = [s EXCEPT ![1] = [s[1] EXCEPT !.at = at]]]
      BY <2>1 DEF TheMqtt!Goto
    <2>3. stack'[t] = [s EXCEPT ![1] = [s[1] EXCEPT !.at = at]]
      BY <1>1, <2>2
    <2> QED
      BY <1>1, <2>3 DEF UnderBroker
  <1>7. ASSUME TheMqtt!Handler(t) PROVE UnderBroker(stack'[t])
    <2> DEFINE f == [s[1] EXCEPT !.at = "handled"]
               r == <<f>> \o Tail(s)
               made == MqttHandler[TheMqtt!EventOf(s[1].call)]
               g == TheMqtt!Frame(made, "lock")
    <2>1. s # << >> /\ stack'[t] = IF made = NoHandlerCall THEN r ELSE <<g>> \o r
      BY <1>1, <1>7 DEF TheMqtt!Handler, TheMqtt!Top
    <2>2. s[1] \in MqttFrames
      BY <1>1, <2>1, Popped
    <2>3. f \in MqttFrames /\ f.call = s[1].call
      BY <2>2 DEF MqttFrames
    <2>4. made # NoHandlerCall => s[1].call \in TheMqtt!Broker
      BY <2>2, EventsOfCalls DEF TheMqtt!CallsOnDataOnly, MqttFrames
    <2> HIDE DEF f, g, made
    <2>5. /\ r \in Seq(MqttFrames) /\ DOMAIN r = DOMAIN s /\ r[1] = f
          /\ \A i \in DOMAIN s : i # 1 => r[i] = s[i]
      BY <1>1, <2>1, <2>3, Replaced
    <2> HIDE DEF r
    <2>6. UnderBroker(r)
      BY <1>1, <2>5 DEF UnderBroker
    <2>7. ASSUME made # NoHandlerCall PROVE UnderBroker(<<g>> \o r)
      <3>1. \A i \in DOMAIN r : r[i].call \in TheMqtt!Broker
        BY <2>3, <2>4, <2>5, <2>6, <2>7 DEF UnderBroker
      <3>2. /\ DOMAIN r = 1 .. Len(r) /\ DOMAIN (<<g>> \o r) = 1 .. Len(r) + 1
            /\ \A i \in 1 .. Len(r) + 1 : i # 1 => i - 1 \in 1 .. Len(r) /\ (<<g>> \o r)[i] = r[i - 1]
        <4> DEFINE S == MqttFrames \cup {g}
        <4>1. r \in Seq(S) /\ g \in S
          BY <2>5, SeqMonotonic
        <4> HIDE DEF S
        <4> QED
          BY <4>1, Pushed
      <3> QED
        BY <3>1, <3>2 DEF UnderBroker
    <2> QED
      BY <2>1, <2>6, <2>7
  <1>8. ASSUME TheMqtt!Return(t) PROVE UnderBroker(stack'[t])
    <2>1. s # << >> /\ stack'[t] = Tail(s)
      BY <1>1, <1>8 DEF TheMqtt!Return, TheMqtt!Top
    <2>2. \A i \in DOMAIN Tail(s) : i + 1 # 1 /\ i + 1 \in DOMAIN s /\ Tail(s)[i] = s[i + 1]
      BY <1>1, <2>1, Popped
    <2> QED
      BY <1>1, <2>1, <2>2 DEF UnderBroker
  <1>9. ASSUME NEW u \in Publishers, u # t, TheMqtt!Call(u) \/ TheMqtt!Enter(u)
                 \/ TheMqtt!BrokerActs(u) \/ TheMqtt!Handler(u) \/ TheMqtt!Return(u)
        PROVE  stack'[t] = s
    BY <1>1, <1>9, MovesAlone
  <1>10. CASE UNCHANGED TheMqtt!clientVars
    BY <1>2, <1>10 DEF TheMqtt!clientVars
  <1> QED
    BY <1>2, <1>4, <1>5, <1>6, <1>7, <1>8, <1>9, <1>10 DEF TheMqtt!Next

LEMMA MqttIsSafe == TheMqtt!Spec => []MqttInv
  BY MqttStarts, MqttStepKeeps, PTL DEF TheMqtt!Spec

LEMMA UnderBrokerStarts == TheMqtt!Init => \A t \in Publishers : UnderBroker(stack[t])
  <1>1. UnderBroker(<< >>)
    BY EmptySeq DEF UnderBroker
  <1> QED
    BY <1>1 DEF TheMqtt!Init

\* A thread that waits for itself has a call under the one that waits.
LEMMA SelfLockedInside ==
  ASSUME MqttInv, NEW t \in Publishers, TheMqtt!SelfLocked(t)
  PROVE  /\ stack[t] \in Seq(MqttFrames) /\ stack[t] # << >> /\ holder = t
         /\ \E i \in Inside(stack[t]) : i # 1
  <1>1. /\ stack[t] \in Seq(MqttFrames) /\ stack[t] # << >>
        /\ stack[t][1].at = "lock" /\ holder = t
    BY DEF MqttInv, TheMqtt!SelfLocked, TheMqtt!Top
  <1>2. PICK i \in Inside(stack[t]) : TRUE
    BY <1>1 DEF MqttInv
  <1>3. i # 1
    BY <1>1, <1>2 DEF Inside
  <1> QED
    BY <1>1, <1>2, <1>3

LEMMA UnderBrokerIsFree ==
  ASSUME MqttInv, \A t \in Publishers : UnderBroker(stack[t])
  PROVE  TheMqtt!NobodyIsSelfLocked
  <1> SUFFICES ASSUME NEW t \in Publishers, TheMqtt!SelfLocked(t) PROVE FALSE
    BY DEF TheMqtt!NobodyIsSelfLocked
  <1>1. PICK i \in Inside(stack[t]) : i # 1
    BY SelfLockedInside
  <1>2. i \in DOMAIN stack[t] /\ stack[t][i].call \in TheMqtt!Calls
    BY <1>1 DEF Inside
  <1>3. stack[t][i].call \in TheMqtt!Broker
    BY <1>1, <1>2 DEF UnderBroker
  <1> QED
    BY <1>2, <1>3, CallsAreNotBroker

LEMMA SelfLockedStep ==
  ASSUME MqttInv, [TheMqtt!Next]_TheMqtt!clientVars, NEW t \in Publishers, TheMqtt!SelfLocked(t)
  PROVE  TheMqtt!SelfLocked(t)'
  <1>1. /\ stack[t] # << >> /\ stack[t][1].at = "lock" /\ holder = t
        /\ t # Nobody /\ DOMAIN stack = Publishers
    BY PartsAssumption DEF MqttInv, TheMqtt!SelfLocked, TheMqtt!Top
  <1>2. SUFFICES stack'[t] = stack[t] /\ holder' = t
    BY <1>1, <1>2 DEF TheMqtt!SelfLocked, TheMqtt!Top
  <1>3. CASE UNCHANGED TheMqtt!clientVars
    BY <1>1, <1>3 DEF TheMqtt!clientVars
  <1>4. ASSUME TheMqtt!Call(t) \/ TheMqtt!Enter(t) \/ TheMqtt!BrokerActs(t)
                 \/ TheMqtt!Handler(t) \/ TheMqtt!Return(t)
        PROVE  FALSE
    BY <1>1, <1>4 DEF TheMqtt!Call, TheMqtt!Enter, TheMqtt!BrokerActs, TheMqtt!Handler,
                      TheMqtt!Return, TheMqtt!Top
  <1>5. ASSUME NEW u \in Publishers, u # t,
               TheMqtt!Call(u) \/ TheMqtt!Enter(u) \/ TheMqtt!BrokerActs(u)
                 \/ TheMqtt!Handler(u) \/ TheMqtt!Return(u)
        PROVE  stack'[t] = stack[t] /\ holder' = t
    <2>1. stack'[t] = stack[t]
      BY <1>1, <1>5, MovesAlone
    <2>2. CASE TheMqtt!Call(u) \/ TheMqtt!BrokerActs(u) \/ TheMqtt!Handler(u)
      <3>1. holder' = holder
        <4>1. CASE TheMqtt!Call(u)
          BY <4>1 DEF TheMqtt!Call
        <4>2. CASE TheMqtt!BrokerActs(u)
          BY <4>2 DEF TheMqtt!BrokerActs
        <4>3. CASE TheMqtt!Handler(u)
          BY <4>3 DEF TheMqtt!Handler
        <4> QED
          BY <2>2, <4>1, <4>2, <4>3
      <3> QED
        BY <1>1, <2>1, <3>1
    <2>3. CASE TheMqtt!Enter(u)
      BY <1>1, <2>3 DEF TheMqtt!Enter
    <2>4. CASE TheMqtt!Return(u)
      <3>1. stack[u] \in Seq(MqttFrames) /\ stack[u] # << >> /\ stack[u][1].at = "handled"
        BY <2>4 DEF MqttInv, TheMqtt!Return, TheMqtt!Top
      <3>2. 1 \in DOMAIN stack[u]
        BY <3>1, Popped
      <3>3. stack[u][1].call \notin TheMqtt!Calls
        <4>1. ASSUME stack[u][1].call \in TheMqtt!Calls PROVE 1 \in Inside(stack[u])
          BY <3>1, <3>2, <4>1 DEF Inside
        <4> QED
          BY <1>1, <1>5, <4>1 DEF MqttInv
      <3> QED
        BY <1>1, <2>1, <2>4, <3>3 DEF TheMqtt!Return
    <2> QED
      BY <1>5, <2>1, <2>2, <2>3, <2>4
  <1> QED
    BY <1>3, <1>4, <1>5 DEF TheMqtt!Next

-----------------------------------------------------------------------------
\* The composition moves one part at a time, so it implements each of them.
THEOREM PartsAreTheirParts ==
  PartsSpec => /\ Spec /\ SchedulerSpec
               /\ TheTicker!Spec /\ ThePubSub!Spec /\ TheHttp!Spec /\ TheMqtt!Spec
  <1>1. PartsInit => /\ Init /\ SchedulerInit
                     /\ TheTicker!Init /\ ThePubSub!Init /\ TheHttp!Init /\ TheMqtt!Init
    BY DEF PartsInit
  <1>2. [PartsNext]_partVars => [Next]_vars
    BY DEF PartsNext, partVars, TasksStep, TickerStep, HttpStep, SchedulerStep, PubSubStep,
           MqttStep
  <1>3. [PartsNext]_partVars => [SchedulerNext]_tsVars
    BY DEF PartsNext, partVars, TasksStep, TickerStep, HttpStep, SchedulerStep, PubSubStep,
           MqttStep
  <1>4. [PartsNext]_partVars => [TheTicker!Next]_TheTicker!vars
    BY DEF PartsNext, partVars, TasksStep, TickerStep, HttpStep, SchedulerStep, PubSubStep,
           MqttStep, ticker, TheTicker!vars
  <1>5. [PartsNext]_partVars => [ThePubSub!Next]_ThePubSub!psVars
    BY DEF PartsNext, partVars, TasksStep, TickerStep, HttpStep, SchedulerStep, PubSubStep,
           MqttStep, pubsub, ThePubSub!psVars
  <1>6. [PartsNext]_partVars => [TheHttp!Next]_TheHttp!httpVars
    BY DEF PartsNext, partVars, TasksStep, TickerStep, HttpStep, SchedulerStep, PubSubStep,
           MqttStep, http, TheHttp!httpVars
  <1>7. [PartsNext]_partVars => [TheMqtt!Next]_TheMqtt!clientVars
    BY DEF PartsNext, partVars, TasksStep, TickerStep, HttpStep, SchedulerStep, PubSubStep,
           MqttStep, mqtt, TheMqtt!clientVars, TheMqtt!client
  <1> QED
    BY <1>1, <1>2, <1>3, <1>4, <1>5, <1>6, <1>7, PTL
       DEF PartsSpec, Spec, SchedulerSpec, TheTicker!Spec, ThePubSub!Spec, TheHttp!Spec,
           TheMqtt!Spec

\* Only the callback that was attached last is called, none of an old one is
\* still under way when attach has returned, and a once fires once.
THEOREM OldTickersAreSilent == PartsSpec => []OldCallbacksAreSilent
  <1>1. TheTicker!Spec => []OldCallbacksAreSilent
    <2>1. TickerInv => OldCallbacksAreSilent
      BY DEF TickerInv
    <2> QED
      BY <2>1, TickerInit, TickerStepKeeps, PTL DEF TheTicker!Spec
  <1> QED
    BY <1>1, PartsAreTheirParts, PTL

\* A publish calls back once per subscription that matches its topic, whatever
\* the callbacks subscribe and unsubscribe, and one callback runs at a time.
THEOREM MatchesCallOnce == PartsSpec => []OncePerMatch
  <1>1. ThePubSub!Spec => []OncePerMatch
    BY PubSubInit, PubSubStepKeeps, PubSubInvIsEnough, PTL DEF ThePubSub!Spec
  <1> QED
    BY <1>1, PartsAreTheirParts, PTL

\* A 200 is the answer of the handler to this very request, and handlers and
\* clients see whole messages, unless a receive timeout cut one short.
THEOREM ExchangesAreWhole == PartsSpec => []WholeUnlessLate
  <1>1. HttpInv /\ [TheHttp!Next]_TheHttp!httpVars => HttpInv'
    <2> SUFFICES ASSUME HttpInv, UNCHANGED TheHttp!httpVars PROVE HttpInv'
      BY HttpStepKeeps
    <2>1. /\ UNCHANGED <<backlog, link, serving, step, read, handled, silent, late>>
          /\ UNCHANGED <<tries, inside, sent, got, status, answer>>
      BY DEF TheHttp!httpVars
    <2> QED
      BY <2>1, BeginStep
  <1>2. TheHttp!Spec => []WholeUnlessLate
    BY <1>1, HttpInit, HttpInvIsEnough, PTL DEF TheHttp!Spec
  <1> QED
    BY <1>2, PartsAreTheirParts, PTL

\* A program whose MQTT handler calls the client on messages only, which come
\* to it without the mutex: no call waits for the mutex its own thread holds,
\* whatever the threads and the topics are.
THEOREM CallsDoNotSelfLock ==
  ASSUME TheMqtt!CallsOnDataOnly
  PROVE  PartsSpec => []TheMqtt!NobodyIsSelfLocked
  <1> DEFINE Apart == \A t \in Publishers : UnderBroker(stack[t])
  <1>1. TheMqtt!Init => Apart
    BY UnderBrokerStarts
  <1>2. MqttInv /\ Apart /\ [TheMqtt!Next]_TheMqtt!clientVars => Apart'
    BY UnderBrokerKeeps DEF UnderBroker
  <1>3. MqttInv /\ Apart => TheMqtt!NobodyIsSelfLocked
    BY UnderBrokerIsFree
  <1> HIDE DEF Apart
  <1>4. TheMqtt!Spec => []TheMqtt!NobodyIsSelfLocked
    BY <1>1, <1>2, <1>3, MqttIsSafe, PTL DEF TheMqtt!Spec
  <1> QED
    BY <1>4, PartsAreTheirParts, PTL

\* Whatever the handler of a program does: a thread whose call waits for the
\* mutex that it holds itself waits for ever, and keeps the mutex.
THEOREM MqttSelfLocksStay == PartsSpec => TheMqtt!SelfLocksStay
  <1> DEFINE Stays == \A t \in Publishers : TheMqtt!SelfLocked(t) => TheMqtt!SelfLocked(t)'
  <1>1. MqttInv /\ [TheMqtt!Next]_TheMqtt!clientVars => [Stays]_TheMqtt!clientVars
    BY SelfLockedStep
  <1> HIDE DEF Stays
  <1>2. TheMqtt!Spec => [][Stays]_TheMqtt!clientVars
    BY <1>1, MqttIsSafe, PTL DEF TheMqtt!Spec
  <1>3. TheMqtt!Spec => TheMqtt!SelfLocksStay
    BY <1>2 DEF TheMqtt!SelfLocksStay, Stays
  <1> QED
    BY <1>3, PartsAreTheirParts, PTL
=============================================================================
