-------------------------- MODULE EventGroupProofs --------------------------
(***************************************************************************)
(* Machine-checked facts about EventGroup, for any threads, bits, masks    *)
(* and ways of waiting, and about the barrier of EventBarrier, for any     *)
(* number of threads.                                                      *)
(***************************************************************************)
EXTENDS EventBarrier, TLAPS

LEMMA RequestsAreWaits == Requests \subseteq WaitArguments
  BY EventGroupAssumption

LEMMA TypeInit == Init => TypeOK
  BY DEF Init, TypeOK

LEMMA TypeStep == TypeOK /\ [Next]_vars => TypeOK'
  <1> SUFFICES ASSUME TypeOK, [Next]_vars
               PROVE  TypeOK'
      OBVIOUS
  <1> USE EventGroupAssumption
  <1>1. ASSUME NEW t \in Threads, NEW mask \in Masks, SetBits(t, mask)
        PROVE  TypeOK'
    BY <1>1 DEF SetBits, RaiseBits, Return, TypeOK
  <1>2. ASSUME NEW t \in Threads, NEW mask \in Masks, ClearBits(t, mask)
        PROVE  TypeOK'
    BY <1>2 DEF ClearBits, Return, TypeOK
  <1>3. ASSUME NEW t \in Threads, NEW r \in WaitArguments, WaitSleep(t, r)
        PROVE  TypeOK'
    <2>1. r # None
      OBVIOUS
    <2> QED
      BY <1>3, <2>1 DEF WaitSleep, TypeOK
  <1>4. ASSUME NEW t \in Threads, NEW r \in WaitArguments, WaitReturn(t, r)
        PROVE  TypeOK'
    <2>1. t \notin asleep
      BY <1>4 DEF WaitReturn, Runs, TypeOK
    <2> QED
      BY <1>4, <2>1 DEF WaitReturn, Return, TypeOK
  <1>5. ASSUME NEW t \in Threads, NEW mask \in Masks, NEW r \in Requests,
               Sync(t, mask, r)
        PROVE  TypeOK'
    <2>1. r \in WaitArguments /\ r # None
      BY RequestsAreWaits
    <2> QED
      BY <1>5, <2>1 DEF Sync, RaiseBits, TypeOK
  <1>6. ASSUME NEW t \in Threads, Spurious(t)
        PROVE  TypeOK'
    BY <1>6 DEF Spurious, TypeOK
  <1>7. ASSUME NEW t \in Threads, Deadline(t)
        PROVE  TypeOK'
    BY <1>7 DEF Deadline, TypeOK
  <1>8. CASE UNCHANGED vars
    BY <1>8 DEF vars, TypeOK
  <1> QED
    BY <1>1, <1>2, <1>3, <1>4, <1>5, <1>6, <1>7, <1>8 DEF Next, Wait

(***************************************************************************)
(* The word holds known bits and only threads in a wait sleep.             *)
(***************************************************************************)
THEOREM TypeCorrect == Spec => []TypeOK
  BY TypeInit, TypeStep, PTL DEF Spec

-----------------------------------------------------------------------------
(***************************************************************************)
(* Taking bits away satisfies nobody.                                      *)
(***************************************************************************)
LEMMA SatisfiedIsMonotone ==
  ASSUME NEW r, NEW word, NEW fewer, fewer \subseteq word, Satisfied(r, fewer)
  PROVE  Satisfied(r, word)
  BY DEF Satisfied

LEMMA NoMissedWakeupStep ==
  ASSUME TypeOK, NoMissedWakeup, [Next]_vars
  PROVE  NoMissedWakeup'
  <1>a. \A t \in asleep : call[t] # None /\ ~ Satisfied(call[t], bits)
    BY DEF TypeOK, NoMissedWakeup
  <1>1. ASSUME asleep' = {}
        PROVE  NoMissedWakeup'
    BY <1>1 DEF NoMissedWakeup
  <1>2. ASSUME bits' \subseteq bits, asleep' \subseteq asleep,
               \A t \in asleep' : call'[t] = call[t]
        PROVE  NoMissedWakeup'
    BY <1>a, <1>2, SatisfiedIsMonotone DEF NoMissedWakeup
  <1>3. ASSUME NEW t \in Threads, NEW mask \in Masks, SetBits(t, mask)
        PROVE  NoMissedWakeup'
    BY <1>1, <1>3 DEF SetBits, RaiseBits
  <1>4. ASSUME NEW t \in Threads, NEW mask \in Masks, ClearBits(t, mask)
        PROVE  NoMissedWakeup'
    <2>1. t \notin asleep
      BY <1>a, <1>4 DEF ClearBits
    <2> QED
      BY <1>2, <1>4, <2>1 DEF ClearBits, Return, TypeOK
  <1>5. ASSUME NEW t \in Threads, NEW r \in WaitArguments, WaitSleep(t, r)
        PROVE  NoMissedWakeup'
    BY <1>a, <1>5 DEF WaitSleep, TypeOK, NoMissedWakeup
  <1>6. ASSUME NEW t \in Threads, NEW r \in WaitArguments, WaitReturn(t, r)
        PROVE  NoMissedWakeup'
    <2>1. t \notin asleep
      BY <1>a, <1>6 DEF WaitReturn, Runs
    <2> QED
      BY <1>2, <1>6, <2>1 DEF WaitReturn, Return, TypeOK
  <1>7. ASSUME NEW t \in Threads, NEW mask \in Masks, NEW r \in Requests,
               Sync(t, mask, r)
        PROVE  NoMissedWakeup'
    BY <1>1, <1>7 DEF Sync, RaiseBits
  <1>8. ASSUME NEW t \in Threads, Spurious(t) \/ Deadline(t)
        PROVE  NoMissedWakeup'
    BY <1>2, <1>8 DEF Spurious, Deadline
  <1>9. CASE UNCHANGED vars
    BY <1>2, <1>9 DEF vars
  <1> QED
    BY <1>3, <1>4, <1>5, <1>6, <1>7, <1>8, <1>9 DEF Next, Wait

(***************************************************************************)
(* No thread ever sleeps through bits that satisfy its wait.               *)
(***************************************************************************)
THEOREM WakeupsNotMissed == Spec => []NoMissedWakeup
  <1>1. Init => NoMissedWakeup
    BY DEF Init, NoMissedWakeup
  <1>2. TypeOK /\ NoMissedWakeup /\ [Next]_vars => NoMissedWakeup'
    BY NoMissedWakeupStep
  <1> QED
    BY <1>1, <1>2, TypeCorrect, PTL DEF Spec

-----------------------------------------------------------------------------
LEMMA ClearedBitsStep ==
  ASSUME TypeOK, [Next]_vars, NEW b \in bits \ bits'
  PROVE  \E t \in Threads :
           /\ ret'.by = t /\ b \in ret'.word
           /\ call'[t] = None
           /\ \A u \in Threads \ {t} : call'[u] = call[u]
  <1> DEFINE Goal == \E t \in Threads :
               /\ ret'.by = t /\ b \in ret'.word
               /\ call'[t] = None
               /\ \A u \in Threads \ {t} : call'[u] = call[u]
  <1>1. ASSUME NEW t \in Threads, NEW mask \in Masks, ClearBits(t, mask)
        PROVE  Goal
    BY <1>1 DEF ClearBits, Return, TypeOK
  <1>2. ASSUME NEW t \in Threads, NEW r \in WaitArguments, WaitReturn(t, r)
        PROVE  Goal
    BY <1>2 DEF WaitReturn, Return, TypeOK
  <1>3. ASSUME NEW t \in Threads, NEW mask \in Masks, SetBits(t, mask)
        PROVE  FALSE
    BY <1>3 DEF SetBits, RaiseBits
  <1>4. ASSUME NEW t \in Threads, NEW mask \in Masks, NEW r \in Requests,
               Sync(t, mask, r)
        PROVE  FALSE
    BY <1>4 DEF Sync, RaiseBits
  <1>5. ASSUME NEW t \in Threads,
               Spurious(t) \/ Deadline(t)
                 \/ \E r \in WaitArguments : WaitSleep(t, r)
        PROVE  FALSE
    BY <1>5 DEF Spurious, Deadline, WaitSleep
  <1>6. ~ UNCHANGED vars
    BY DEF vars
  <1> HIDE DEF Goal
  <1>7. Goal
    BY <1>1, <1>2, <1>3, <1>4, <1>5, <1>6 DEF Next, Wait
  <1> QED
    BY <1>7 DEF Goal

(***************************************************************************)
(* Whoever makes a bit disappear returns it in the result of its call.     *)
(***************************************************************************)
THEOREM NoBitVanishesUnseen == Spec => ClearedBitsAreReported
  <1>1. TypeOK /\ [Next]_vars =>
          [\A b \in bits \ bits' : \E t \in Threads :
             /\ ret'.by = t /\ b \in ret'.word
             /\ call'[t] = None
             /\ \A u \in Threads \ {t} : call'[u] = call[u]]_vars
    BY ClearedBitsStep
  <1> QED
    BY <1>1, TypeCorrect, PTL DEF Spec, ClearedBitsAreReported

-----------------------------------------------------------------------------
(***************************************************************************)
(* A thread is only ever in a wait of the program, and what its deadline   *)
(* ends has one: together with the types, all that the refinement needs.   *)
(***************************************************************************)
CallsOK == /\ \A t \in Threads : call[t] \in Requests \cup {None}
           /\ \A t \in late : call[t].ticks = "finite"

LEMMA CallsStep == TypeOK /\ CallsOK /\ [Next]_vars => CallsOK'
  <1> SUFFICES ASSUME TypeOK, CallsOK, [Next]_vars
               PROVE  CallsOK'
      OBVIOUS
  <1> USE DEF TypeOK, CallsOK
  <1>1. ASSUME NEW t \in Threads, NEW mask \in Masks, SetBits(t, mask) \/ ClearBits(t, mask)
        PROVE  CallsOK'
    BY <1>1 DEF SetBits, ClearBits, Return
  <1>2. ASSUME NEW t \in Threads, NEW r \in WaitArguments, WaitSleep(t, r)
        PROVE  CallsOK'
    <2>1. r \in Requests /\ t \notin late
      BY <1>2, EventGroupAssumption DEF WaitSleep, Runs
    <2> QED
      BY <1>2, <2>1 DEF WaitSleep
  <1>3. ASSUME NEW t \in Threads, NEW r \in WaitArguments, WaitReturn(t, r)
        PROVE  CallsOK'
    BY <1>3 DEF WaitReturn, Return
  <1>4. ASSUME NEW t \in Threads, NEW mask \in Masks, NEW r \in Requests,
               Sync(t, mask, r)
        PROVE  CallsOK'
    <2>1. t \notin late
      BY <1>4 DEF Sync
    <2> QED
      BY <1>4, <2>1 DEF Sync
  <1>5. ASSUME NEW t \in Threads, Spurious(t) \/ Deadline(t)
        PROVE  CallsOK'
    BY <1>5 DEF Spurious, Deadline
  <1>6. CASE UNCHANGED vars
    BY <1>6 DEF vars
  <1> QED
    BY <1>1, <1>2, <1>3, <1>4, <1>5, <1>6 DEF Next, Wait

(***************************************************************************)
(* Every step of the group is a step of the abstract word or changes       *)
(* nothing that its callers can see.                                       *)
(***************************************************************************)
LEMMA AbstractStep ==
  ASSUME TypeOK, CallsOK, [Next]_vars
  PROVE  [Abstract!Next]_(Abstract!vars)
  <1>h. ASSUME NEW r
        PROVE  Satisfied(r, bits) <=> Abstract!Holds(r)
    BY DEF Satisfied, Abstract!Holds
  <1>c. ASSUME NEW t \in Threads, NEW r \in WaitArguments, Runs(t, r)
        PROVE  r \in Requests /\ call[t] \in {None, r}
    BY <1>c, EventGroupAssumption DEF Runs, CallsOK
  <1>r. ASSUME NEW t, NEW r, NEW word, Return(t, r, word)
        PROVE  Abstract!Returns(t, r, word)
    BY <1>r DEF Return, Abstract!Returns
  <1>1. ASSUME NEW t \in Threads, NEW mask \in Masks, SetBits(t, mask)
        PROVE  Abstract!Raise(t, mask)
    BY <1>1, <1>r DEF SetBits, RaiseBits, Abstract!Raise
  <1>2. ASSUME NEW t \in Threads, NEW mask \in Masks, ClearBits(t, mask)
        PROVE  Abstract!Drop(t, mask)
    BY <1>2, <1>r DEF ClearBits, Abstract!Drop
  <1>3. ASSUME NEW t \in Threads, NEW r \in WaitArguments, WaitSleep(t, r)
        PROVE  (r \in Requests /\ Abstract!Begin(t, r)) \/ UNCHANGED Abstract!vars
    <2>1. CASE call[t] = None
      BY <1>3, <1>c, <1>h, <2>1 DEF WaitSleep, Abstract!Begin
    <2>2. CASE call[t] = r
      BY <1>3, <2>2 DEF WaitSleep, TypeOK, Abstract!vars
    <2> QED
      BY <1>3, <1>c, <2>1, <2>2 DEF WaitSleep
  <1>4. ASSUME NEW t \in Threads, NEW r \in WaitArguments, WaitReturn(t, r)
        PROVE  r \in Requests /\ (Abstract!Serve(t, r) \/ Abstract!Refuse(t, r))
    <2>1. r \in Requests /\ call[t] \in {None, r}
      BY <1>4, <1>c DEF WaitReturn
    <2>2. Abstract!Returns(t, r, bits)
      BY <1>4, <1>r DEF WaitReturn
    <2>3. CASE Satisfied(r, bits)
      BY <1>4, <1>h, <2>1, <2>2, <2>3 DEF WaitReturn, Abstract!Serve
    <2>4. CASE ~ Satisfied(r, bits)
      <3>1. t \in late => call[t] = r /\ r.ticks = "finite"
        BY <2>1 DEF TypeOK, CallsOK
      <3> QED
        BY <1>4, <1>h, <2>1, <2>2, <2>4, <3>1 DEF WaitReturn, Abstract!Refuse
    <2> QED
      BY <2>1, <2>3, <2>4
  <1>5. ASSUME NEW t \in Threads, NEW mask \in Masks, NEW r \in Requests,
               Sync(t, mask, r)
        PROVE  Abstract!Meet(t, mask, r)
    BY <1>5 DEF Sync, SyncRequest, RaiseBits, Abstract!Meet
  <1>6. ASSUME NEW t \in Threads, Spurious(t) \/ Deadline(t)
        PROVE  UNCHANGED Abstract!vars
    BY <1>6 DEF Spurious, Deadline, Abstract!vars
  <1>7. CASE UNCHANGED vars
    BY <1>7 DEF vars, Abstract!vars
  <1> QED
    BY <1>1, <1>2, <1>3, <1>4, <1>5, <1>6, <1>7 DEF Next, Wait, Abstract!Next

(***************************************************************************)
(* event_groups.h implements EventWord: with any threads, masks and ways   *)
(* to wait, each call takes effect at one instant, a wait takes bits only  *)
(* if all it asked for is there, and fails only while it is not.           *)
(***************************************************************************)
THEOREM EventGroupImplementsEventWord == Spec => Refinement
  <1>1. Init => Abstract!Init /\ CallsOK
    BY DEF Init, Abstract!Init, CallsOK
  <1>2. TypeOK /\ CallsOK /\ [Next]_vars => [Abstract!Next]_(Abstract!vars)
    BY AbstractStep
  <1> QED
    BY <1>1, <1>2, CallsStep, TypeCorrect, PTL DEF Spec, Refinement, Abstract!Spec

-----------------------------------------------------------------------------
(***************************************************************************)
(* The barrier of EventBarrier, for any number of threads.                 *)
(***************************************************************************)
\* A bit in the word was announced by its thread, which is still inside.
BarrierInv ==
  /\ stage \in [Threads -> {"before", "announced", "past"}]
  /\ call \in [Threads -> {None, TheSync}] /\ late = {}
  /\ \A t \in Threads : stage[t] # "announced" => t \notin bits
  /\ NobodyIsEarly /\ NobodyFollows

LEMMA BarrierStarts == BarrierInit => BarrierInv
  BY DEF BarrierInit, Init, BarrierInv, NobodyIsEarly, NobodyFollows

LEMMA ArriveKeeps ==
  ASSUME BarrierInv, NEW t \in Threads, Arrive(t)
  PROVE  BarrierInv'
  <1>1. /\ stage[t] = "before" /\ stage' = [stage EXCEPT ![t] = "announced"]
        /\ bits' = bits \cup {t} /\ call' = [call EXCEPT ![t] = TheSync]
        /\ late' = {}
    BY DEF Arrive, Sync, RaiseBits, BarrierInv
  <1>2. \A u \in Threads : stage'[u] # "announced" => u # t /\ stage[u] # "announced"
    BY <1>1 DEF BarrierInv
  <1>3. \A u \in Threads : stage'[u] # "announced" => u \notin bits'
    BY <1>1, <1>2 DEF BarrierInv
  <1>4. \A u \in Threads : stage[u] # "past" /\ stage'[u] # "past"
    BY <1>1 DEF BarrierInv, NobodyIsEarly
  <1>5. stage' \in [Threads -> {"before", "announced", "past"}]
    BY <1>1 DEF BarrierInv
  <1>6. call' \in [Threads -> {None, TheSync'}]
    BY <1>1 DEF BarrierInv, TheSync
  <1> QED
    BY <1>1, <1>3, <1>4, <1>5, <1>6 DEF BarrierInv, NobodyIsEarly, NobodyFollows

\* Whoever sleeps leaves everything as it is; whoever returns has seen the bits
\* of everybody, so that nobody is past or before, and takes them all.
LEMMA FinishKeeps ==
  ASSUME BarrierInv, NEW t \in Threads, Finish(t)
  PROVE  BarrierInv'
  <1>1. TheSync' = TheSync
    BY DEF TheSync
  <1>2. ASSUME WaitSleep(t, TheSync), UNCHANGED stage
        PROVE  BarrierInv'
    <2>1. call' = [call EXCEPT ![t] = TheSync] /\ UNCHANGED <<bits, late>>
      BY <1>2 DEF WaitSleep
    <2>2. call' \in [Threads -> {None, TheSync'}]
      BY <1>1, <2>1 DEF BarrierInv
    <2> QED
      BY <1>2, <2>1, <2>2 DEF BarrierInv, NobodyIsEarly, NobodyFollows
  <1>3. ASSUME WaitReturn(t, TheSync), stage' = [stage EXCEPT ![t] = "past"]
        PROVE  BarrierInv'
    <2>1. /\ TheSync.ticks = "forever" /\ TheSync.mask = Threads
          /\ TheSync.all = TRUE /\ TheSync.clear = TRUE
      BY DEF TheSync, SyncRequest
    <2>2. Satisfied(TheSync, bits)
      BY <1>3, <2>1 DEF WaitReturn, BarrierInv
    <2>3. /\ bits' = bits \ Threads
          /\ call' = [call EXCEPT ![t] = None] /\ late' = late \ {t}
      BY <1>3, <2>1, <2>2 DEF WaitReturn, Return
    <2>4. \A u \in Threads : u \in bits /\ u \notin bits'
      BY <2>1, <2>2, <2>3 DEF Satisfied
    <2>5. \A u \in Threads : stage[u] = "announced"
      BY <2>4 DEF BarrierInv
    <2>6. \A u \in Threads : stage'[u] = IF u = t THEN "past" ELSE "announced"
      BY <1>3, <2>5 DEF BarrierInv
    <2>7. NobodyIsEarly' /\ NobodyFollows'
      BY <2>6 DEF NobodyIsEarly, NobodyFollows
    <2>8. stage' \in [Threads -> {"before", "announced", "past"}]
      BY <1>3 DEF BarrierInv
    <2>9. call' \in [Threads -> {None, TheSync'}] /\ late' = {}
      BY <1>1, <2>3 DEF BarrierInv
    <2> QED
      BY <2>4, <2>7, <2>8, <2>9 DEF BarrierInv
  <1> QED
    BY <1>2, <1>3 DEF Finish

LEMMA BarrierStep == BarrierInv /\ [BarrierNext]_barrierVars => BarrierInv'
  <1> SUFFICES ASSUME BarrierInv, [BarrierNext]_barrierVars
               PROVE  BarrierInv'
    OBVIOUS
  <1>1. ASSUME UNCHANGED <<bits, call, late, stage>>
        PROVE  BarrierInv'
    BY <1>1 DEF BarrierInv, NobodyIsEarly, NobodyFollows, TheSync
  <1>2. ASSUME NEW t \in Threads, Stir(t) PROVE BarrierInv'
    BY <1>1, <1>2 DEF Stir, Spurious
  <1>3. CASE UNCHANGED barrierVars
    BY <1>1, <1>3 DEF barrierVars, vars
  <1> QED
    BY <1>2, <1>3, ArriveKeeps, FinishKeeps DEF BarrierNext

\* xEventGroupSync as a barrier keeps everybody until the last has arrived, and
\* then lets one thread past and no other, however many there are.
THEOREM BarrierLetsOnePast == BarrierSpec => [](NobodyIsEarly /\ NobodyFollows)
  <1>1. BarrierInv => NobodyIsEarly /\ NobodyFollows
    BY DEF BarrierInv
  <1>2. BarrierInv /\ [BarrierNext]_barrierVars => BarrierInv'
    BY BarrierStep
  <1> QED
    BY <1>1, <1>2, BarrierStarts, PTL DEF BarrierSpec
=============================================================================
