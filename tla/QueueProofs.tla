---------------------------- MODULE QueueProofs ----------------------------
(***************************************************************************)
(* Machine-checked facts about Queue, for every number of threads, every   *)
(* capacity and every set of items.                                        *)
(***************************************************************************)
EXTENDS Queue, FiniteSetTheorems, TLAPS

(***************************************************************************)
(* Requests are records told apart by their operation.                     *)
(***************************************************************************)
LEMMA RequestFacts ==
  /\ \A r \in Requests : /\ r.op \in {"SendToBack", "SendToFront", "Receive", "Peek"}
                         /\ r.op \in Ops
                         /\ r # Idle
                         /\ r.op \in Sends => r.item \in Items
  /\ Idle.op = "none"
  /\ Sends = {"SendToBack", "SendToFront"}
  /\ Abstract!Takes = {"Receive", "Peek"}
  BY DEF Requests, Abstract!Requests, Idle, Abstract!Idle, Sends,
         Abstract!Sends, Abstract!Takes

LEMMA ResultFacts ==
  /\ Refused \in Abstract!Results
  /\ \A x \in Items \cup {NoItem} : Passed(x) \in Abstract!Results
  BY DEF Refused, Abstract!Refused, Passed, Abstract!Passed, Abstract!Results

(***************************************************************************)
(* notify_one leaves behind a subset that lacks at most one thread.        *)
(***************************************************************************)
LEMMA NotifyOneFacts ==
  ASSUME NEW cv, NEW after \in NotifyOne(cv)
  PROVE  /\ after \subseteq cv
         /\ cv = {} => after = {}
         /\ cv # {} => \E t \in cv : after = cv \ {t}
  BY DEF NotifyOne

-----------------------------------------------------------------------------
LEMMA TypeInit == Init => TypeOK
  BY QueueAssumption, RequestFacts, ResultFacts
     DEF Init, TypeOK, Asleep, Senders

LEMMA TypeStep == TypeOK /\ [Next]_vars => TypeOK'
  <1> SUFFICES ASSUME TypeOK, [Next]_vars
               PROVE  TypeOK'
      OBVIOUS
  <1> USE RequestFacts, ResultFacts, QueueAssumption
  <1>1. ASSUME NEW t \in Threads, NEW r \in Requests, Send(t, r)
        PROVE  TypeOK'
    <2>1. /\ items' \in Seq(Items)
          /\ Len(items') = Len(items) + 1
      BY <1>1 DEF Send, TypeOK, Predicate
    <2>2. cvNotEmpty' \subseteq cvNotEmpty
      BY <1>1, NotifyOneFacts DEF Send
    <2>3. t \notin Asleep
      BY <1>1 DEF Send, Runs, TypeOK, Asleep, Senders
    <2> QED
      BY <1>1, <2>1, <2>2, <2>3
         DEF Send, Predicate, Return, TypeOK, Asleep, Senders
  <1>2. ASSUME NEW t \in Threads, NEW r \in Requests, Receive(t, r)
        PROVE  TypeOK'
    <2>1. /\ items' \in Seq(Items)
          /\ Len(items') = Len(items) - 1
          /\ Head(items) \in Items
      BY <1>2 DEF Receive, TypeOK, Predicate
    <2>2. cvNotFull' \subseteq cvNotFull
      BY <1>2, NotifyOneFacts DEF Receive
    <2>3. t \notin Asleep
      BY <1>2 DEF Receive, Runs, TypeOK, Asleep, Senders
    <2> QED
      BY <1>2, <2>1, <2>2, <2>3
         DEF Receive, Return, TypeOK, Asleep, Senders
  <1>3. ASSUME NEW t \in Threads, NEW r \in Requests, Peek(t, r)
        PROVE  TypeOK'
    <2>1. Head(items) \in Items
      BY <1>3 DEF Peek, TypeOK, Predicate
    <2>2. t \notin Asleep
      BY <1>3 DEF Peek, Runs, TypeOK, Asleep, Senders
    <2> QED
      BY <1>3, <2>1, <2>2 DEF Peek, Return, TypeOK, Asleep, Senders
  <1>4. ASSUME NEW t \in Threads, NEW r \in Requests, Sleep(t, r)
        PROVE  TypeOK'
    <2>1. call' \in [Threads -> Requests \cup {Idle}]
      BY <1>4 DEF Sleep, TypeOK
    <2>2. \A u \in Threads : call[u] # Idle => call'[u] = call[u]
      BY <1>4 DEF Sleep, Runs, TypeOK
    <2>3. call'[t] = r
      BY <1>4 DEF Sleep, TypeOK
    <2>4. cvNotFull' \subseteq Senders'
      BY <1>4, <2>2, <2>3 DEF Sleep, TypeOK, Senders
    <2>5. cvNotEmpty' \subseteq {u \in Threads : call'[u].op \in Abstract!Takes}
      BY <1>4, <2>2, <2>3 DEF Sleep, TypeOK
    <2>6. late' \subseteq {u \in Threads : call'[u] # Idle}
      BY <1>4, <2>2 DEF Sleep, TypeOK
    <2>7. late' \cap Asleep' = {}
      BY <1>4 DEF Sleep, TypeOK, Asleep
    <2> QED
      BY <1>4, <2>1, <2>4, <2>5, <2>6, <2>7 DEF Sleep, TypeOK
  <1>5. ASSUME NEW t \in Threads, NEW r \in Requests, Fail(t, r)
        PROVE  TypeOK'
    <2>1. t \notin Asleep
      BY <1>5 DEF Fail, Runs, TypeOK, Asleep, Senders
    <2> QED
      BY <1>5, <2>1 DEF Fail, Return, TypeOK, Asleep, Senders
  <1>6. ASSUME NEW t \in Threads, Reset(t)
        PROVE  TypeOK'
    <2>1. t \notin Asleep
      BY <1>6 DEF Reset, TypeOK, Asleep, Senders
    <2> QED
      BY <1>6, <2>1 DEF Reset, Return, TypeOK, Asleep, Senders
  <1>7. ASSUME NEW t \in Threads, Spurious(t)
        PROVE  TypeOK'
      BY <1>7 DEF Spurious, WakeUp, TypeOK, Asleep, Senders
  <1>8. ASSUME NEW t \in Threads, Deadline(t)
        PROVE  TypeOK'
      BY <1>8 DEF Deadline, WakeUp, TypeOK, Asleep, Senders
  <1>9. CASE UNCHANGED vars
      BY <1>9 DEF vars, TypeOK, Asleep, Senders
  <1> QED
    BY <1>1, <1>2, <1>3, <1>4, <1>5, <1>6, <1>7, <1>8, <1>9
       DEF Next, Proceed

(***************************************************************************)
(* The queue never holds more than MaxLength items and its bookkeeping of  *)
(* callers, sleepers and deadlines is consistent.                          *)
(***************************************************************************)
THEOREM TypeCorrect == Spec => []TypeOK
  <1> QED
    BY TypeInit, TypeStep, PTL DEF Spec

-----------------------------------------------------------------------------
(***************************************************************************)
(* What notify_one does to the number of woken threads: waking one of the  *)
(* sleepers W of a set S of callers adds one to those awake.               *)
(***************************************************************************)
LEMMA WakeOne ==
  ASSUME NEW S, IsFiniteSet(S), NEW W, W \subseteq S, NEW t \in W
  PROVE  Cardinality(S \ (W \ {t})) = Cardinality(S \ W) + 1
  <1>1. S \ (W \ {t}) = (S \ W) \cup {t}
    OBVIOUS
  <1>2. IsFiniteSet(S \ W)
    BY FS_Difference
  <1> QED
    BY <1>1, <1>2, FS_AddElement

(***************************************************************************)
(* Dually, a caller that is awake and leaves takes one away.               *)
(***************************************************************************)
LEMMA LeaveOne ==
  ASSUME NEW S, IsFiniteSet(S), NEW W, NEW t \in S, t \notin W
  PROVE  Cardinality((S \ {t}) \ W) = Cardinality(S \ W) - 1
  <1>1. (S \ {t}) \ W = (S \ W) \ {t}
    OBVIOUS
  <1>2. IsFiniteSet(S \ W) /\ t \in S \ W
    BY FS_Difference
  <1> QED
    BY <1>1, <1>2, FS_RemoveElement

LEMMA MoreAwake ==
  ASSUME NEW S, IsFiniteSet(S), NEW W, NEW V, V \subseteq W
  PROVE  /\ Cardinality(S \ W) \in Nat
         /\ Cardinality(S \ V) \in Nat
         /\ Cardinality(S \ W) <= Cardinality(S \ V)
  <1>1. S \ W \subseteq S \ V
    OBVIOUS
  <1>2. IsFiniteSet(S \ V) /\ IsFiniteSet(S \ W)
    BY FS_Difference
  <1> QED
    BY <1>1, <1>2, FS_Subset, FS_CardinalityType

LEMMA CallersFinite == IsFiniteSet(Receivers) /\ IsFiniteSet(Senders)
  <1>1. Receivers \subseteq Threads /\ Senders \subseteq Threads
    BY DEF Receivers, Senders
  <1> QED
    BY <1>1, FS_Subset, QueueAssumption

-----------------------------------------------------------------------------
(***************************************************************************)
(* NoStrandedReceiver is inductive by itself when nobody peeks: each send  *)
(* that adds an item wakes one receiver, each receive that removes an item *)
(* retires at most one awake receiver.                                     *)
(***************************************************************************)
LEMMA ReceiverStep ==
  ASSUME "Peek" \notin Ops, TypeOK, NoStrandedReceiver, [Next]_vars
  PROVE  NoStrandedReceiver'
  <1> DEFINE awake == Cardinality(Receivers \ cvNotEmpty)
  <1> USE RequestFacts
  <1>a. IsFiniteSet(Receivers)
    BY CallersFinite
  <1>b. cvNotEmpty \subseteq Receivers
    BY DEF TypeOK, Receivers
  <1>c. awake \in Nat
    BY <1>a, MoreAwake
  <1>d. Len(items) \in Nat /\ items \in Seq(Items)
    BY DEF TypeOK
  <1>1. ASSUME NEW t \in Threads, NEW r \in Requests, Send(t, r)
        PROVE  NoStrandedReceiver'
    <2>1. Receivers' = Receivers
      BY <1>1 DEF Send, Return, Runs, TypeOK, Receivers
    <2>2. Len(items') = Len(items) + 1
      BY <1>1 DEF Send, TypeOK
    <2>3. CASE cvNotEmpty = {}
      BY <1>1, <2>3, NotifyOneFacts DEF Send, NoStrandedReceiver
    <2>4. CASE cvNotEmpty # {}
      <3>1. PICK u \in cvNotEmpty : cvNotEmpty' = cvNotEmpty \ {u}
        BY <1>1, <2>4, NotifyOneFacts DEF Send
      <3>2. Cardinality(Receivers \ cvNotEmpty') = awake + 1
        BY <1>a, <1>b, <3>1, WakeOne
      <3> QED
        BY <1>c, <1>d, <2>1, <2>2, <2>4, <3>2 DEF NoStrandedReceiver
    <2> QED
      BY <2>3, <2>4
  <1>2. ASSUME NEW t \in Threads, NEW r \in Requests, Receive(t, r)
        PROVE  NoStrandedReceiver'
    <2>1. Len(items') = Len(items) - 1
      BY <1>2 DEF Receive, TypeOK, Predicate
    <2>2. UNCHANGED cvNotEmpty
      BY <1>2 DEF Receive
    <2>3. CASE call[t] = Idle
      <3>1. Receivers' = Receivers
        BY <1>2, <2>3 DEF Receive, Return, TypeOK, Receivers
      <3> QED
        BY <1>c, <1>d, <2>1, <2>2, <3>1 DEF NoStrandedReceiver
    <2>4. CASE call[t] = r /\ t \notin Asleep
      <3>1. Receivers' = Receivers \ {t} /\ t \in Receivers
        BY <1>2, <2>4 DEF Receive, Return, TypeOK, Receivers
      <3>2. t \notin cvNotEmpty
        BY <2>4 DEF Asleep
      <3>3. Cardinality(Receivers' \ cvNotEmpty') = awake - 1
        BY <1>a, <2>2, <3>1, <3>2, LeaveOne
      <3> QED
        BY <1>c, <1>d, <2>1, <2>2, <3>3 DEF NoStrandedReceiver
    <2> QED
      BY <1>2, <2>3, <2>4 DEF Receive, Runs
  <1>3. ASSUME NEW t \in Threads, NEW r \in Requests, Peek(t, r)
        PROVE  NoStrandedReceiver'
    BY <1>3 DEF Peek
  <1>4. ASSUME NEW t \in Threads, NEW r \in Requests, Sleep(t, r)
        PROVE  NoStrandedReceiver'
    <2>1. CASE r.op \in Sends
      <3>1. Receivers' = Receivers /\ UNCHANGED <<cvNotEmpty, items>>
        BY <1>4, <2>1 DEF Sleep, Runs, TypeOK, Receivers
      <3> QED
        BY <3>1 DEF NoStrandedReceiver
    <2>2. CASE r.op \notin Sends
      <3>1. items' = << >>
        BY <1>4, <2>2 DEF Sleep, Predicate
      <3>2. IsFiniteSet(Receivers')
        BY <1>4, QueueAssumption, FS_Subset DEF Receivers
      <3>3. Cardinality(Receivers' \ cvNotEmpty') \in Nat
        BY <3>2, MoreAwake
      <3> QED
        BY <3>1, <3>3 DEF NoStrandedReceiver
    <2> QED
      BY <2>1, <2>2
  <1>5. ASSUME NEW t \in Threads, NEW r \in Requests, Fail(t, r)
        PROVE  NoStrandedReceiver'
    <2>1. CASE r.op \in Sends
      <3>1. Receivers' = Receivers /\ UNCHANGED <<cvNotEmpty, items>>
        BY <1>5, <2>1 DEF Fail, Return, Runs, TypeOK, Receivers
      <3> QED
        BY <3>1 DEF NoStrandedReceiver
    <2>2. CASE r.op \notin Sends
      <3>1. items' = << >>
        BY <1>5, <2>2 DEF Fail, Predicate
      <3>2. IsFiniteSet(Receivers')
        BY QueueAssumption, FS_Subset DEF Receivers
      <3>3. Cardinality(Receivers' \ cvNotEmpty') \in Nat
        BY <3>2, MoreAwake
      <3> QED
        BY <3>1, <3>3 DEF NoStrandedReceiver
    <2> QED
      BY <2>1, <2>2
  <1>6. ASSUME NEW t \in Threads, Reset(t)
        PROVE  NoStrandedReceiver'
    <2>1. Receivers' = Receivers /\ UNCHANGED cvNotEmpty
      BY <1>6 DEF Reset, Return, TypeOK, Receivers
    <2>2. Len(items') = 0
      BY <1>6 DEF Reset
    <2> QED
      BY <1>c, <2>1, <2>2 DEF NoStrandedReceiver
  <1>7. ASSUME NEW t \in Threads, Spurious(t) \/ Deadline(t)
        PROVE  NoStrandedReceiver'
    <2>1. /\ Receivers' = Receivers
          /\ UNCHANGED items
          /\ cvNotEmpty' \subseteq cvNotEmpty
      BY <1>7 DEF Spurious, Deadline, WakeUp, Receivers
    <2>2. /\ Cardinality(Receivers \ cvNotEmpty') \in Nat
          /\ awake <= Cardinality(Receivers \ cvNotEmpty')
      BY <1>a, <2>1, MoreAwake
    <2> QED
      BY <1>c, <1>d, <2>1, <2>2 DEF NoStrandedReceiver
  <1>8. CASE UNCHANGED vars
    BY <1>8 DEF vars, NoStrandedReceiver, Receivers
  <1> QED
    BY <1>1, <1>2, <1>3, <1>4, <1>5, <1>6, <1>7, <1>8 DEF Next, Proceed

(***************************************************************************)
(* In a program that does not peek, a receiver never sleeps beside an item *)
(* that no other woken receiver is on its way to take.                     *)
(***************************************************************************)
THEOREM ReceiversNotStranded ==
  ASSUME "Peek" \notin Ops
  PROVE  Spec => []NoStrandedReceiver
  <1>1. Init => NoStrandedReceiver
    BY DEF Init, NoStrandedReceiver
  <1>2. TypeOK /\ NoStrandedReceiver /\ [Next]_vars => NoStrandedReceiver'
    BY ReceiverStep
  <1> QED
    BY <1>1, <1>2, TypeCorrect, PTL DEF Spec

-----------------------------------------------------------------------------
(***************************************************************************)
(* NoStrandedSender is inductive by itself when nobody resets the queue:   *)
(* each receive that frees a slot wakes one sender, each send that fills a *)
(* slot retires at most one awake sender.                                  *)
(***************************************************************************)
LEMMA SenderStep ==
  ASSUME "Reset" \notin Ops, TypeOK, NoStrandedSender, [Next]_vars
  PROVE  NoStrandedSender'
  <1> DEFINE awake == Cardinality(Senders \ cvNotFull)
  <1> USE RequestFacts
  <1>a. IsFiniteSet(Senders)
    BY CallersFinite
  <1>b. cvNotFull \subseteq Senders
    BY DEF TypeOK
  <1>c. awake \in Nat
    BY <1>a, MoreAwake
  <1>d. Len(items) \in Nat /\ items \in Seq(Items) /\ MaxLength \in Nat
    BY QueueAssumption DEF TypeOK
  <1>e. IsFiniteSet(Senders')
    BY QueueAssumption, FS_Subset DEF Senders
  <1>1. ASSUME NEW t \in Threads, NEW r \in Requests, Send(t, r)
        PROVE  NoStrandedSender'
    <2>1. Len(items') = Len(items) + 1
      BY <1>1 DEF Send, TypeOK
    <2>2. UNCHANGED cvNotFull
      BY <1>1 DEF Send
    <2>3. CASE call[t] = Idle
      <3>1. Senders' = Senders
        BY <1>1, <2>3 DEF Send, Return, TypeOK, Senders
      <3> QED
        BY <1>c, <1>d, <2>1, <2>2, <3>1 DEF NoStrandedSender
    <2>4. CASE call[t] = r /\ t \notin Asleep
      <3>1. Senders' = Senders \ {t} /\ t \in Senders
        BY <1>1, <2>4 DEF Send, Return, TypeOK, Senders
      <3>2. t \notin cvNotFull
        BY <2>4 DEF Asleep
      <3>3. Cardinality(Senders' \ cvNotFull') = awake - 1
        BY <1>a, <2>2, <3>1, <3>2, LeaveOne
      <3> QED
        BY <1>c, <1>d, <2>1, <2>2, <3>3 DEF NoStrandedSender
    <2> QED
      BY <1>1, <2>3, <2>4 DEF Send, Runs
  <1>2. ASSUME NEW t \in Threads, NEW r \in Requests, Receive(t, r)
        PROVE  NoStrandedSender'
    <2>1. Senders' = Senders
      BY <1>2 DEF Receive, Return, Runs, TypeOK, Senders
    <2>2. Len(items') = Len(items) - 1
      BY <1>2 DEF Receive, TypeOK, Predicate
    <2>3. CASE cvNotFull = {}
      BY <1>2, <2>3, NotifyOneFacts DEF Receive, NoStrandedSender
    <2>4. CASE cvNotFull # {}
      <3>1. PICK u \in cvNotFull : cvNotFull' = cvNotFull \ {u}
        BY <1>2, <2>4, NotifyOneFacts DEF Receive
      <3>2. Cardinality(Senders \ cvNotFull') = awake + 1
        BY <1>a, <1>b, <3>1, WakeOne
      <3> QED
        BY <1>c, <1>d, <2>1, <2>2, <2>4, <3>2 DEF NoStrandedSender
    <2> QED
      BY <2>3, <2>4
  <1>3. ASSUME NEW t \in Threads, NEW r \in Requests, Peek(t, r)
        PROVE  NoStrandedSender'
    <2>1. Senders' = Senders /\ UNCHANGED <<cvNotFull, items>>
      BY <1>3 DEF Peek, Return, Runs, TypeOK, Senders
    <2> QED
      BY <2>1 DEF NoStrandedSender
  <1>4. ASSUME NEW t \in Threads, NEW r \in Requests,
               Sleep(t, r) \/ Fail(t, r)
        PROVE  NoStrandedSender'
    <2>1. CASE r.op \notin Sends
      <3>1. Senders' = Senders /\ UNCHANGED <<cvNotFull, items>>
        BY <1>4, <2>1 DEF Sleep, Fail, Return, Runs, TypeOK, Senders
      <3> QED
        BY <3>1 DEF NoStrandedSender
    <2>2. CASE r.op \in Sends
      <3>1. items' = items /\ ~ (Len(items) < MaxLength)
        BY <1>4, <2>2 DEF Sleep, Fail, Predicate
      <3>2. MaxLength - Len(items') = 0
        BY <1>d, <3>1 DEF TypeOK
      <3>3. Cardinality(Senders' \ cvNotFull') \in Nat
        BY <1>e, MoreAwake
      <3> QED
        BY <3>2, <3>3 DEF NoStrandedSender
    <2> QED
      BY <2>1, <2>2
  <1>5. ASSUME NEW t \in Threads, Reset(t)
        PROVE  NoStrandedSender'
    BY <1>5 DEF Reset
  <1>6. ASSUME NEW t \in Threads, Spurious(t) \/ Deadline(t)
        PROVE  NoStrandedSender'
    <2>1. /\ Senders' = Senders
          /\ UNCHANGED items
          /\ cvNotFull' \subseteq cvNotFull
      BY <1>6 DEF Spurious, Deadline, WakeUp, Senders
    <2>2. /\ Cardinality(Senders \ cvNotFull') \in Nat
          /\ awake <= Cardinality(Senders \ cvNotFull')
      BY <1>a, <2>1, MoreAwake
    <2> QED
      BY <1>c, <1>d, <2>1, <2>2 DEF NoStrandedSender
  <1>7. CASE UNCHANGED vars
    BY <1>7 DEF vars, NoStrandedSender, Senders
  <1> QED
    BY <1>1, <1>2, <1>3, <1>4, <1>5, <1>6, <1>7 DEF Next, Proceed

(***************************************************************************)
(* In a program that does not reset the queue, a sender never sleeps       *)
(* beside a free slot that no other woken sender is on its way to fill.    *)
(***************************************************************************)
THEOREM SendersNotStranded ==
  ASSUME "Reset" \notin Ops
  PROVE  Spec => []NoStrandedSender
  <1>1. Init => NoStrandedSender
    BY DEF Init, NoStrandedSender
  <1>2. TypeOK /\ NoStrandedSender /\ [Next]_vars => NoStrandedSender'
    BY SenderStep
  <1> QED
    BY <1>1, <1>2, TypeCorrect, PTL DEF Spec

-----------------------------------------------------------------------------
(***************************************************************************)
(* Every step of the queue is a step of the abstract queue or changes      *)
(* nothing that its callers can see.                                       *)
(***************************************************************************)
LEMMA AbstractStep ==
  ASSUME TypeOK, [Next]_vars
  PROVE  [Abstract!Next]_(Abstract!vars)
  <1> USE RequestFacts
  <1> USE DEF Requests, Idle, Refused, Passed
  <1>p. ASSUME NEW r \in Requests
        PROVE  Predicate(r) <=> Abstract!CanServe(r)
    BY DEF Predicate, Abstract!CanServe, TypeOK, Sends
  <1>c. ASSUME NEW t, NEW r, Runs(t, r)
        PROVE  Abstract!CallOf(t, r)
    BY <1>c DEF Runs, Abstract!CallOf
  <1>r. ASSUME NEW t, NEW result, Return(t, result)
        PROVE  Abstract!Returns(t, result)
    BY <1>r DEF Return, Abstract!Returns
  <1>1. ASSUME NEW t \in Threads, NEW r \in Requests,
               Send(t, r) \/ Receive(t, r) \/ Peek(t, r)
        PROVE  Abstract!Serve(t, r)
    BY <1>1, <1>p, <1>c, <1>r DEF Send, Receive, Peek, Abstract!Serve
  <1>2. ASSUME NEW t \in Threads, NEW r \in Requests, Sleep(t, r)
        PROVE  Abstract!Wait(t, r) \/ UNCHANGED Abstract!vars
    <2>1. CASE call[t] = Idle
      BY <1>2, <1>p, <2>1 DEF Sleep, Abstract!Wait
    <2>2. CASE call[t] = r
      BY <1>2, <2>2 DEF Sleep, TypeOK, Abstract!vars
    <2> QED
      BY <1>2, <2>1, <2>2 DEF Sleep, Runs
  <1>3. ASSUME NEW t \in Threads, NEW r \in Requests, Fail(t, r)
        PROVE  Abstract!Refuse(t, r)
    BY <1>3, <1>p, <1>c, <1>r DEF Fail, Abstract!Refuse
  <1>4. ASSUME NEW t \in Threads, Reset(t)
        PROVE  Abstract!Empty(t)
    BY <1>4, <1>r DEF Reset, Abstract!Empty
  <1>5. ASSUME NEW t \in Threads, Spurious(t) \/ Deadline(t)
        PROVE  UNCHANGED Abstract!vars
    BY <1>5 DEF Spurious, Deadline, Abstract!vars
  <1>6. CASE UNCHANGED vars
    BY <1>6 DEF vars, Abstract!vars
  <1> QED
    BY <1>1, <1>2, <1>3, <1>4, <1>5, <1>6 DEF Next, Proceed, Abstract!Next

(***************************************************************************)
(* queue.h implements BoundedQueue: with any threads, operations, capacity *)
(* and timeouts, each call takes effect once, at one instant, and is       *)
(* refused only while the queue cannot serve it.                           *)
(***************************************************************************)
THEOREM QueueImplementsBoundedQueue == Spec => Refinement
  <1>1. Init => Abstract!Init
    BY DEF Init, Abstract!Init, Idle, Refused
  <1>2. TypeOK /\ [Next]_vars => [Abstract!Next]_(Abstract!vars)
    BY AbstractStep
  <1> QED
    BY <1>1, <1>2, TypeCorrect, PTL DEF Spec, Refinement, Abstract!Spec
=============================================================================
