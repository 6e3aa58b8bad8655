----------------------------- MODULE BoardProofs -----------------------------
(***************************************************************************)
(* Proofs about a board and its parts, for every value of the constants:    *)
(* of every catalogue of well-formed devices, whose conditions on single     *)
(* calls are enough for what no sequence of calls may do; of the event loop  *)
(* with any posters and handlers; of the lock of the GPIO driver with any    *)
(* threads; of displays of any size.                                         *)
(***************************************************************************)
EXTENDS MCBoard, SequenceTheorems, TLAPS

Catalogue == \A n \in DOMAIN Devices : WellFormed(Devices[n])

\* What is left of an ended session is never the session itself nor anything that
\* every ending call takes down.
Swept == \A f \in old \ D.keeps : f # D.session /\ ~ Ended(D, f)

\* Layered is inductive with TypeOK; SessionsStartClean also needs to know where
\* the old flags come from.
DeviceInv == TypeOK /\ Layered /\ Swept /\ SessionsStartClean

\* Whatever an accepted call leaves on was on and not taken down, or is one of
\* the flags it writes.
LEMMA CallLeaves ==
  ASSUME NEW c, c \in D.calls, Call(c)
  PROVE  /\ on' \subseteq ((on \ (c.clears \cup c.may)) \cup c.sets) \cup c.may
         /\ (on \ (c.clears \cup c.may)) \cup c.sets \subseteq on'
         /\ c.needs \subseteq on
         /\ c.bars \cap on = {}
         /\ dev' = dev
         /\ D' = D
  BY DEF Call, Accepted, After, D

\* A step is a call or leaves everything but closing alone.
LEMMA StepIsCall ==
  ASSUME [Next]_vars
  PROVE  \/ \E c \in D.calls : Call(c)
         \/ on' = on /\ old' = old /\ dev' = dev /\ D' = D
  BY DEF Next, vars, Use, StartClosing, TakeDown, Closers, D

\* The flags of an accepted call stay flags of the device.
LEMMA FlagsStep ==
  ASSUME TypeOK, [Next]_vars
  PROVE  TypeOK'
<1>1. closing' \in BOOLEAN
  BY DEF TypeOK, Next, vars, Use, Call, StartClosing, TakeDown
<1>2. CASE \E c \in D.calls : Call(c)
  <2>1. PICK c \in D.calls : Call(c)
    BY <1>2
  <2>2. c.sets \cup c.may \subseteq FlagsOf(D)
    BY <2>1 DEF FlagsOf
  <2>3. on' \subseteq FlagsOf(D) /\ dev' = dev /\ D' = D
    BY <2>1, <2>2, CallLeaves DEF TypeOK
  <2>4. old' \subseteq on'
    BY <2>1 DEF Call
  <2> QED
    BY <1>1, <2>3, <2>4 DEF TypeOK
<1>3. CASE on' = on /\ old' = old /\ dev' = dev /\ D' = D
  BY <1>1, <1>3 DEF TypeOK
<1> QED
  BY <1>2, <1>3, StepIsCall

\* A call of a well-formed device breaks no layer.
LEMMA LayerStep ==
  ASSUME TypeOK, Layered, [Next]_vars
  PROVE  Layered'
<1>1. CASE \E c \in D.calls : Call(c)
  <2>1. PICK c \in D.calls : Call(c)
    BY <1>1
  <2>2. SUFFICES ASSUME NEW p, p \in D.layers, p[1] \in on'
                 PROVE  p[2] \in on'
    BY <2>1, CallLeaves DEF Layered
  <2>3. KeepsLayer(D, c, p[1], p[2])
    BY <2>1, <2>2 DEF TypeOK, WellFormed
  <2>4. CASE p[1] \in c.sets \cup c.may
    <3>1. p[2] \notin (c.clears \cup c.may) \ c.sets
      BY <2>3, <2>4 DEF KeepsLayer
    <3>2. p[2] \in c.sets \/ p[2] \in on
      <4>1. p[2] \in c.sets \/ RestsOn(D, c, p[2])
        BY <2>3, <2>4 DEF KeepsLayer
      <4>2. CASE RestsOn(D, c, p[2])
        <5>1. PICK w \in c.needs : w = p[2] \/ <<w, p[2]>> \in D.layers
          BY <4>2 DEF RestsOn
        <5>2. w \in on
          BY <2>1, <5>1, CallLeaves
        <5> QED
          BY <5>1, <5>2 DEF Layered
      <4> QED
        BY <4>1, <4>2
    <3> QED
      BY <2>1, <3>1, <3>2, CallLeaves
  <2>5. CASE p[1] \notin c.sets \cup c.may
    <3>1. p[1] \in on /\ p[1] \notin c.clears
      BY <2>1, <2>2, <2>5, CallLeaves
    <3>2. p[2] \in on
      BY <2>2, <3>1 DEF Layered
    <3>3. p[1] \notin c.bars
      BY <2>1, <3>1, CallLeaves
    <3>4. p[2] \notin (c.clears \cup c.may) \ c.sets
      BY <2>3, <3>1, <3>3 DEF KeepsLayer
    <3> QED
      BY <2>1, <3>2, <3>4, CallLeaves
  <2> QED
    BY <2>4, <2>5
<1>2. CASE on' = on /\ old' = old /\ dev' = dev /\ D' = D
  BY <1>2 DEF Layered
<1> QED
  BY <1>1, <1>2, StepIsCall

\* The end of a session sweeps; every other call only takes away from what is old.
LEMMA SweptStep ==
  ASSUME TypeOK, Swept, [Next]_vars
  PROVE  Swept'
<1>1. CASE \E c \in D.calls : Call(c)
  <2>1. PICK c \in D.calls : Call(c)
    BY <1>1
  <2>2. SUFFICES ASSUME NEW f, f \in old', f \notin D.keeps
                 PROVE  f # D.session /\ ~ Ended(D, f)
    BY <2>1, CallLeaves DEF Swept, Ended
  <2>3. CASE EndsSession(on, on')
    <3>1. f \in on'
      BY <2>1, <2>2 DEF Call
    <3>2. D.session \in (c.clears \cup c.may) \ c.sets
      BY <2>1, <2>3, CallLeaves DEF EndsSession
    <3>3. f # D.session
      BY <2>3, <3>1 DEF EndsSession
    <3>4. f \notin (c.clears \cup c.bars) \ (c.sets \cup c.may)
      BY <2>1, <3>1, CallLeaves
    <3> QED
      BY <3>2, <3>3, <3>4 DEF Ended
  <2>4. CASE ~ EndsSession(on, on')
    <3>1. f \in old
      BY <2>1, <2>2, <2>4 DEF Call
    <3> QED
      BY <2>2, <3>1 DEF Swept
  <2> QED
    BY <2>3, <2>4
<1>2. CASE on' = on /\ old' = old /\ dev' = dev /\ D' = D
  BY <1>2 DEF Swept, Ended
<1> QED
  BY <1>1, <1>2, StepIsCall

\* A session that opens finds nothing old but what the device keeps.
LEMMA CleanStep ==
  ASSUME DeviceInv, [Next]_vars
  PROVE  SessionsStartClean'
<1> USE DEF DeviceInv
<1>1. CASE \E c \in D.calls : Call(c)
  <2>1. PICK c \in D.calls : Call(c)
    BY <1>1
  <2>2. SUFFICES ASSUME D.session \in on', NEW f, f \in old', f \notin D.keeps
                 PROVE  FALSE
    BY <2>1, CallLeaves DEF SessionsStartClean
  <2>3. f \in old /\ f \in on' /\ f \notin c.sets \cup c.may
    BY <2>1, <2>2 DEF Call, EndsSession
  <2>4. D.session \notin on
    BY <2>2, <2>3 DEF SessionsStartClean
  <2>5. D.session \in (c.sets \cup c.may) \ c.needs
    BY <2>1, <2>2, <2>4, CallLeaves
  <2>6. f \in on /\ f \in FlagsOf(D)
    BY <2>3 DEF TypeOK
  <2>7. ~ Opened(D, f)
    BY <2>1, <2>3, <2>5, CallLeaves DEF Opened
  <2>8. ~ Rests(D, f)
    <3>1. \A p \in D.layers : p[1] \in on => p[2] \in on
      BY DEF Layered
    <3> QED
      BY <2>4, <2>6, <3>1 DEF Rests
  <2>9. f # D.session /\ ~ Ended(D, f)
    BY <2>2, <2>3 DEF Swept
  <2>10. StartsClean(D, f)
    BY <2>2, <2>6, <2>9 DEF TypeOK, WellFormed
  <2> QED
    BY <2>7, <2>8, <2>9, <2>10 DEF StartsClean
<1>2. CASE on' = on /\ old' = old /\ dev' = dev /\ D' = D
  BY <1>2 DEF SessionsStartClean
<1> QED
  BY <1>1, <1>2, StepIsCall

-----------------------------------------------------------------------------
\* The invariant holds initially and of every step.
LEMMA DeviceInvariant == Catalogue /\ Spec => []DeviceInv
<1>1. Catalogue /\ Init => DeviceInv
  BY DEF Catalogue, Init, DeviceInv, TypeOK, Layered, Swept, SessionsStartClean, D
<1>2. DeviceInv /\ [Next]_vars => DeviceInv'
  BY FlagsStep, LayerStep, SweptStep, CleanStep DEF DeviceInv
<1> QED
  BY <1>1, <1>2, PTL DEF Spec

\* A device of well-formed calls never has a flag that is not its own.
THEOREM TypeCorrect == Catalogue /\ Spec => []TypeOK
<1>1. DeviceInv => TypeOK
  BY DEF DeviceInv
<1> QED
  BY <1>1, DeviceInvariant, PTL

\* No sequence of accepted calls breaks a layer, for every catalogue.
THEOREM LayersHold == Catalogue /\ Spec => []Layered
<1>1. DeviceInv => Layered
  BY DEF DeviceInv
<1> QED
  BY <1>1, DeviceInvariant, PTL

\* No session finds what an earlier one left, but for what its device keeps.
THEOREM SessionsAreClean == Catalogue /\ Spec => []SessionsStartClean
<1>1. DeviceInv => SessionsStartClean
  BY DEF DeviceInv
<1> QED
  BY <1>1, DeviceInvariant, PTL

-----------------------------------------------------------------------------
\* EventLoop: sequences that list nothing twice.
Listed(s) == TheLoop!ToSet(s)
Distinct(s) == TheLoop!IsInjective(s)

LEMMA EmptyList == Listed(<< >>) = {} /\ Distinct(<< >>)
BY DEF Listed, Distinct, TheLoop!ToSet, TheLoop!IsInjective

\* A function on 1..n is a sequence.
LEMMA FunctionsAreSequences ==
  ASSUME NEW S, NEW n \in Nat, NEW f \in [1 .. n -> S]
  PROVE  f \in Seq(S)
OBVIOUS

\* What SetTop takes apart.
LEMMA FrontIsSeq ==
  ASSUME NEW S, NEW s \in Seq(S), s # << >>
  PROVE  TheLoop!Front(s) \in Seq(S) /\ TheLoop!Last(s) \in S
  <1>1. Len(s) \in Nat \ {0} /\ DOMAIN s = 1 .. Len(s)
    BY EmptySeq, LenProperties
  <1>2. \A i \in 1 .. Len(s) - 1 : s[i] \in S
    BY <1>1, ElementOfSeq
  <1>3. 1 \in Int /\ Len(s) - 1 \in Int
    BY <1>1
  <1>4. SubSeq(s, 1, Len(s) - 1) \in Seq(S)
    BY <1>2, <1>3, SubSeqProperties
  <1>5. s[Len(s)] \in S
    BY <1>1, ElementOfSeq
  <1> QED
    BY <1>4, <1>5 DEF TheLoop!Front, TheLoop!Last

\* A new element keeps a list distinct.
LEMMA AppendedList ==
  ASSUME NEW S, NEW s \in Seq(S), NEW e \in S
  PROVE  e \notin Listed(s) /\ Distinct(s) => Distinct(Append(s, e))
  <1> DEFINE a == Append(s, e)
             n == Len(s)
  <1>1. /\ n \in Nat /\ DOMAIN s = 1 .. n /\ DOMAIN a = 1 .. n + 1
        /\ a[n + 1] = e /\ \A i \in 1 .. n : a[i] = s[i]
    BY AppendProperties, LenProperties
  <1> HIDE DEF a, n
  <1>2. \A i \in 1 .. n + 1 : i \in 1 .. n \/ i = n + 1
    BY <1>1
  <1>3. ASSUME Distinct(s), e \notin Listed(s), NEW i \in DOMAIN a, NEW j \in DOMAIN a, a[i] = a[j]
        PROVE  i = j
    <2>1. \A k \in 1 .. n : s[k] # e
      BY <1>1, <1>3 DEF Listed, TheLoop!ToSet
    <2> QED
      BY <1>1, <1>2, <1>3, <2>1 DEF Distinct, TheLoop!IsInjective
  <1> QED
    BY <1>3 DEF Distinct, TheLoop!IsInjective, a

\* The head of a distinct list is not in its tail.
LEMMA TailList ==
  ASSUME NEW S, NEW s \in Seq(S), s # << >>, Distinct(s)
  PROVE  /\ Head(s) \in S /\ Tail(s) \in Seq(S) /\ Distinct(Tail(s))
         /\ Head(s) \notin Listed(Tail(s))
         /\ Listed(s) = Listed(Tail(s)) \cup {Head(s)}
  <1>1. /\ Head(s) \in S /\ Tail(s) \in Seq(S) /\ Len(Tail(s)) = Len(s) - 1
        /\ \A i \in 1 .. Len(Tail(s)) : Tail(s)[i] = s[i + 1]
    BY HeadTailProperties
  <1>2. Len(s) \in Nat \ {0} /\ Head(s) = s[1]
    BY EmptySeq
  <1>3. DOMAIN s = 1 .. Len(s) /\ DOMAIN Tail(s) = 1 .. Len(s) - 1
    BY <1>1, <1>2, LenProperties
  <1>4. \A i \in DOMAIN Tail(s) : i + 1 \in DOMAIN s /\ i + 1 # 1 /\ Tail(s)[i] = s[i + 1]
    BY <1>1, <1>2, <1>3
  <1>5. \A i \in DOMAIN s : i = 1 \/ (i - 1 \in DOMAIN Tail(s) /\ i = (i - 1) + 1)
    BY <1>2, <1>3
  <1>6. Distinct(Tail(s))
    <2>1. ASSUME NEW i \in DOMAIN Tail(s), NEW j \in DOMAIN Tail(s), Tail(s)[i] = Tail(s)[j]
          PROVE  i = j
      <3>1. i + 1 = j + 1
        BY <1>4, <2>1 DEF Distinct, TheLoop!IsInjective
      <3> QED
        BY <1>2, <1>3, <3>1
    <2> QED
      BY <2>1 DEF Distinct, TheLoop!IsInjective
  <1>7. Head(s) \notin Listed(Tail(s))
    <2>1. ASSUME NEW i \in DOMAIN Tail(s) PROVE Tail(s)[i] # Head(s)
      BY <1>2, <1>3, <1>4 DEF Distinct, TheLoop!IsInjective
    <2> QED
      BY <2>1 DEF Listed, TheLoop!ToSet
  <1>8. Listed(s) = Listed(Tail(s)) \cup {Head(s)}
    <2>1. ASSUME NEW i \in DOMAIN s PROVE s[i] \in Listed(Tail(s)) \cup {Head(s)}
      BY <1>2, <1>4, <1>5 DEF Listed, TheLoop!ToSet
    <2>2. ASSUME NEW i \in DOMAIN Tail(s) PROVE Tail(s)[i] \in Listed(s)
      BY <1>4 DEF Listed, TheLoop!ToSet
    <2>3. Head(s) \in Listed(s)
      BY <1>2, <1>3 DEF Listed, TheLoop!ToSet
    <2> QED
      BY <2>1, <2>2, <2>3 DEF Listed, TheLoop!ToSet
  <1> QED
    BY <1>1, <1>6, <1>7, <1>8

\* RemoveAt takes one element and no other from a distinct list.
LEMMA RemovedList ==
  ASSUME NEW S, NEW s \in Seq(S), Distinct(s), NEW k \in DOMAIN s
  PROVE  /\ TheLoop!RemoveAt(s, k) \in Seq(S) /\ Distinct(TheLoop!RemoveAt(s, k))
         /\ Listed(TheLoop!RemoveAt(s, k)) = Listed(s) \ {s[k]}
  <1> DEFINE n == Len(s)
             a == SubSeq(s, 1, k - 1)
             b == SubSeq(s, k + 1, n)
             r == a \o b
             from(i) == IF i < k THEN i ELSE i + 1
  <1>1. n \in Nat /\ DOMAIN s = 1 .. n /\ k \in 1 .. n /\ \A i \in 1 .. n : s[i] \in S
    BY LenProperties, ElementOfSeq
  <1>2. a \in Seq(S) /\ Len(a) = k - 1 /\ \A i \in 1 .. k - 1 : a[i] = s[i]
    <2>1. 1 \in Int /\ k - 1 \in Int /\ \A i \in 1 .. k - 1 : s[i] \in S
      BY <1>1
    <2>2. /\ a \in Seq(S) /\ Len(a) = IF 1 <= k - 1 THEN (k - 1) - 1 + 1 ELSE 0
          /\ \A i \in 1 .. (k - 1) - 1 + 1 : a[i] = s[1 + i - 1]
      BY <2>1, SubSeqProperties
    <2> HIDE DEF a, b, n
    <2>3. (k - 1) - 1 + 1 = k - 1 /\ Len(a) = k - 1
      BY <1>1, <2>2
    <2>4. \A i \in 1 .. k - 1 : 1 + i - 1 = i
      BY <1>1
    <2> QED
      BY <2>2, <2>3, <2>4
  <1>3. b \in Seq(S) /\ Len(b) = n - k /\ \A i \in 1 .. n - k : b[i] = s[k + i]
    <2>1. k + 1 \in Int /\ n \in Int /\ \A i \in k + 1 .. n : s[i] \in S
      BY <1>1
    <2>2. /\ b \in Seq(S) /\ Len(b) = IF k + 1 <= n THEN n - (k + 1) + 1 ELSE 0
          /\ \A i \in 1 .. n - (k + 1) + 1 : b[i] = s[(k + 1) + i - 1]
      BY <2>1, SubSeqProperties
    <2> HIDE DEF a, b, n
    <2>3. n - (k + 1) + 1 = n - k /\ Len(b) = n - k
      BY <1>1, <2>2
    <2>4. \A i \in 1 .. n - k : (k + 1) + i - 1 = k + i
      BY <1>1
    <2> QED
      BY <2>2, <2>3, <2>4
  <1> HIDE DEF a, b, n
  <1>4. /\ r \in Seq(S) /\ Len(r) = n - 1
        /\ \A i \in 1 .. n - 1 : r[i] = IF i <= k - 1 THEN a[i] ELSE b[i - (k - 1)]
    <2>1. /\ a \o b \in Seq(S) /\ Len(a \o b) = Len(a) + Len(b)
          /\ \A i \in 1 .. Len(a) + Len(b) :
               (a \o b)[i] = IF i <= Len(a) THEN a[i] ELSE b[i - Len(a)]
      BY <1>2, <1>3, ConcatProperties
    <2>2. Len(a) + Len(b) = n - 1
      BY <1>1, <1>2, <1>3
    <2> QED
      BY <1>2, <2>1, <2>2
  <1>5. DOMAIN r = 1 .. n - 1
    BY <1>4, LenProperties
  <1> HIDE DEF r
  <1>6. \A i \in 1 .. n - 1 : from(i) \in 1 .. n /\ from(i) # k /\ r[i] = s[from(i)]
    <2>1. ASSUME NEW i \in 1 .. n - 1, i <= k - 1 PROVE from(i) = i /\ r[i] = s[i] /\ i \in 1 .. n
      <3>1. r[i] = a[i] /\ i \in 1 .. k - 1
        BY <1>4, <2>1
      <3> QED
        BY <1>1, <1>2, <2>1, <3>1
    <2>2. ASSUME NEW i \in 1 .. n - 1, ~ (i <= k - 1)
          PROVE  from(i) = i + 1 /\ r[i] = s[i + 1] /\ i + 1 \in 1 .. n
      <3>1. r[i] = b[i - (k - 1)] /\ i - (k - 1) \in 1 .. n - k /\ k + (i - (k - 1)) = i + 1
        BY <1>1, <1>4, <2>2
      <3>2. b[i - (k - 1)] = s[k + (i - (k - 1))]
        BY <1>3, <3>1
      <3> QED
        BY <1>1, <2>2, <3>1, <3>2
    <2> QED
      BY <1>1, <2>1, <2>2
  <1>7. \A j \in 1 .. n : j # k => \E i \in 1 .. n - 1 : j = from(i)
    <2>1. ASSUME NEW j \in 1 .. n, j < k PROVE j \in 1 .. n - 1 /\ j = from(j)
      BY <1>1, <2>1
    <2>2. ASSUME NEW j \in 1 .. n, k < j PROVE j - 1 \in 1 .. n - 1 /\ j = from(j - 1)
      BY <1>1, <2>2
    <2> QED
      BY <1>1, <2>1, <2>2
  <1>8. \A i, j \in 1 .. n - 1 : from(i) = from(j) => i = j
    BY <1>1
  <1> HIDE DEF from
  <1>9. Distinct(r)
    BY <1>1, <1>5, <1>6, <1>8 DEF Distinct, TheLoop!IsInjective
  <1>10. Listed(r) = Listed(s) \ {s[k]}
    <2>1. ASSUME NEW i \in 1 .. n - 1 PROVE r[i] \in Listed(s) \ {s[k]}
      BY <1>1, <1>6 DEF Listed, TheLoop!ToSet, Distinct, TheLoop!IsInjective
    <2>2. ASSUME NEW j \in 1 .. n, s[j] # s[k] PROVE s[j] \in Listed(r)
      <3>1. PICK i \in 1 .. n - 1 : j = from(i)
        BY <1>7, <2>2
      <3> QED
        BY <1>5, <1>6, <3>1 DEF Listed, TheLoop!ToSet
    <2> QED
      BY <1>1, <1>5, <2>1, <2>2 DEF Listed, TheLoop!ToSet
  <1> QED
    BY <1>4, <1>9, <1>10 DEF TheLoop!RemoveAt, r, a, b, n

\* OncePerPost, of one post: each handler registered throughout it is called,
\* running or to do, and no two of these at once.
GoodFrames ==
  {f \in [todo : Seq(Handlers), running : SUBSET Handlers,
          called : SUBSET Handlers, throughout : SUBSET Handlers] :
     /\ f.throughout \subseteq f.called \cup f.running \cup Listed(f.todo)
     /\ f.called \cap f.running = {}
     /\ Listed(f.todo) \cap (f.called \cup f.running) = {}
     /\ Distinct(f.todo)}

LoopInv == /\ handlers \in Seq(Handlers) /\ Distinct(handlers)
           /\ posts \in [Posters -> Seq(GoodFrames)]

LEMMA LoopInit == TheLoop!Init => LoopInv
  <1>1. << >> \in Seq(Handlers) /\ << >> \in Seq(GoodFrames)
    BY EmptySeq
  <1> QED
    BY <1>1, EmptyList DEF TheLoop!Init, LoopInv

\* Fewer handlers registered throughout the posts keep them good.
LEMMA Narrowed ==
  ASSUME LoopInv, NEW H,
         NEW p, p = [u \in Posters |-> [i \in DOMAIN posts[u] |->
                       [posts[u][i] EXCEPT !.throughout = @ \ H]]]
  PROVE  p \in [Posters -> Seq(GoodFrames)]
  <1>1. ASSUME NEW u \in Posters
        PROVE  [i \in DOMAIN posts[u] |-> [posts[u][i] EXCEPT !.throughout = @ \ H]]
                 \in Seq(GoodFrames)
    <2>1. posts[u] \in Seq(GoodFrames)
      BY <1>1 DEF LoopInv
    <2>2. Len(posts[u]) \in Nat /\ DOMAIN posts[u] = 1 .. Len(posts[u])
      BY <2>1, LenProperties
    <2>3. ASSUME NEW f \in GoodFrames PROVE [f EXCEPT !.throughout = @ \ H] \in GoodFrames
      BY DEF GoodFrames
    <2>4. \A i \in DOMAIN posts[u] : posts[u][i] \in GoodFrames
      BY <2>1, <2>2, ElementOfSeq
    <2>5. [i \in DOMAIN posts[u] |-> [posts[u][i] EXCEPT !.throughout = @ \ H]]
            \in [1 .. Len(posts[u]) -> GoodFrames]
      BY <2>2, <2>3, <2>4
    <2> QED
      BY <2>2, <2>5, FunctionsAreSequences
  <1> QED
    BY <1>1

\* The registered handlers are distinct, so a snapshot of them is; from there
\* every step of a post moves one handler from to do to running to called.
LEMMA LoopStepKeeps == ASSUME LoopInv, [TheLoop!Next]_TheLoop!vars PROVE LoopInv'
  <1> USE DEF LoopInv
  <1>1. CASE UNCHANGED TheLoop!vars
    BY <1>1 DEF TheLoop!vars
  <1>2. ASSUME NEW t \in Posters, NEW h \in Handlers, TheLoop!Register(t, h) PROVE LoopInv'
    <2>1. handlers' = Append(handlers, h) /\ h \notin Listed(handlers) /\ posts' = posts
      BY <1>2 DEF TheLoop!Register, Listed
    <2>2. handlers' \in Seq(Handlers)
      BY <2>1, AppendProperties
    <2>3. Distinct(handlers')
      BY <2>1, AppendedList
    <2> QED
      BY <2>1, <2>2, <2>3 DEF Distinct
  <1>3. ASSUME NEW t \in Posters, NEW h \in Handlers, TheLoop!Unregister(t, h) PROVE LoopInv'
    <2>1. PICK i \in DOMAIN handlers : handlers' = TheLoop!RemoveAt(handlers, i)
      BY <1>3 DEF TheLoop!Unregister
    <2>2. handlers' \in Seq(Handlers) /\ Distinct(handlers')
      BY <2>1, RemovedList
    <2>3. posts' \in [Posters -> Seq(GoodFrames)]
      BY <1>3, Narrowed DEF TheLoop!Unregister
    <2> QED
      BY <2>2, <2>3 DEF Distinct
  <1>4. ASSUME NEW t \in Posters, TheLoop!Reset(t) PROVE LoopInv'
    <2>1. handlers' = << >> /\ handlers' \in Seq(Handlers) /\ Distinct(handlers')
      BY <1>4, EmptySeq, EmptyList DEF TheLoop!Reset
    <2>2. posts' = [u \in Posters |-> [i \in DOMAIN posts[u] |->
                      [posts[u][i] EXCEPT !.throughout = {}]]]
      BY <1>4 DEF TheLoop!Reset
    <2>3. ASSUME NEW u \in Posters, NEW i \in DOMAIN posts[u]
          PROVE  [posts[u][i] EXCEPT !.throughout = {}]
                   = [posts[u][i] EXCEPT !.throughout = @ \ Handlers]
      <3>1. posts[u][i] \in GoodFrames
        BY ElementOfSeq, LenProperties
      <3>2. posts[u][i].throughout \ Handlers = {}
        BY <3>1 DEF GoodFrames
      <3> QED
        BY <3>1, <3>2 DEF GoodFrames
    <2>4. posts' = [u \in Posters |-> [i \in DOMAIN posts[u] |->
                      [posts[u][i] EXCEPT !.throughout = @ \ Handlers]]]
      BY <2>2, <2>3
    <2>5. posts' \in [Posters -> Seq(GoodFrames)]
      BY <2>4, Narrowed
    <2> QED
      BY <2>1, <2>5 DEF Distinct
  <1>5. ASSUME NEW t \in Posters, NEW f \in GoodFrames, posts[t] # << >>,
               handlers' = handlers, TheLoop!SetTop(t, f)
        PROVE  LoopInv'
    <2>1. TheLoop!Front(posts[t]) \in Seq(GoodFrames)
      BY <1>5, FrontIsSeq
    <2>2. Append(TheLoop!Front(posts[t]), f) \in Seq(GoodFrames)
      BY <2>1, AppendProperties
    <2>3. posts' = [posts EXCEPT ![t] = Append(TheLoop!Front(posts[t]), f)]
      BY <1>5 DEF TheLoop!SetTop
    <2>4. posts' \in [Posters -> Seq(GoodFrames)]
      BY <2>2, <2>3
    <2> QED
      BY <1>5, <2>4 DEF Distinct
  <1>6. ASSUME NEW t \in Posters, posts[t] # << >> PROVE TheLoop!Top(t) \in GoodFrames
    BY <1>6, FrontIsSeq DEF TheLoop!Top
  <1>7. ASSUME NEW t \in Posters, TheLoop!CallHandler(t) PROVE LoopInv'
    <2> DEFINE f == TheLoop!Top(t)
               g == [f EXCEPT !.running = {Head(f.todo)}, !.todo = Tail(@)]
    <2>1. /\ posts[t] # << >> /\ f.running = {} /\ f.todo # << >>
          /\ TheLoop!SetTop(t, g) /\ handlers' = handlers
      BY <1>7 DEF TheLoop!CallHandler
    <2>2. f \in GoodFrames
      BY <1>6, <2>1
    <2> HIDE DEF f
    <2>3. g \in GoodFrames
      <3>1. f.todo \in Seq(Handlers) /\ Distinct(f.todo)
        BY <2>2 DEF GoodFrames
      <3>2. /\ Head(f.todo) \in Handlers /\ Tail(f.todo) \in Seq(Handlers)
            /\ Distinct(Tail(f.todo)) /\ Head(f.todo) \notin Listed(Tail(f.todo))
            /\ Listed(f.todo) = Listed(Tail(f.todo)) \cup {Head(f.todo)}
        BY <2>1, <3>1, TailList
      <3> QED
        BY <2>1, <2>2, <3>2 DEF GoodFrames
    <2> QED
      BY <1>5, <2>1, <2>3
  <1>8. ASSUME NEW t \in Posters, TheLoop!HandlerReturns(t) PROVE LoopInv'
    <2> DEFINE f == TheLoop!Top(t)
               g == [f EXCEPT !.running = {}, !.called = @ \cup f.running]
    <2>1. posts[t] # << >> /\ TheLoop!SetTop(t, g) /\ handlers' = handlers
      BY <1>8 DEF TheLoop!HandlerReturns
    <2>2. f \in GoodFrames
      BY <1>6, <2>1
    <2> HIDE DEF f
    <2>3. g \in GoodFrames
      BY <2>2 DEF GoodFrames
    <2> QED
      BY <1>5, <2>1, <2>3
  <1>9. ASSUME NEW t \in Posters, TheLoop!PostReturns(t) PROVE LoopInv'
    <2>1. TheLoop!Front(posts[t]) \in Seq(GoodFrames)
      BY <1>9, FrontIsSeq DEF TheLoop!PostReturns
    <2>2. posts' \in [Posters -> Seq(GoodFrames)]
      BY <1>9, <2>1 DEF TheLoop!PostReturns
    <2> QED
      BY <1>9, <2>2 DEF TheLoop!PostReturns, Distinct
  <1>10. ASSUME NEW t \in Posters, TheLoop!Post(t) PROVE LoopInv'
    <2> DEFINE f == TheLoop!Frame(handlers, {}, {}, TheLoop!ToSet(handlers))
    <2>1. posts' = [posts EXCEPT ![t] = Append(@, f)] /\ handlers' = handlers
      BY <1>10 DEF TheLoop!Post, TheLoop!Snapshot
    <2>2. f \in GoodFrames
      <3>1. Listed(handlers) \subseteq Handlers
        BY ElementOfSeq, LenProperties DEF Listed, TheLoop!ToSet
      <3> QED
        BY <3>1 DEF GoodFrames, TheLoop!Frame, Listed
    <2> HIDE DEF f
    <2>3. Append(posts[t], f) \in Seq(GoodFrames)
      BY <2>2, AppendProperties
    <2>4. posts' \in [Posters -> Seq(GoodFrames)]
      BY <2>1, <2>3
    <2> QED
      BY <2>1, <2>4 DEF Distinct
  <1> QED
    BY <1>1, <1>2, <1>3, <1>4, <1>7, <1>8, <1>9, <1>10 DEF TheLoop!Next, TheLoop!Steps

\* The invariant is enough.
LEMMA LoopInvIsOncePerPost == LoopInv => OncePerPost
  <1> SUFFICES ASSUME LoopInv, NEW t \in Posters, NEW i \in DOMAIN posts[t]
               PROVE  posts[t][i] \in GoodFrames
    BY DEF OncePerPost, TheLoop!OncePerPost, GoodFrames, Listed, Distinct
  <1> QED
    BY ElementOfSeq, LenProperties DEF LoopInv

-----------------------------------------------------------------------------
\* GpioLock.
PinTypes ==
  /\ level \in {0, 1}
  /\ want \in [Threads -> {0, 1}] /\ was \in [Threads -> {0, 1}]
  /\ phase \in [Threads -> {"out", "lock", "read", "write", "leave", "fire", "handler"}]
  /\ stolen \in BOOLEAN

\* While no lock has been stolen, what a thread has read is still the level.
ReadIsFresh == ~ stolen => \A t \in Threads : phase[t] = "write" => was[t] = level

PinInv == PinTypes /\ ReadIsFresh /\ ExclusiveUntilStolen

\* The thread inside is the owner, so no other one writes behind its back.
LEMMA PinKeeps == ASSUME PinInv, [ThePin!Next]_ThePin!vars PROVE PinInv'
  <1> USE DEF PinInv, PinTypes, ReadIsFresh, ExclusiveUntilStolen,
              ThePin!ExclusiveUntilStolen, ThePin!Inside, ThePin!Goto
  <1>0. CASE UNCHANGED ThePin!vars
    BY <1>0 DEF ThePin!vars
  <1> SUFFICES ASSUME ThePin!Next PROVE PinInv'
    BY <1>0
  <1> PICK t \in Threads :
           (\E l \in {0, 1} : ThePin!Call(t, l)) \/ ThePin!Lock(t) \/ ThePin!Steps(t)
    BY DEF ThePin!Next, ThePin!Levels
  <1>1. CASE \E l \in {0, 1} : ThePin!Call(t, l)
    BY <1>1 DEF ThePin!Call
  <1>2. CASE ThePin!Lock(t)
    BY <1>2 DEF ThePin!Lock
  <1>3. CASE ThePin!Read(t)
    BY <1>3 DEF ThePin!Read
  <1>4. CASE ThePin!Write(t)
    BY <1>4 DEF ThePin!Write
  <1>5. CASE ThePin!Fire(t) \/ ThePin!Leave(t)
    BY <1>5 DEF ThePin!Fire, ThePin!Leave, ThePin!Unlock
  <1>6. CASE ThePin!HandlerReturns(t)
    BY <1>6 DEF ThePin!HandlerReturns, ThePin!Unlock
  <1> QED
    BY <1>1, <1>2, <1>3, <1>4, <1>5, <1>6 DEF ThePin!Steps

LEMMA PinInit == ThePin!Init => PinInv
BY DEF ThePin!Init, PinInv, PinTypes, ReadIsFresh, ExclusiveUntilStolen,
       ThePin!ExclusiveUntilStolen, ThePin!Inside

-----------------------------------------------------------------------------
\* Framebuffer: arithmetic.
Positive == Nat \ {0}

LEMMA Products ==
  ASSUME NEW a \in Nat, NEW b \in Nat, NEW n \in Nat, a <= b
  PROVE  a * n \in Nat /\ b * n \in Nat /\ a * n <= b * n /\ (a + 1) * n = a * n + n
OBVIOUS

\* A row ends before the next one begins.
LEMMA RowsAscend ==
  ASSUME NEW n \in Positive, NEW a \in Nat, NEW b \in Nat,
         NEW i \in 0 .. n - 1, NEW j \in 0 .. n - 1, a < b
  PROVE  a * n + i < b * n + j
  <1>1. a + 1 <= b /\ a + 1 \in Nat /\ a <= a + 1 /\ n \in Nat
    BY DEF Positive
  <1>2. (a + 1) * n <= b * n /\ a * n \in Nat /\ b * n \in Nat
    BY <1>1, Products
  <1>3. (a + 1) * n = a * n + n
    BY <1>1, Products
  <1> QED
    BY <1>1, <1>2, <1>3

\* Two pixels of one place in a row-major order are one pixel.
LEMMA RowsDiffer ==
  ASSUME NEW n \in Positive, NEW x \in 0 .. n - 1, NEW y \in Nat,
         NEW u \in 0 .. n - 1, NEW v \in Nat,
         y * n + x = v * n + u
  PROVE  x = u /\ y = v
  <1>1. y * n + x \in Int /\ v * n + u \in Int
    BY DEF Positive
  <1>2. ~ (y < v)
    <2>1. y < v => y * n + x < v * n + u
      BY RowsAscend
    <2> QED BY <2>1, <1>1
  <1>3. ~ (v < y)
    <2>1. v < y => v * n + u < y * n + x
      BY RowsAscend
    <2> QED BY <2>1, <1>1
  <1>4. y = v
    BY <1>2, <1>3
  <1>5. y * n \in Int
    BY DEF Positive
  <1> QED
    BY <1>4, <1>5

\* Division with a remainder, and that it is the only one.
LEMMA Divides ==
  ASSUME NEW n \in Positive, NEW a \in Nat
  PROVE  /\ a \div n \in Nat /\ a % n \in 0 .. n - 1
         /\ a = ((a \div n) * n) + (a % n)
BY DEF Positive

LEMMA Quotient ==
  ASSUME NEW n \in Positive, NEW q \in Nat, NEW r \in 0 .. n - 1
  PROVE  (q * n + r) \div n = q /\ (q * n + r) % n = r
  <1> DEFINE a == q * n + r
  <1>1. a \in Nat BY DEF Positive
  <1>2. a = ((a \div n) * n) + (a % n) /\ a \div n \in Nat /\ a % n \in 0 .. n - 1
    BY <1>1, Divides
  <1> HIDE DEF a
  <1>3. (a \div n) = q /\ (a % n) = r
    <2>1. q * n + r = ((a \div n) * n) + (a % n)
      BY <1>2 DEF a
    <2> QED BY <2>1, <1>2, RowsDiffer
  <1> QED
    BY <1>3 DEF a

\* Any panel PanelsAssumption allows.
Panel == [kind : TheDisplay!Kinds, w : Positive, h : Positive, layout : TheDisplay!Layouts]

LEMMA Regroup ==
  ASSUME NEW a \in Nat, NEW b \in Nat, NEW c \in Nat
  PROVE  a * (b * c) = (b * a) * c /\ (a + b) * c = (a * c) + (b * c)
         /\ (b * a) * c \in Nat /\ a * b = b * a
OBVIOUS

LEMMA Distribute ==
  ASSUME NEW a \in Nat, NEW b \in Nat, NEW c \in Nat
  PROVE  (a + b) * c = (a * c) + (b * c)
OBVIOUS

LEMMA Associate ==
  ASSUME NEW a \in Nat, NEW b \in Nat, NEW c \in Nat
  PROVE  a * (b * c) = (a * b) * c
OBVIOUS

LEMMA Multiples ==
  ASSUME NEW n \in Positive, NEW a \in Nat, a % n = 0
  PROVE  a \div n \in Nat /\ a = (a \div n) * n
  <1>1. a = ((a \div n) * n) + (a % n) /\ a \div n \in Nat
    BY Divides
  <1>2. (a \div n) * n \in Nat
    BY <1>1 DEF Positive
  <1> QED
    BY <1>1, <1>2

\* The quotients of 0 .. k * n - 1 are those below k.
LEMMA QuotientsBelow ==
  ASSUME NEW n \in Positive, NEW k \in Nat, NEW x \in 0 .. (k * n) - 1
  PROVE  x \div n \in 0 .. k - 1
  <1>1. x \in Nat /\ k * n \in Nat /\ n \in Nat
    BY DEF Positive
  <1>2. x \div n \in Nat /\ x = ((x \div n) * n) + (x % n) /\ x % n \in Nat
    BY <1>1, Divides
  <1>3. ~ (k <= x \div n)
    <2>1. SUFFICES ASSUME k <= x \div n PROVE FALSE
      OBVIOUS
    <2>2. k * n <= (x \div n) * n /\ (x \div n) * n \in Nat
      BY <1>1, <1>2, <2>1, Products
    <2> QED
      BY <1>1, <1>2, <2>2
  <1> QED
    BY <1>2, <1>3

\* Quotient and remainder tell a number.
LEMMA QuotientsAgree ==
  ASSUME NEW n \in Positive, NEW a \in Nat, NEW b \in Nat,
         a \div n = b \div n, a % n = b % n
  PROVE  a = b
  <1>1. a = ((a \div n) * n) + (a % n)
    BY Divides
  <1>2. b = ((b \div n) * n) + (b % n)
    BY Divides
  <1> QED
    BY <1>1, <1>2

\* A panel whose pixels lie one after the other, row by row.
LEMMA StreamIsExact ==
  ASSUME NEW p \in Panel, NEW r, p.kind = "stream", Bits \in Positive,
         NEW x, NEW y, NEW u, NEW v,
         <<x, y>> \in TheDisplay!Screen(p, r), <<u, v>> \in TheDisplay!Screen(p, r),
         TheDisplay!Cell(p, r, x, y) = TheDisplay!Cell(p, r, u, v)
  PROVE  x = u /\ y = v
  <1>1. /\ x \in 0 .. p.w - 1 /\ u \in 0 .. p.w - 1 /\ y \in Nat /\ v \in Nat
        /\ p.w \in Positive
    BY DEF TheDisplay!Screen, TheDisplay!Turned, TheDisplay!Wide, TheDisplay!High, Panel, Positive
  <1> DEFINE a == TheDisplay!RowMajor(p.w, x, y)
             b == TheDisplay!RowMajor(p.w, u, v)
  <1>2. <<a \div Bits, a % Bits>> = <<b \div Bits, b % Bits>>
    BY DEF TheDisplay!Cell
  <1>3. a \in Nat /\ b \in Nat
    BY <1>1 DEF TheDisplay!RowMajor, Positive
  <1> HIDE DEF a, b
  <1>4. a = b
    BY <1>2, <1>3, QuotientsAgree
  <1>5. y * p.w + x = v * p.w + u
    BY <1>4 DEF a, b, TheDisplay!RowMajor
  <1> QED
    BY <1>1, <1>5, RowsDiffer

\* A panel of words, in row-major order; a turned one is square.
LEMMA WordsAreExact ==
  ASSUME NEW p \in Panel, NEW r, p.kind \in {"words", "tft", "canvas"},
         TheDisplay!Exact(p, r),
         NEW x, NEW y, NEW u, NEW v,
         <<x, y>> \in TheDisplay!Screen(p, r), <<u, v>> \in TheDisplay!Screen(p, r)
  PROVE  /\ TheDisplay!Kept(p, x, y)
         /\ TheDisplay!Cell(p, r, x, y) = TheDisplay!Cell(p, r, u, v) => x = u /\ y = v
  <1>1. /\ x \in 0 .. p.w - 1 /\ u \in 0 .. p.w - 1
        /\ y \in 0 .. p.h - 1 /\ v \in 0 .. p.h - 1
        /\ p.w \in Positive /\ p.h \in Positive
    BY DEF TheDisplay!Screen, TheDisplay!Turned, TheDisplay!Wide, TheDisplay!High,
           TheDisplay!Exact, Panel
  <1>2. TheDisplay!Kept(p, x, y)
    BY <1>1 DEF TheDisplay!Kept, TheDisplay!Wide, TheDisplay!High, Positive
  <1>3. ASSUME TheDisplay!Cell(p, r, x, y) = TheDisplay!Cell(p, r, u, v)
        PROVE  x = u /\ y = v
    <2>1. <<y * p.w + x, 0>> = <<v * p.w + u, 0>>
      BY <1>3 DEF TheDisplay!Cell, TheDisplay!Word, TheDisplay!RowMajor
    <2>2. y * p.w + x = v * p.w + u
      BY <2>1
    <2> QED
      BY <1>1, <2>2, RowsDiffer
  <1> QED
    BY <1>2, <1>3

\* A page is Bits rows; the panel is full pages.
LEMMA PagesAreExact ==
  ASSUME NEW p \in Panel, NEW r, p.kind = "page", Bits \in Positive,
         TheDisplay!Exact(p, r),
         NEW x, NEW y, NEW u, NEW v,
         <<x, y>> \in TheDisplay!Screen(p, r), <<u, v>> \in TheDisplay!Screen(p, r)
  PROVE  /\ TheDisplay!Kept(p, x, y)
         /\ TheDisplay!Cell(p, r, x, y) = TheDisplay!Cell(p, r, u, v) => x = u /\ y = v
  <1>1. /\ x \in 0 .. p.w - 1 /\ u \in 0 .. p.w - 1
        /\ y \in 0 .. p.h - 1 /\ v \in 0 .. p.h - 1
        /\ p.w \in Positive /\ p.h \in Positive /\ p.h % Bits = 0
    BY DEF TheDisplay!Screen, TheDisplay!Turned, TheDisplay!Wide, TheDisplay!High,
           TheDisplay!Exact, Panel
  <1> DEFINE k == p.h \div Bits
  <1>2. k \in Nat /\ p.h = k * Bits
    BY <1>1, Multiples DEF Positive
  <1> HIDE DEF k
  <1>3. y \div Bits \in 0 .. k - 1 /\ v \div Bits \in Nat /\ y \in Nat /\ v \in Nat
    BY <1>1, <1>2, QuotientsBelow, Divides
  <1>4. TheDisplay!Kept(p, x, y)
    <2>1. p.w * p.h = (k * p.w) * Bits + 0
      <3>1. p.w * (k * Bits) = (k * p.w) * Bits /\ (k * p.w) * Bits \in Nat
        BY <1>1, <1>2, Regroup DEF Positive
      <3> QED
        BY <1>2, <3>1
    <2>2. k * p.w \in Nat /\ 0 \in 0 .. Bits - 1
      BY <1>1, <1>2 DEF Positive
    <2>3. (p.w * p.h) \div Bits = k * p.w
      BY <2>1, <2>2, Quotient
    <2>4. (y \div Bits) * p.w + x < k * p.w + 0
      BY <1>1, <1>2, <1>3, RowsAscend DEF Positive
    <2>5. (y \div Bits) * p.w + x < k * p.w
      BY <2>2, <2>4
    <2> QED
      BY <2>3, <2>5 DEF TheDisplay!Kept, TheDisplay!RowMajor
  <1>5. ASSUME TheDisplay!Cell(p, r, x, y) = TheDisplay!Cell(p, r, u, v)
        PROVE  x = u /\ y = v
    <2>1. <<(y \div Bits) * p.w + x, y % Bits>> = <<(v \div Bits) * p.w + u, v % Bits>>
      BY <1>5 DEF TheDisplay!Cell, TheDisplay!RowMajor
    <2>2. (y \div Bits) * p.w + x = (v \div Bits) * p.w + u /\ y % Bits = v % Bits
      BY <2>1
    <2>3. x = u /\ y \div Bits = v \div Bits
      BY <1>1, <1>3, <2>2, RowsDiffer
    <2> QED
      BY <1>3, <2>2, <2>3, QuotientsAgree
  <1> QED
    BY <1>4, <1>5

\* The bits of a line from left to right; a line is full bytes.
LEMMA PaperIsExact ==
  ASSUME NEW p \in Panel, NEW r, p.kind = "paper", Bits \in Positive,
         TheDisplay!Exact(p, r),
         NEW x, NEW y, NEW u, NEW v,
         <<x, y>> \in TheDisplay!Screen(p, r), <<u, v>> \in TheDisplay!Screen(p, r),
         TheDisplay!Cell(p, r, x, y) = TheDisplay!Cell(p, r, u, v)
  PROVE  x = u /\ y = v
  <1> DEFINE width == IF TheDisplay!Turned(p, r) THEN p.h ELSE p.w
             k == width \div Bits
  <1>1. /\ x \in 0 .. width - 1 /\ u \in 0 .. width - 1 /\ y \in Nat /\ v \in Nat
        /\ width \in Positive /\ width % Bits = 0
    BY DEF TheDisplay!Screen, TheDisplay!Wide, TheDisplay!High, TheDisplay!Exact,
           Panel, Positive
  <1>2. <<(y * width + x) \div Bits, Bits - 1 - (x % Bits)>>
          = <<(v * width + u) \div Bits, Bits - 1 - (u % Bits)>>
    BY DEF TheDisplay!Cell, TheDisplay!RowMajor
  <1> HIDE DEF width
  <1>3. k \in Nat /\ width = k * Bits
    BY <1>1, Multiples DEF Positive
  <1> HIDE DEF k
  <1>4. ASSUME NEW a \in 0 .. width - 1, NEW b \in Nat
        PROVE  /\ (b * width + a) \div Bits = b * k + (a \div Bits)
               /\ a \div Bits \in 0 .. k - 1 /\ a % Bits \in 0 .. Bits - 1 /\ a \in Nat
    <2>1. a \div Bits \in 0 .. k - 1 /\ a \in Nat
      BY <1>3, QuotientsBelow
    <2>2. a % Bits \in 0 .. Bits - 1 /\ a = ((a \div Bits) * Bits) + (a % Bits)
      BY <2>1, Divides
    <2>3. b * width = (b * k) * Bits
      <3>1. Bits \in Nat
        BY DEF Positive
      <3>2. b * (k * Bits) = (b * k) * Bits
        BY <1>3, <3>1, Associate
      <3> QED
        BY <1>3, <3>2
    <2>4. (b * k + (a \div Bits)) * Bits = (b * k) * Bits + (a \div Bits) * Bits
      <3> DEFINE c == b * k
                 d == a \div Bits
      <3>1. c \in Nat /\ d \in Nat /\ Bits \in Nat
        BY <1>3, <2>1 DEF Positive
      <3> HIDE DEF c, d
      <3>2. (c + d) * Bits = c * Bits + d * Bits
        BY <3>1, Distribute
      <3> QED
        BY <3>2 DEF c, d
    <2>5. b * width + a = (b * k + (a \div Bits)) * Bits + (a % Bits)
      <3>1. /\ (b * k) * Bits \in Nat /\ (a \div Bits) * Bits \in Nat
            /\ b * k + (a \div Bits) \in Nat
        BY <1>3, <2>1 DEF Positive
      <3> QED
        BY <2>2, <2>3, <2>4, <3>1
    <2>6. b * k + (a \div Bits) \in Nat
      BY <1>3, <2>1
    <2> QED
      BY <2>1, <2>2, <2>5, <2>6, Quotient
  <1>5. y * k + (x \div Bits) = v * k + (u \div Bits)
    BY <1>1, <1>2, <1>4
  <1>6. k \in Positive
    BY <1>1, <1>3, <1>4 DEF Positive
  <1>7. y = v /\ x \div Bits = u \div Bits
    BY <1>1, <1>4, <1>5, <1>6, RowsDiffer
  <1>8. x % Bits = u % Bits
    <2>1. Bits - 1 - (x % Bits) = Bits - 1 - (u % Bits)
      BY <1>2
    <2>2. x % Bits \in 0 .. Bits - 1 /\ u % Bits \in 0 .. Bits - 1 /\ Bits \in Nat
      BY <1>1, <1>4 DEF Positive
    <2> QED
      BY <2>1, <2>2
  <1> QED
    BY <1>1, <1>4, <1>7, <1>8, QuotientsAgree

\* A strip goes the other way, or does not.
Flip(c, n, a) == IF c THEN n - 1 - a ELSE a

LEMMA FlipIsExact ==
  ASSUME NEW c, NEW n \in Positive, NEW a \in 0 .. n - 1
  PROVE  /\ Flip(c, n, a) \in 0 .. n - 1
         /\ \A b \in 0 .. n - 1 : Flip(c, n, a) = Flip(c, n, b) => a = b
BY DEF Flip, Positive

\* The index of a pixel within its tile, of the pixel <<i, j>> of a tile.
InTile(p, i, j) ==
  LET l == p.layout
      cx == Flip(l.right, p.w, i)
      cy == Flip(l.bottom, p.h, j)
      zx == Flip(l.zigzag /\ cy % 2 = 1, p.w, cx)
      zy == Flip(l.zigzag /\ cx % 2 = 1, p.h, cy)
  IN  IF l.columns THEN cx * p.h + zy ELSE cy * p.w + zx

\* The places of m rows of n.
LEMMA RowsFill ==
  ASSUME NEW n \in Positive, NEW m \in Positive, NEW a \in 0 .. m - 1, NEW i \in 0 .. n - 1
  PROVE  a * n + i \in 0 .. (m * n) - 1
  <1>1. a * n + i < m * n + 0
    BY RowsAscend DEF Positive
  <1>2. a * n \in Nat /\ m * n \in Nat
    BY DEF Positive
  <1> QED
    BY <1>1, <1>2

\* Whatever a layout flips, the pixels of a tile have an index each: the flips of
\* zigzag go by the coordinate that is not flipped.
LEMMA TilesAreExact ==
  ASSUME NEW p \in Panel, NEW i \in 0 .. p.w - 1, NEW j \in 0 .. p.h - 1
  PROVE  /\ InTile(p, i, j) \in 0 .. (p.w * p.h) - 1
         /\ \A k \in 0 .. p.w - 1, m \in 0 .. p.h - 1 :
              InTile(p, i, j) = InTile(p, k, m) => i = k /\ j = m
  <1>1. p.w \in Positive /\ p.h \in Positive /\ p.w * p.h = p.h * p.w
    BY DEF Panel, Positive
  <1> DEFINE l == p.layout
             cx(a) == Flip(l.right, p.w, a)
             cy(b) == Flip(l.bottom, p.h, b)
             zx(a, b) == Flip(l.zigzag /\ cy(b) % 2 = 1, p.w, cx(a))
             zy(a, b) == Flip(l.zigzag /\ cx(a) % 2 = 1, p.h, cy(b))
  <1>2. \A a \in 0 .. p.w - 1 : cx(a) \in 0 .. p.w - 1 /\ cx(a) \in Nat
    BY <1>1, FlipIsExact
  <1>3. \A b \in 0 .. p.h - 1 : cy(b) \in 0 .. p.h - 1 /\ cy(b) \in Nat
    BY <1>1, FlipIsExact
  <1>4. \A a, k \in 0 .. p.w - 1 : cx(a) = cx(k) => a = k
    BY <1>1, FlipIsExact
  <1>5. \A b, m \in 0 .. p.h - 1 : cy(b) = cy(m) => b = m
    BY <1>1, FlipIsExact
  <1>6. \A a \in 0 .. p.w - 1, b \in 0 .. p.h - 1 :
          zx(a, b) \in 0 .. p.w - 1 /\ zy(a, b) \in 0 .. p.h - 1
    BY <1>1, <1>2, <1>3, FlipIsExact
  <1>7. \A a, k \in 0 .. p.w - 1, b, m \in 0 .. p.h - 1 :
          cy(b) = cy(m) /\ zx(a, b) = zx(k, m) => cx(a) = cx(k)
    BY <1>1, <1>2, <1>3, FlipIsExact
  <1>8. \A a, k \in 0 .. p.w - 1, b, m \in 0 .. p.h - 1 :
          cx(a) = cx(k) /\ zy(a, b) = zy(k, m) => cy(b) = cy(m)
    BY <1>1, <1>2, <1>3, FlipIsExact
  <1>9. \A a \in 0 .. p.w - 1, b \in 0 .. p.h - 1 :
          InTile(p, a, b) = IF l.columns THEN cx(a) * p.h + zy(a, b) ELSE cy(b) * p.w + zx(a, b)
    BY DEF InTile
  <1> HIDE DEF l, cx, cy, zx, zy
  <1>10. CASE l.columns
    <2>1. InTile(p, i, j) \in 0 .. (p.w * p.h) - 1
      <3>1. cx(i) \in 0 .. p.w - 1 /\ zy(i, j) \in 0 .. p.h - 1
        BY <1>2, <1>6
      <3>2. cx(i) * p.h + zy(i, j) \in 0 .. (p.w * p.h) - 1
        BY <1>1, <3>1, RowsFill
      <3>3. InTile(p, i, j) = cx(i) * p.h + zy(i, j)
        BY <1>9, <1>10
      <3> QED
        BY <3>2, <3>3
    <2>2. ASSUME NEW k \in 0 .. p.w - 1, NEW m \in 0 .. p.h - 1,
                 InTile(p, i, j) = InTile(p, k, m)
          PROVE  i = k /\ j = m
      <3>1. cx(i) * p.h + zy(i, j) = cx(k) * p.h + zy(k, m)
        BY <1>9, <1>10, <2>2
      <3>2. /\ cx(i) \in Nat /\ zy(i, j) \in 0 .. p.h - 1
            /\ cx(k) \in Nat /\ zy(k, m) \in 0 .. p.h - 1
        BY <1>2, <1>6
      <3>3. cx(i) = cx(k) /\ zy(i, j) = zy(k, m)
        BY <1>1, <3>1, <3>2, RowsDiffer
      <3> QED
        BY <1>4, <1>5, <1>8, <3>3
    <2> QED
      BY <2>1, <2>2
  <1>11. CASE ~ l.columns
    <2>1. InTile(p, i, j) \in 0 .. (p.h * p.w) - 1
      <3>1. cy(j) \in 0 .. p.h - 1 /\ zx(i, j) \in 0 .. p.w - 1
        BY <1>3, <1>6
      <3>2. cy(j) * p.w + zx(i, j) \in 0 .. (p.h * p.w) - 1
        BY <1>1, <3>1, RowsFill
      <3>3. InTile(p, i, j) = cy(j) * p.w + zx(i, j)
        BY <1>9, <1>11
      <3> QED
        BY <3>2, <3>3
    <2>2. ASSUME NEW k \in 0 .. p.w - 1, NEW m \in 0 .. p.h - 1,
                 InTile(p, i, j) = InTile(p, k, m)
          PROVE  i = k /\ j = m
      <3>1. cy(j) * p.w + zx(i, j) = cy(m) * p.w + zx(k, m)
        BY <1>9, <1>11, <2>2
      <3>2. /\ cy(j) \in Nat /\ zx(i, j) \in 0 .. p.w - 1
            /\ cy(m) \in Nat /\ zx(k, m) \in 0 .. p.w - 1
        BY <1>3, <1>6
      <3>3. cy(j) = cy(m) /\ zx(i, j) = zx(k, m)
        BY <1>1, <3>1, <3>2, RowsDiffer
      <3> QED
        BY <1>4, <1>5, <1>7, <3>3
    <2> QED
      BY <1>1, <2>1, <2>2
  <1> QED
    BY <1>10, <1>11

\* The tiles have a number each, and so have the LEDs of all tiles.
LEMMA StripsAreExact ==
  ASSUME NEW p \in Panel, NEW r, p.kind = "strip",
         TheDisplay!Exact(p, r),
         NEW x, NEW y, NEW u, NEW v,
         <<x, y>> \in TheDisplay!Screen(p, r), <<u, v>> \in TheDisplay!Screen(p, r)
  PROVE  /\ TheDisplay!Kept(p, x, y)
         /\ TheDisplay!Cell(p, r, x, y) = TheDisplay!Cell(p, r, u, v) => x = u /\ y = v
  <1> DEFINE tx == p.layout.tilesX
             ty == p.layout.tilesY
             n == p.w * p.h
  <1>1. p.w \in Positive /\ p.h \in Positive /\ tx \in Positive /\ ty \in Positive
    BY DEF Panel, Positive, TheDisplay!Layouts
  <1>2. /\ x \in 0 .. (tx * p.w) - 1 /\ u \in 0 .. (tx * p.w) - 1
        /\ y \in 0 .. (ty * p.h) - 1 /\ v \in 0 .. (ty * p.h) - 1
        /\ tx * p.w = p.w * tx /\ ty * p.h = p.h * ty
        /\ tx * p.w \in Nat /\ ty * p.h \in Nat
    <2>1. tx * p.w = p.w * tx /\ ty * p.h = p.h * ty /\ tx * p.w \in Nat /\ ty * p.h \in Nat
      BY <1>1 DEF Positive
    <2>2. TheDisplay!Wide(p) = tx * p.w /\ TheDisplay!High(p) = ty * p.h
      BY <2>1 DEF TheDisplay!Wide, TheDisplay!High
    <2>3. TheDisplay!Screen(p, r)
            = (0 .. TheDisplay!Wide(p) - 1) \X (0 .. TheDisplay!High(p) - 1)
      BY DEF TheDisplay!Screen, TheDisplay!Exact
    <2> QED
      BY <2>1, <2>2, <2>3
  <1>3. TheDisplay!Kept(p, x, y)
    BY <1>2 DEF TheDisplay!Kept, TheDisplay!Wide, TheDisplay!High
  <1>4. ASSUME NEW a \in 0 .. (tx * p.w) - 1, NEW b \in 0 .. (ty * p.h) - 1
        PROVE  /\ a \in Nat /\ b \in Nat
               /\ a \div p.w \in 0 .. tx - 1 /\ b \div p.h \in 0 .. ty - 1
               /\ a % p.w \in 0 .. p.w - 1 /\ b % p.h \in 0 .. p.h - 1
               /\ InTile(p, a % p.w, b % p.h) \in 0 .. n - 1
               /\ (b \div p.h) * tx + (a \div p.w) \in Nat
               /\ TheDisplay!Cell(p, r, a, b)
                   = <<((b \div p.h) * tx + (a \div p.w)) * n + InTile(p, a % p.w, b % p.h), 0>>
    <2>1. a \in Nat /\ b \in Nat
      OBVIOUS
    <2>2. a \div p.w \in 0 .. tx - 1 /\ tx \in Nat
      BY <1>1, QuotientsBelow DEF Positive
    <2>3. b \div p.h \in 0 .. ty - 1 /\ ty \in Nat
      BY <1>1, QuotientsBelow DEF Positive
    <2>4. a % p.w \in 0 .. p.w - 1 /\ b % p.h \in 0 .. p.h - 1
      BY <1>1, <2>1, Divides
    <2>5. InTile(p, a % p.w, b % p.h) \in 0 .. n - 1
      BY <2>4, TilesAreExact
    <2>6. (b \div p.h) * tx + (a \div p.w) \in Nat
      BY <1>1, <2>2, <2>3 DEF Positive
    <2>7. TheDisplay!Cell(p, r, a, b)
            = <<((b \div p.h) * tx + (a \div p.w)) * n + InTile(p, a % p.w, b % p.h), 0>>
      BY DEF TheDisplay!Cell, TheDisplay!Word, TheDisplay!StripIndex, TheDisplay!RowMajor,
             InTile, Flip
    <2> QED
      BY <2>1, <2>2, <2>3, <2>4, <2>5, <2>6, <2>7
  <1>5. n \in Positive
    BY <1>1 DEF Positive
  <1> HIDE DEF tx, ty, n
  <1>6. ASSUME TheDisplay!Cell(p, r, x, y) = TheDisplay!Cell(p, r, u, v)
        PROVE  x = u /\ y = v
    <2> DEFINE s == (y \div p.h) * tx + (x \div p.w)
               t == (v \div p.h) * tx + (u \div p.w)
    <2>1. s * n + InTile(p, x % p.w, y % p.h) = t * n + InTile(p, u % p.w, v % p.h)
      BY <1>2, <1>4, <1>6
    <2>2. s \in Nat /\ t \in Nat
      BY <1>2, <1>4
    <2> HIDE DEF s, t
    <2>3. s = t /\ InTile(p, x % p.w, y % p.h) = InTile(p, u % p.w, v % p.h)
      BY <1>2, <1>4, <1>5, <2>1, <2>2, RowsDiffer
    <2>4. x % p.w = u % p.w /\ y % p.h = v % p.h
      BY <1>2, <1>4, <2>3, TilesAreExact
    <2>5. y \div p.h = v \div p.h /\ x \div p.w = u \div p.w
      BY <1>1, <1>2, <1>4, <2>3, RowsDiffer DEF s, t
    <2> QED
      BY <1>1, <1>2, <1>4, <2>4, <2>5, QuotientsAgree
  <1> QED
    BY <1>3, <1>6

\* Where the mapping is Exact, no early return drops a pixel of the screen and
\* no two pixels of it share a cell.
LEMMA PixelsDiffer ==
  ASSUME NEW p \in Panel, NEW r, Bits \in Positive, TheDisplay!Exact(p, r),
         NEW q \in TheDisplay!Screen(p, r), NEW s \in TheDisplay!Screen(p, r)
  PROVE  /\ TheDisplay!Kept(p, q[1], q[2])
         /\ TheDisplay!Cell(p, r, q[1], q[2]) = TheDisplay!Cell(p, r, s[1], s[2]) => q = s
  <1>1. q = <<q[1], q[2]>> /\ s = <<s[1], s[2]>>
    BY DEF TheDisplay!Screen
  <1> DEFINE x == q[1]
             y == q[2]
             u == s[1]
             v == s[2]
  <1>2. <<x, y>> \in TheDisplay!Screen(p, r) /\ <<u, v>> \in TheDisplay!Screen(p, r)
    BY <1>1
  <1>3. p.kind \in TheDisplay!Kinds
    BY DEF Panel
  <1> SUFFICES /\ TheDisplay!Kept(p, x, y)
               /\ TheDisplay!Cell(p, r, x, y) = TheDisplay!Cell(p, r, u, v) => x = u /\ y = v
    BY <1>1
  <1> HIDE DEF x, y, u, v
  <1>4. CASE p.kind \in {"words", "tft", "canvas"}
    BY <1>2, <1>4, WordsAreExact
  <1>5. CASE p.kind = "page"
    BY <1>2, <1>5, PagesAreExact
  <1>6. CASE p.kind = "stream"
    BY <1>2, <1>6, StreamIsExact DEF TheDisplay!Kept
  <1>7. CASE p.kind = "paper"
    BY <1>2, <1>7, PaperIsExact DEF TheDisplay!Kept
  <1>8. CASE p.kind = "strip"
    BY <1>2, <1>8, StripsAreExact
  <1> QED
    BY <1>3, <1>4, <1>5, <1>6, <1>7, <1>8 DEF TheDisplay!Kinds

\* DrawIsExact is inductive: a rotation makes the image what the buffer shows.
DisplayInv == panel \in Panels /\ DrawIsExact

LEMMA PanelFacts ==
  ASSUME panel \in Panels
  PROVE  panel \in Panel /\ Bits \in Positive
BY BoardAssumption DEF TheDisplay!PanelsAssumption, Panel, Positive

LEMMA DisplayInit == TheDisplay!Init => DisplayInv
BY DEF TheDisplay!Init, DisplayInv, DrawIsExact, TheDisplay!DrawIsExact, TheDisplay!Shown

\* A draw changes the cell of its own pixel, which is no other one's.
LEMMA DisplayStepKeeps ==
  ASSUME DisplayInv, [TheDisplay!Next]_TheDisplay!fbVars
  PROVE  DisplayInv'
  <1> USE DEF DisplayInv, DrawIsExact, TheDisplay!DrawIsExact
  <1>1. CASE UNCHANGED TheDisplay!fbVars
    BY <1>1 DEF TheDisplay!fbVars, TheDisplay!Shown
  <1>2. ASSUME NEW q \in TheDisplay!Screen(panel, rotation), NEW b \in BOOLEAN,
               TheDisplay!Draw(q, b)
        PROVE  DisplayInv'
    <2>1. panel' = panel /\ rotation' = rotation
      BY <1>2 DEF TheDisplay!Draw
    <2> SUFFICES ASSUME TheDisplay!Exact(panel, rotation)
                 PROVE  image' = TheDisplay!Shown(panel, rotation, lit')
      BY <2>1 DEF TheDisplay!Shown
    <2> DEFINE c(s) == TheDisplay!Cell(panel, rotation, s[1], s[2])
               S == TheDisplay!Screen(panel, rotation)
    <2>2. \A s \in S : TheDisplay!Kept(panel, s[1], s[2]) /\ (c(s) = c(q) => s = q)
      BY PanelFacts, PixelsDiffer
    <2>3. \A o : TheDisplay!Shown(panel, rotation, o) = {s \in S : c(s) \in o}
      BY <2>2 DEF TheDisplay!Shown
    <2>4. image = {s \in S : c(s) \in lit}
      BY <2>3
    <2>5. CASE b
      <3>1. lit' = lit \union {c(q)} /\ image' = image \union {q}
        BY <1>2, <2>2, <2>5 DEF TheDisplay!Draw
      <3> HIDE DEF c, S
      <3> QED
        BY <2>2, <2>3, <2>4, <3>1 DEF S
    <2>6. CASE ~ b
      <3>1. lit' = lit \ {c(q)} /\ image' = image \ {q}
        BY <1>2, <2>2, <2>6 DEF TheDisplay!Draw
      <3> HIDE DEF c, S
      <3> QED
        BY <2>2, <2>3, <2>4, <3>1 DEF S
    <2> QED
      BY <2>5, <2>6
  <1>3. CASE TheDisplay!Clear
    BY <1>3 DEF TheDisplay!Clear, TheDisplay!Shown
  <1>4. ASSUME NEW r \in 0 .. 3, TheDisplay!Rotate(r) PROVE DisplayInv'
    BY <1>4 DEF TheDisplay!Rotate
  <1> QED
    BY <1>1, <1>2, <1>3, <1>4 DEF TheDisplay!Next

-----------------------------------------------------------------------------
\* Every behaviour of a board is one of each of its parts.
THEOREM BoardIsItsParts ==
  BoardSpec => Spec /\ TheLoop!Spec /\ ThePin!Spec /\ TheDisplay!Spec
  <1>1. BoardInit => Init /\ TheLoop!Init /\ ThePin!Init /\ TheDisplay!Init
    BY DEF BoardInit
  <1>2. [BoardNext]_boardVars => [Next]_vars
    BY DEF BoardNext, boardVars, DeviceStep, LoopStep, PinStep, DisplayStep
  <1>3. [BoardNext]_boardVars => [TheLoop!Next]_TheLoop!vars
    BY DEF BoardNext, boardVars, DeviceStep, LoopStep, PinStep, DisplayStep,
           loop, TheLoop!vars
  <1>4. [BoardNext]_boardVars => [ThePin!Next]_ThePin!vars
    BY DEF BoardNext, boardVars, DeviceStep, LoopStep, PinStep, DisplayStep,
           pin, ThePin!vars
  <1>5. [BoardNext]_boardVars => [TheDisplay!Next]_TheDisplay!fbVars
    BY DEF BoardNext, boardVars, DeviceStep, LoopStep, PinStep, DisplayStep,
           display, TheDisplay!fbVars
  <1> QED
    BY <1>1, <1>2, <1>3, <1>4, <1>5, PTL
       DEF BoardSpec, Spec, TheLoop!Spec, ThePin!Spec, TheDisplay!Spec

\* Whatever handlers register, unregister and post from any number of threads,
\* to any depth, esp_event_post calls every handler that stays registered
\* throughout it, and none twice.
THEOREM PostsCallOnce == BoardSpec => []OncePerPost
  <1>1. TheLoop!Init => LoopInv
    BY LoopInit
  <1>2. LoopInv /\ [TheLoop!Next]_TheLoop!vars => LoopInv'
    BY LoopStepKeeps
  <1>3. LoopInv => OncePerPost
    BY LoopInvIsOncePerPost
  <1> QED
    BY <1>1, <1>2, <1>3, BoardIsItsParts, PTL DEF TheLoop!Spec

\* Until the second unlock of gpio_set_level hits the lock of another thread, one
\* thread at a time is between lock and unlock and every edge calls the handler
\* once, for any number of threads.
THEOREM GpioIsExclusive == BoardSpec => []ExclusiveUntilStolen
  <1>1. ThePin!Init => PinInv
    BY PinInit
  <1>2. PinInv /\ [ThePin!Next]_ThePin!vars => PinInv'
    BY PinKeeps
  <1>3. PinInv => ExclusiveUntilStolen
    BY DEF PinInv
  <1> QED
    BY <1>1, <1>2, <1>3, BoardIsItsParts, PTL DEF ThePin!Spec

\* On a panel of any kind, size, tiling and layout that keeps to Exact, getPixel
\* reads what drawPixel last wrote there, in every pixel.
THEOREM DrawsAreExact == BoardSpec => []DrawIsExact
  <1>1. TheDisplay!Init => DisplayInv
    BY DisplayInit
  <1>2. DisplayInv /\ [TheDisplay!Next]_TheDisplay!fbVars => DisplayInv'
    BY DisplayStepKeeps
  <1>3. DisplayInv => DrawIsExact
    BY DEF DisplayInv
  <1> QED
    BY <1>1, <1>2, <1>3, BoardIsItsParts, PTL DEF TheDisplay!Spec
=============================================================================
