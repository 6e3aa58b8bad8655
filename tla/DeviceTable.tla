---------------------------- MODULE DeviceTable ----------------------------
(***************************************************************************)
(* The vocabulary of the device tables.  A driver, client, file system or   *)
(* sensor of the emulator is a singleton or an object whose methods test    *)
(* and set a few pieces of state.  A device is what tells those pieces      *)
(* apart: the set of FLAGS that are on, a flag being a BOOLEAN of the code  *)
(* ("installed"), a container that is not empty ("rxQueue"), or a value     *)
(* that is not its default ("count").  Every flag is off in a fresh device. *)
(*                                                                          *)
(* A call is accepted when all of needs is on and none of bars; then it     *)
(* turns sets on, clears off, and leaves each flag of may on or off as the  *)
(* arguments and the data decide.  A call that is not accepted returns its  *)
(* error and changes nothing.  Two calls of one name are the two branches   *)
(* of one function.                                                         *)
(*                                                                          *)
(* A row lists the calls that change a flag: what only reads, waits or      *)
(* prints is left out, and setters that store values nothing tests are one  *)
(* flag ("settings", "callbacks").  A handle is used between the call that  *)
(* makes it and the one that deletes it.  "reset" is the reset of the       *)
(* tests; a reset the program calls is "resetAll", "resetSensor" and so on. *)
(* A flag whose value in a fresh device is TRUE is named for its opposite   *)
(* ("noData", "disabled").                                                  *)
(***************************************************************************)

Op(name, needs, bars, sets, clears) ==
  [name |-> name, needs |-> needs, bars |-> bars,
   sets |-> sets, clears |-> clears, may |-> {}]

\* Repeating the call is harmless.
Set(name, needs, sets) == Op(name, needs, {}, sets, {})
Clear(name, needs, clears) == Op(name, needs, {}, {}, clears)
\* The call is refused when what it sets is on already.
Once(name, needs, sets) == Op(name, needs, sets, sets, {})
\* A setter: the value it stores is the default or another one.
Put(name, needs, may) == [Op(name, needs, {}, {}, {}) EXCEPT !.may = may]
\* A consumer: it needs an element of the container and may take the last.
Take(name, needs, from) == [Op(name, needs \cup {from}, {}, {}, {}) EXCEPT !.may = {from}]
\* A call that sets some flags and stores values in others.
Begin(name, needs, sets, may) == [Op(name, needs, {}, sets, {}) EXCEPT !.may = may]

(***************************************************************************)
(* A device: its calls; its layers, the pairs <<upper, lower>> of flags of   *)
(* which the upper must never be on without the lower; the flag that is on  *)
(* while it is open ("" where nothing opens it); and what it keeps of one   *)
(* session for the next.                                                    *)
(***************************************************************************)
Device(calls, layers, session, keeps) ==
  [calls |-> calls, layers |-> layers, session |-> session, keeps |-> keeps]

\* A device without sessions.
Part(calls, layers) == Device(calls, layers, "", {})

Over(uppers, lower) == {<<u, lower>> : u \in uppers}

FlagsOf(d) == UNION {c.needs \cup c.bars \cup c.sets \cup c.clears \cup c.may : c \in d.calls}

\* The calls that end a session, and those that only take something down, the
\* tests' reset apart.
Closers(d) ==
  {c \in d.calls : c.name # "reset" /\ (c.sets = {} \/ d.session \in c.clears \ c.sets)}

\* No call can break a layer: what turns the upper on needs, sets or rests on the
\* lower, and what turns the lower off turns the upper off or is barred by it.
RestsOn(d, c, l) == \E w \in c.needs : w = l \/ <<w, l>> \in d.layers

KeepsLayer(d, c, u, l) ==
  LET mayLose == (c.clears \cup c.may) \ c.sets
  IN  /\ u \in c.sets \cup c.may => l \notin mayLose /\ (l \in c.sets \/ RestsOn(d, c, l))
      /\ l \in mayLose => \/ u \in c.clears \ (c.sets \cup c.may)
                         \/ u \in c.bars \ (c.sets \cup c.may)

\* What is not kept rests on the session, or is written by every call that opens
\* one, or is off after every call that ends one.
Rests(d, f) == \/ <<f, d.session>> \in d.layers
               \/ \E w \in FlagsOf(d) : <<f, w>> \in d.layers /\ <<w, d.session>> \in d.layers

Opened(d, f) == \A c \in d.calls :
  d.session \in (c.sets \cup c.may) \ c.needs => f \in c.clears \cup c.sets \cup c.may

Ended(d, f) == \A c \in d.calls :
  d.session \in (c.clears \cup c.may) \ c.sets =>
    f \in (c.clears \cup c.bars) \ (c.sets \cup c.may)

StartsClean(d, f) == Rests(d, f) \/ Opened(d, f) \/ Ended(d, f)

WellFormed(d) ==
  /\ \A p \in d.layers : p \in FlagsOf(d) \X FlagsOf(d)
  /\ \A c \in d.calls, p \in d.layers : KeepsLayer(d, c, p[1], p[2])
  /\ \A f \in FlagsOf(d) \ (d.keeps \cup {d.session}) : StartsClean(d, f)
=============================================================================
