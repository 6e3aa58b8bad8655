------------------------------- MODULE Device -------------------------------
(***************************************************************************)
(* One device of the catalogue and a program that calls it in any order.    *)
(***************************************************************************)
EXTENDS DeviceTable

CONSTANT Devices          \* a function from names to devices

VARIABLES
  dev,        \* the device this behaviour is about
  on,         \* its flags that are on
  old,        \* those that were on when its last session ended and that no
              \* call has set since
  closing     \* the program only takes down from here on

vars == <<dev, on, old, closing>>

D == Devices[dev]

\* The device is well formed, its flags are flags of its calls, and what is old is
\* on.
TypeOK ==
  /\ dev \in DOMAIN Devices
  /\ WellFormed(D)
  /\ on \subseteq FlagsOf(D)
  /\ old \subseteq on
  /\ closing \in BOOLEAN

Init ==
  /\ dev \in DOMAIN Devices
  /\ on = {}
  /\ old = {}
  /\ closing = FALSE

Accepted(c) == c.needs \subseteq on /\ c.bars \cap on = {}

\* What an accepted call can leave on.
After(c, s) == {((s \ (c.clears \cup c.may)) \cup c.sets) \cup m : m \in SUBSET c.may}

EndsSession(s, t) == D.session \in s /\ D.session \notin t

Call(c) ==
  /\ Accepted(c)
  /\ on' \in After(c, on)
  /\ old' = IF EndsSession(on, on') THEN on' ELSE (old \cap on') \ (c.sets \cup c.may)
  /\ UNCHANGED <<dev, closing>>

Use == ~closing /\ \E c \in D.calls : Call(c)

StartClosing ==
  /\ ~closing
  /\ closing' = TRUE
  /\ UNCHANGED <<dev, on, old>>

\* A closing call that takes something down; a setter is called with the
\* default value.
TakeDown ==
  /\ closing
  /\ \E c \in Closers(D) : Call(c) /\ on' = (on \ (c.clears \cup c.may)) \cup c.sets /\ on' # on

Next == Use \/ StartClosing \/ TakeDown

Spec == Init /\ [][Next]_vars /\ WF_vars(TakeDown)

-----------------------------------------------------------------------------
\* No sequence of calls leaves an upper part of a device on over a lower part that
\* is off: a started bus that is not installed, a channel of no unit, data in a
\* buffer that is gone.
Layered == \A p \in D.layers : p[1] \in on => p[2] \in on

\* Whatever sequence of calls a session was, the next one starts from what its
\* opening call sets and from what the device is known to keep.
SessionsStartClean == D.session \in on => old \subseteq D.keeps

\* A program that only takes down closes the device in the end, from whatever
\* state and in whatever order it makes the calls: no closing call waits for
\* another that the device refuses.
TeardownCompletes == closing ~> D.session \notin on
=============================================================================
