------------------------------- MODULE Ticker -------------------------------
(***************************************************************************)
(* One Ticker of include/Ticker.h: a thread that sleeps for the interval    *)
(* and calls the callback, until it is detached or, behind once, has fired. *)
(* One thread attaches and detaches it; the callback may do so too, and     *)
(* then joins its own thread, which ends the process.  A sleep may end at   *)
(* any time: nothing here depends on how long it is.                        *)
(***************************************************************************)
EXTENDS Naturals

CONSTANTS Callbacks,   \* what a ticker may be attached to
          MaxFires     \* where fire_count_ stops counting here

VARIABLES
  running, once, fires, callback,  \* the fields
  call,        \* what the controller is inside: see the steps
  wants,       \* the arguments of its attach, {} in a detach
  worker,      \* "none", "top", "sleeps", "calls" or "ended"
  calling,     \* the callback the worker is in, {} when in none
  terminated   \* std::terminate was called

vars == <<running, once, fires, callback, call, wants, worker, calling, terminated>>

Init == /\ running = FALSE /\ once = FALSE /\ fires = 0
        /\ callback = {} /\ calling = {}
        /\ call = "none" /\ wants = {}
        /\ worker = "none" /\ terminated = FALSE

Attachments == [callback : Callbacks, once : BOOLEAN]

-----------------------------------------------------------------------------
(***************************************************************************)
(* The controller: detach, and attach or once, which begin with a detach.   *)
(***************************************************************************)
Begin(w) ==
  /\ ~ terminated /\ call = "none"
  /\ call' = "join" /\ wants' = w
  /\ running' = FALSE
  /\ UNCHANGED <<once, fires, callback, worker, calling, terminated>>

\* Mutant of Joined: the thread is left to itself.
LeftAlone == TRUE

Joined == worker \in {"none", "ended"}

\* The rest of detach, which is all of it when nothing is to be attached.
Join ==
  /\ ~ terminated /\ call = "join" /\ Joined
  /\ worker' = "none"
  /\ once' = FALSE /\ fires' = 0
  /\ call' = IF wants = {} THEN "none" ELSE "set"
  /\ UNCHANGED <<running, callback, wants, calling, terminated>>

\* attach, attach_ms, once and once_ms.
SetAndSpawn ==
  /\ ~ terminated /\ call = "set"
  /\ \E w \in wants : callback' = {w.callback} /\ once' = w.once
  /\ running' = TRUE
  /\ worker' = "top"
  /\ call' = "none" /\ wants' = {}
  /\ UNCHANGED <<fires, calling, terminated>>

-----------------------------------------------------------------------------
(***************************************************************************)
(* The worker.                                                             *)
(***************************************************************************)
Top ==
  /\ ~ terminated /\ worker = "top"
  /\ worker' = IF running THEN "sleeps" ELSE "ended"
  /\ UNCHANGED <<running, once, fires, callback, call, wants, calling, terminated>>

Wake ==
  /\ ~ terminated /\ worker = "sleeps"
  /\ IF running
     THEN worker' = "calls" /\ calling' = callback
     ELSE worker' = "ended" /\ UNCHANGED calling
  /\ UNCHANGED <<running, once, fires, callback, call, wants, terminated>>

Again == ~ once

CallbackReturns ==
  /\ ~ terminated /\ worker = "calls"
  /\ fires' = IF fires < MaxFires THEN fires + 1 ELSE fires
  /\ calling' = {}
  /\ worker' = IF Again THEN "top" ELSE "ended"
  /\ running' = (running /\ Again)
  /\ UNCHANGED <<once, callback, call, wants, terminated>>

\* The callback attaches or detaches its ticker: join refuses to wait for the
\* thread that calls it, and nothing catches what it throws.
CallbackDetaches ==
  /\ ~ terminated /\ worker = "calls"
  /\ running' = FALSE
  /\ terminated' = TRUE
  /\ UNCHANGED <<once, fires, callback, call, wants, worker, calling>>

Detach == Begin({})
Attach == \E a \in Attachments : Begin({a})
Controls == Join \/ SetAndSpawn
Works == Top \/ Wake \/ CallbackReturns

Next == Attach \/ Detach \/ Controls \/ Works \/ CallbackDetaches

\* Threads run on, sleeps end and callbacks return.
Fairness == WF_vars(Controls) /\ WF_vars(Works)

Spec == Init /\ [][Next]_vars /\ Fairness

-----------------------------------------------------------------------------
\* When the controller is in no call, a detached ticker has no thread, and the
\* only callback that can run is the one attached last: no old callback fires
\* into the new attachment, and a once has fired at most once.
OldCallbacksAreSilent ==
  /\ calling \subseteq callback
  /\ call = "set" => worker = "none"
  /\ call = "none" /\ running => worker # "ended"
  /\ once => fires <= 1
  /\ once /\ fires = 1 => ~ running /\ worker = "ended"

\* attach, once and detach return, when no callback detaches its own ticker.
CallsReturn == call # "none" ~> call = "none" \/ terminated
=============================================================================
