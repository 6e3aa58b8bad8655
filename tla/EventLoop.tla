----------------------------- MODULE EventLoop -----------------------------
(***************************************************************************)
(* The event loop of include/esp_event.h.  A post copies the handlers that  *)
(* match while it holds the mutex, and calls the copies after it has        *)
(* released it, on the thread of the poster.  A handler may register and    *)
(* unregister handlers and post again; every event matches every handler,   *)
(* and a handler is registered at most once.                                *)
(***************************************************************************)
EXTENDS Naturals, SequencesExt

CONSTANTS Threads, Handlers,
          MaxDepth      \* bound on posts from handlers of posts

VARIABLES
  handlers,   \* the registered handlers, oldest first
  posts       \* the posts each thread is inside, innermost last

vars == <<handlers, posts>>

\* A post: the handlers it has still to call; the one it is calling, or those
\* of none; the ones it has called; and, for the properties, the handlers that
\* have been registered ever since it began.
Frame(todo, running, called, throughout) ==
  [todo |-> todo, running |-> running, called |-> called, throughout |-> throughout]

Init == handlers = << >> /\ posts = [t \in Threads |-> << >>]

Top(t) == Last(posts[t])
SetTop(t, f) == posts' = [posts EXCEPT ![t] = Append(Front(@), f)]

\* The program's own statements run outside all posts or inside a handler.
CanAct(t) == posts[t] # << >> => Top(t).running # {}

Register(t, h) ==
  /\ CanAct(t)
  /\ h \notin ToSet(handlers)
  /\ handlers' = Append(handlers, h)
  /\ UNCHANGED posts

\* No post under way is told, but h is no longer registered throughout it.
Unregister(t, h) ==
  /\ CanAct(t)
  /\ \E i \in DOMAIN handlers : handlers[i] = h /\ handlers' = RemoveAt(handlers, i)
  /\ posts' = [u \in Threads |-> [i \in DOMAIN posts[u] |->
                 [posts[u][i] EXCEPT !.throughout = @ \ {h}]]]

\* Mutant of Snapshot: the newest handler is left out.
SnapshotButLast == IF handlers = << >> THEN << >> ELSE Front(handlers)

Snapshot == handlers

Post(t) ==
  /\ CanAct(t)
  /\ Len(posts[t]) < MaxDepth
  /\ posts' = [posts EXCEPT ![t] = Append(@, Frame(Snapshot, {}, {}, ToSet(handlers)))]
  /\ UNCHANGED handlers

CallHandler(t) ==
  /\ posts[t] # << >> /\ Top(t).running = {} /\ Top(t).todo # << >>
  /\ SetTop(t, [Top(t) EXCEPT !.running = {Head(Top(t).todo)}, !.todo = Tail(@)])
  /\ UNCHANGED handlers

HandlerReturns(t) ==
  /\ posts[t] # << >> /\ Top(t).running # {}
  /\ SetTop(t, [Top(t) EXCEPT !.running = {}, !.called = @ \cup Top(t).running])
  /\ UNCHANGED handlers

PostReturns(t) ==
  /\ posts[t] # << >> /\ Top(t).running = {} /\ Top(t).todo = << >>
  /\ posts' = [posts EXCEPT ![t] = Front(@)]
  /\ UNCHANGED handlers

Reset(t) ==
  /\ CanAct(t) /\ handlers # << >>
  /\ handlers' = << >>
  /\ posts' = [u \in Threads |-> [i \in DOMAIN posts[u] |->
                 [posts[u][i] EXCEPT !.throughout = {}]]]

Steps(t) == CallHandler(t) \/ PostReturns(t)

Next == \E t \in Threads :
          \/ \E h \in Handlers : Register(t, h) \/ Unregister(t, h)
          \/ Post(t) \/ Steps(t) \/ HandlerReturns(t) \/ Reset(t)

Spec == Init /\ [][Next]_vars

-----------------------------------------------------------------------------
\* Whatever the handlers register, unregister and post meanwhile, a post calls
\* every handler that stays registered throughout it, and none twice.
OncePerPost ==
  \A t \in Threads : \A i \in DOMAIN posts[t] :
    LET f == posts[t][i]
    IN  /\ f.throughout \subseteq f.called \cup f.running \cup ToSet(f.todo)
        /\ f.called \cap f.running = {}
        /\ ToSet(f.todo) \cap (f.called \cup f.running) = {}
        /\ IsInjective(f.todo)
=============================================================================
