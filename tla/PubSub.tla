------------------------------- MODULE PubSub -------------------------------
(***************************************************************************)
(* PubSubClient.h, whose broker is the client itself: publish calls the     *)
(* callback once for each subscription that matches, with mtx_ held.        *)
(* subscribe and unsubscribe take mtx_, connect and disconnect do not.      *)
(* A publish, subscribe or unsubscribe from the callback waits for the      *)
(* mutex of its own thread.  A topic is the sequence of its levels.         *)
(* The program has set its callback.  Bound: MaxSubscriptions.              *)
(***************************************************************************)
EXTENDS Naturals, Sequences, SequencesExt

CONSTANTS Threads, Topics, Filters, MaxSubscriptions, Nobody

VARIABLES
  connected, subscriptions, mtx,
  op,        \* what each thread is in: "none", "waits", "holds", "calls" or "stuck"
  todo,      \* the call: [name, arg]
  rest,      \* what publish has yet to compare, a copy
  calls,     \* callbacks of this publish
  due,       \* history: subscriptions that matched when publish got the mutex
  torn       \* history: the vector was cleared under this publish

psVars == <<connected, subscriptions, mtx, op, todo, rest, calls, due, torn>>

Call == [name : {"publish"}, arg : Topics] \union [name : {"subscribe", "unsubscribe"}, arg : Filters]

NoCall == [name |-> "none", arg |-> <<>>]

\* topicMatch: # alone, the topic itself, or what is below a prefix before /#.
\* A + is compared as it stands.
Matches(f, topic) ==
  \/ f = <<"#">>
  \/ f = topic
  \/ Len(f) > 1 /\ Last(f) = "#" /\ IsStrictPrefix(Front(f), topic)

Init ==
  /\ connected = FALSE /\ subscriptions = <<>> /\ mtx = Nobody
  /\ op = [t \in Threads |-> "none"]
  /\ todo = [t \in Threads |-> NoCall]
  /\ rest = [t \in Threads |-> <<>>]
  /\ calls = [t \in Threads |-> 0] /\ due = [t \in Threads |-> 0]
  /\ torn = [t \in Threads |-> FALSE]

Connect ==
  /\ connected' = TRUE
  /\ UNCHANGED <<subscriptions, mtx, op, todo, rest, calls, due, torn>>

\* disconnect clears the subscriptions without the mutex, from a thread that
\* is in no call or from the callback.
Disconnect(t) ==
  /\ op[t] \in {"none", "calls"}
  /\ connected' = FALSE /\ subscriptions' = <<>>
  /\ torn' = [u \in Threads |-> torn[u] \/ op[u] \in {"holds", "calls"}]
  /\ UNCHANGED <<mtx, op, todo, rest, calls, due>>

\* Each call looks at connected_ before it waits for the mutex.
Begin(t, c) ==
  /\ op[t] = "none" /\ connected
  /\ op' = [op EXCEPT ![t] = "waits"] /\ todo' = [todo EXCEPT ![t] = c]
  /\ UNCHANGED <<connected, subscriptions, mtx, rest, calls, due, torn>>

\* erase and remove: the subscriptions to others stay, in their order.
KeepOthers(f) ==
  LET others == {i \in DOMAIN subscriptions : subscriptions[i] # f} IN
  \E at \in [1..Cardinality(others) -> others] :
    /\ \A i, j \in DOMAIN at : i < j => at[i] < at[j]
    /\ subscriptions' = [i \in DOMAIN at |-> subscriptions[at[i]]]

Subscribe(t) ==
  /\ op[t] = "waits" /\ mtx = Nobody /\ todo[t].name # "publish"
  /\ IF todo[t].name = "unsubscribe" THEN KeepOthers(todo[t].arg)
     ELSE subscriptions' = IF Len(subscriptions) < MaxSubscriptions
                           THEN Append(subscriptions, todo[t].arg) ELSE subscriptions
  /\ op' = [op EXCEPT ![t] = "none"] /\ todo' = [todo EXCEPT ![t] = NoCall]
  /\ UNCHANGED <<connected, mtx, rest, calls, due, torn>>

MatchesOf(t) == {i \in DOMAIN subscriptions : Matches(subscriptions[i], todo[t].arg)}

Publish(t) ==
  /\ op[t] = "waits" /\ mtx = Nobody /\ todo[t].name = "publish"
  /\ mtx' = t
  /\ op' = [op EXCEPT ![t] = "holds"]
  /\ rest' = [rest EXCEPT ![t] = subscriptions]
  /\ due' = [due EXCEPT ![t] = Cardinality(MatchesOf(t))]
  /\ UNCHANGED <<connected, subscriptions, todo, calls, torn>>

\* Mutant of Delivers: the callback gets the first match only.
DeliversOnce(t) == Matches(Head(rest[t]), todo[t].arg) /\ calls[t] = 0

Delivers(t) == Matches(Head(rest[t]), todo[t].arg)

\* The next subscription.  A vector that was cleared meanwhile may show
\* anything in its place.
Compare(t) ==
  /\ op[t] = "holds" /\ rest[t] # <<>>
  /\ rest' = [rest EXCEPT ![t] = Tail(@)]
  /\ \E match \in IF torn[t] THEN BOOLEAN ELSE {Delivers(t)} :
       IF match THEN /\ op' = [op EXCEPT ![t] = "calls"]
                     /\ calls' = [calls EXCEPT ![t] = @ + 1]
                ELSE UNCHANGED <<op, calls>>
  /\ UNCHANGED <<connected, subscriptions, mtx, todo, due, torn>>

CallbackReturns(t) ==
  /\ op[t] = "calls"
  /\ op' = [op EXCEPT ![t] = "holds"]
  /\ UNCHANGED <<connected, subscriptions, mtx, todo, rest, calls, due, torn>>

\* The callback publishes or subscribes: it waits for itself.
CallbackCalls(t) ==
  /\ op[t] = "calls" /\ connected
  /\ op' = [op EXCEPT ![t] = "stuck"]
  /\ UNCHANGED <<connected, subscriptions, mtx, todo, rest, calls, due, torn>>

PublishReturns(t) ==
  /\ op[t] = "holds" /\ rest[t] = <<>>
  /\ op' = [op EXCEPT ![t] = "none"] /\ mtx' = Nobody
  /\ todo' = [todo EXCEPT ![t] = NoCall]
  /\ calls' = [calls EXCEPT ![t] = 0] /\ due' = [due EXCEPT ![t] = 0]
  /\ torn' = [torn EXCEPT ![t] = FALSE]
  /\ UNCHANGED <<connected, subscriptions, rest>>

Step(t) == Subscribe(t) \/ Publish(t) \/ Compare(t) \/ CallbackReturns(t) \/ PublishReturns(t)

Next == \/ Connect
        \/ \E t \in Threads : \/ Disconnect(t) \/ Step(t) \/ CallbackCalls(t)
                              \/ \E c \in Call : Begin(t, c)

\* Threads run on, callbacks return, and nobody waits for the mutex for ever
\* while others keep taking it.
Fairness == \A t \in Threads :
  /\ SF_psVars(Subscribe(t) \/ Publish(t))
  /\ WF_psVars(Compare(t) \/ CallbackReturns(t) \/ PublishReturns(t))

Spec == Init /\ [][Next]_psVars /\ Fairness

-----------------------------------------------------------------------------
\* A publish calls back once for every subscription that matched when it got
\* the mutex, whatever others subscribe, unless a disconnect tore the vector;
\* two publishes never call back at the same time.
OncePerMatch ==
  /\ \A t \in Threads : op[t] = "holds" /\ rest[t] = <<>> /\ ~ torn[t] => calls[t] = due[t]
  /\ \A t, u \in Threads : op[t] = "calls" /\ op[u] = "calls" => t = u

\* Every call returns, unless a callback calls its client.
CallsReturn == \A t \in Threads :
  op[t] # "none" ~> op[t] = "none" \/ \E u \in Threads : op[u] = "stuck"
=============================================================================
