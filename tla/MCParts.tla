------------------------------- MODULE MCParts -------------------------------
(***************************************************************************)
(* The parts whose calls have to return, one at a time: tasks, Ticker,      *)
(* PubSubClient, the MQTT client and the cooperative scheduler run code of  *)
(* the program on their threads or from their calls, HTTPClient and         *)
(* WebServer meet through the kernel.  The other parts keep their initial   *)
(* values.                                                                  *)
(***************************************************************************)
EXTENDS Tasks, TaskScheduler

CONSTANTS
  Callbacks, MaxFires,                              \* Ticker
  Clients, Turns, Posts, Backlog, NoRequest,        \* HttpExchange
  Publishers, Topics, Filters,                      \* PubSub
  MaxSubscriptions, Nobody,
  MqttHandler, Commands, MaxIds, NoHandlerCall,     \* MqttClient
  Busy                                              \* the client with two turns

\* One client makes two requests, so that an answer may be the last one's.
MCTurns == [c \in Clients |-> IF c = Busy THEN 2 ELSE 1]

MCPosts == {<<c, 1>> : c \in Clients}

MCTopics == {<<"a">>, <<"a", "b">>}
MCFilters == {<<"#">>, <<"a">>, <<"a", "#">>}

VARIABLES
  part,
  running, once, fires, callback, call, wants, worker, calling, terminated,
  listener, backlog, link, tries, inside, sent, got, status, answer,
  serving, step, read, handled, silent, late,
  connected, subscriptions, mtx, op, todo, rest, calls, due, torn,
  online, started, next_msg_id, subscribed, published, holder, stack

TheTicker == INSTANCE Ticker
TheHttp == INSTANCE HttpExchange WITH phase <- inside, body <- answer
ThePubSub == INSTANCE PubSub WITH Threads <- Publishers
TheMqtt == INSTANCE MqttClient WITH
             Threads <- Publishers, Topics <- Commands,
             OnEvent <- MqttHandler, NoCall <- NoHandlerCall,
             NoThread <- Nobody, connected <- online, subscriptions <- subscribed,
             mtx <- holder

\* The program answers a message with one of its own.
MCHandler ==
  [e \in {"CONNECTED", "DISCONNECTED", "SUBSCRIBED", "UNSUBSCRIBED", "PUBLISHED", "DATA"} |->
     IF e = "DATA" THEN [op |-> "publish", topic |-> CHOOSE c \in Commands : TRUE]
                   ELSE NoHandlerCall]

ASSUME PartsAssumption ==
  /\ Nobody \notin Publishers
  /\ Turns \in [Clients -> Nat]
  /\ NoRequest \notin TheHttp!Requests
  /\ MqttHandler \in [TheMqtt!Events -> TheMqtt!Calls \cup {NoHandlerCall}]

ticker == <<running, once, fires, callback, call, wants, worker, calling, terminated>>
http == <<listener, backlog, link, tries, inside, sent, got, status, answer,
          serving, step, read, handled, silent, late>>
pubsub == <<connected, subscriptions, mtx, op, todo, rest, calls, due, torn>>
mqtt == <<online, started, next_msg_id, subscribed, published, holder, stack>>

partVars == <<part, vars, ticker, http, tsVars, pubsub, mqtt>>

PartsInit == /\ part \in {"tasks", "ticker", "http", "scheduler", "pubsub", "mqtt"}
             /\ Init /\ SchedulerInit
             /\ TheTicker!Init /\ TheHttp!Init /\ ThePubSub!Init /\ TheMqtt!Init

TasksStep == /\ part = "tasks" /\ Next
             /\ UNCHANGED <<part, ticker, http, tsVars, pubsub, mqtt>>
TickerStep == /\ part = "ticker" /\ TheTicker!Next
              /\ UNCHANGED <<part, vars, http, tsVars, pubsub, mqtt>>
HttpStep == /\ part = "http" /\ TheHttp!Next
            /\ UNCHANGED <<part, vars, ticker, tsVars, pubsub, mqtt>>
SchedulerStep == /\ part = "scheduler" /\ SchedulerNext
                 /\ UNCHANGED <<part, vars, ticker, http, pubsub, mqtt>>
PubSubStep == /\ part = "pubsub" /\ ThePubSub!Next
              /\ UNCHANGED <<part, vars, ticker, http, tsVars, mqtt>>
MqttStep == /\ part = "mqtt" /\ TheMqtt!Next
            /\ UNCHANGED <<part, vars, ticker, http, tsVars, pubsub>>

PartsNext == \/ TasksStep \/ TickerStep
             \/ HttpStep \/ SchedulerStep \/ PubSubStep \/ MqttStep

PartsSpec == /\ PartsInit /\ [][PartsNext]_partVars
             /\ Fairness /\ SchedulerFairness
             /\ TheTicker!Fairness /\ TheHttp!Fairness /\ ThePubSub!Fairness
             /\ TheMqtt!Fairness

-----------------------------------------------------------------------------
\* PubSubClient: a publish calls back once per subscription that matches.
OncePerMatch == ThePubSub!OncePerMatch

\* Ticker: only the callback attached last runs, and a once fires once.
OldCallbacksAreSilent == TheTicker!OldCallbacksAreSilent

\* HttpExchange: status, body and handler tell the truth about a request,
\* unless a receive timeout cut it short.
WholeUnlessLate == TheHttp!WholeUnlessLate

\* cleanupTasks returns if it has no endless task to join, attach and detach
\* of a Ticker if no callback detaches it, the calls of a PubSubClient if no
\* callback calls it, an HTTP request and handleClient always, a call of an MQTT
\* client that has the mutex if the handler calls it on messages only, and
\* execute comes to the end of its list.
CallsReturn == /\ CleanupReturns /\ TheTicker!CallsReturn
               /\ ThePubSub!CallsReturn /\ TheHttp!RequestsReturn
               /\ PassEnds /\ TheMqtt!MutexIsReleased
=============================================================================
