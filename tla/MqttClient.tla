----------------------------- MODULE MqttClient -----------------------------
(***************************************************************************)
(* include/mqtt_client.h: the mock of the ESP-IDF MQTT client.  Start,     *)
(* stop, subscribe, unsubscribe and publish each hold the mutex of the     *)
(* client from their first statement to their last, and the last but one   *)
(* calls the program's event handler: the handler runs under the mutex.    *)
(* What a simulated broker does (a message, a lost connection, a new one)  *)
(* calls the handler without the mutex.                                    *)
(*                                                                         *)
(* The handler is part of the program.  It may call the client itself: a   *)
(* thread is in a stack of calls, and each of them may be in the handler.  *)
(***************************************************************************)
EXTENDS Naturals, Sequences

CONSTANTS Threads,  \* the threads of the program
          Topics,   \* the topics it uses
          OnEvent,  \* from Events: the call its handler makes, or NoCall
          MaxIds,   \* bound on the message ids
          NoCall, NoThread

Events == {"CONNECTED", "DISCONNECTED", "SUBSCRIBED", "UNSUBSCRIBED", "PUBLISHED", "DATA"}

Calls  == [op : {"start", "stop"}, topic : {NoCall}]
            \cup [op : {"subscribe", "unsubscribe", "publish"}, topic : Topics]
Broker == [op : {"disconnect", "reconnect", "message"}, topic : {NoCall}]

VARIABLES connected, started,        \* esp_mqtt_client: the flags,
          next_msg_id,               \* the next id,
          subscriptions, published,  \* the topics, and the messages with their ids,
          mtx,                       \* and the thread that holds the mutex
          stack                      \* the calls each thread is in, innermost first

client     == <<connected, started, next_msg_id, subscriptions, published>>
clientVars == <<client, mtx, stack>>

Init == /\ connected = FALSE /\ started = FALSE
        /\ next_msg_id = 1
        /\ subscriptions = << >> /\ published = << >>
        /\ mtx = NoThread
        /\ stack = [t \in Threads |-> << >>]

-----------------------------------------------------------------------------
Frame(call, at) == [call |-> call, at |-> at]
Push(t, frame)  == stack' = [stack EXCEPT ![t] = <<frame>> \o @]
Goto(t, at)     == stack' = [stack EXCEPT ![t][1].at = at]
Top(t, at)      == stack[t] # << >> /\ stack[t][1].at = at

\* The event each call fires.
EventOf(call) == CASE call.op \in {"start", "reconnect"}   -> "CONNECTED"
                   [] call.op \in {"stop", "disconnect"}   -> "DISCONNECTED"
                   [] call.op = "subscribe"                -> "SUBSCRIBED"
                   [] call.op = "unsubscribe"              -> "UNSUBSCRIBED"
                   [] call.op = "publish"                  -> "PUBLISHED"
                   [] call.op = "message"                  -> "DATA"

Start == connected' = TRUE /\ started' = TRUE
         /\ UNCHANGED <<next_msg_id, subscriptions, published>>

\* started is cleared after the handler.
Stop == connected' = FALSE
        /\ UNCHANGED <<started, next_msg_id, subscriptions, published>>

Subscribe(topic) == /\ next_msg_id' = next_msg_id + 1
                    /\ subscriptions' = Append(subscriptions, topic)
                    /\ UNCHANGED <<connected, started, published>>

Unsubscribe(topic) ==
  /\ next_msg_id' = next_msg_id + 1
  /\ subscriptions' = SelectSeq(subscriptions, LAMBDA s : s # topic)
  /\ UNCHANGED <<connected, started, published>>

Publish(topic) == /\ next_msg_id' = next_msg_id + 1
                  /\ published' = Append(published, [topic |-> topic, id |-> next_msg_id])
                  /\ UNCHANGED <<connected, started, subscriptions>>

Body(call) == CASE call.op = "start"       -> Start
                [] call.op = "stop"        -> Stop
                [] call.op = "subscribe"   -> Subscribe(call.topic)
                [] call.op = "unsubscribe" -> Unsubscribe(call.topic)
                [] call.op = "publish"     -> Publish(call.topic)

-----------------------------------------------------------------------------
\* The program calls the client from outside of the handler.
Call(t) == /\ stack[t] = << >>
           /\ \E call \in Calls : /\ call.op \in {"start", "stop"} \/ next_msg_id <= MaxIds
                                  /\ Push(t, Frame(call, "lock"))
           /\ UNCHANGED <<client, mtx>>

\* The call gets the mutex, does its work and calls the handler; a stop of a
\* client that is not connected has no event.  The mutex is not recursive: a
\* call from a handler that runs under it waits for its own thread.
Enter(t) ==
  /\ Top(t, "lock")
  /\ mtx = NoThread
  /\ mtx' = t
  /\ LET call == stack[t][1].call
     IN  /\ Body(call)
         /\ Goto(t, IF call.op = "stop" /\ ~ connected THEN "handled" ELSE "handler")

\* esp32emu::mqtt::inject_message, simulate_disconnect, simulate_reconnect
BrokerActs(t) ==
  /\ stack[t] = << >> /\ next_msg_id <= MaxIds
  /\ \E act \in Broker :
       /\ connected' = CASE act.op = "disconnect" -> FALSE
                         [] act.op = "reconnect"  -> TRUE
                         [] OTHER                 -> connected
       /\ Push(t, Frame(act, "handler"))
  /\ UNCHANGED <<started, next_msg_id, subscriptions, published, mtx>>

Handler(t) ==
  /\ Top(t, "handler")
  /\ LET frame == stack[t][1]
         call  == OnEvent[EventOf(frame.call)]
         rest  == <<[frame EXCEPT !.at = "handled"]>> \o Tail(stack[t])
     IN  stack' = [stack EXCEPT ![t] = IF call = NoCall THEN rest
                                       ELSE <<Frame(call, "lock")>> \o rest]
  /\ UNCHANGED <<client, mtx>>

\* The handler has returned, and so does the call that called it.
Return(t) ==
  /\ Top(t, "handled")
  /\ LET call == stack[t][1].call
     IN  /\ started' = (started /\ call.op # "stop")
         /\ mtx' = IF call \in Calls THEN NoThread ELSE mtx
  /\ stack' = [stack EXCEPT ![t] = Tail(@)]
  /\ UNCHANGED <<connected, next_msg_id, subscriptions, published>>

Next == \E t \in Threads : Call(t) \/ Enter(t) \/ BrokerActs(t) \/ Handler(t) \/ Return(t)

\* A thread that is inside runs on.
Fairness == \A t \in Threads : WF_clientVars(Handler(t) \/ Return(t))

Spec == Init /\ [][Next]_clientVars /\ Fairness

\* One that waits for the mutex gets it in the end.
FairSpec == Spec /\ \A t \in Threads : SF_clientVars(Enter(t))

-----------------------------------------------------------------------------
\* A thread waits for the mutex that it holds itself.
SelfLocked(t) == Top(t, "lock") /\ mtx = t

\* A handler that calls the client on a message only, which the broker hands
\* to it without the mutex.
CallsOnDataOnly == \A e \in Events : OnEvent[e] # NoCall => e = "DATA"

\* With such a handler no call waits for its own thread.
NobodyIsSelfLocked == \A t \in Threads : ~ SelfLocked(t)

\* With any handler, a thread that waits for itself does so for ever, and from
\* then on no call of any thread gets the mutex.
SelfLocksStay == [][\A t \in Threads : SelfLocked(t) => SelfLocked(t)']_clientVars

\* Who has the mutex lets go of it, so that one of those who wait gets it.
MutexIsReleased == \A t \in Threads : mtx = t ~> mtx # t

\* examples/mqtt_client.cpp:12 subscribes in its handler, on
\* MQTT_EVENT_CONNECTED, and publishes from its loop.  It takes for granted
\* that every call of the client returns, from the handler too.
CallsReturn == \A t \in Threads : stack[t] # << >> ~> stack[t] = << >>
=============================================================================
