---------------------------- MODULE MCMqttClient ----------------------------
EXTENDS MqttClient

\* The handler of examples/mqtt_client.cpp: it subscribes when it is connected.
ExampleHandler ==
  [e \in Events |-> IF e = "CONNECTED" THEN [op |-> "subscribe", topic |-> "device/cmd"]
                                       ELSE NoCall]

TwoTopics == {"device/cmd", "device/sensor"}
=============================================================================
