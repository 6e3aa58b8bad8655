------------------------------ MODULE NetTable ------------------------------
(***************************************************************************)
(* Sockets, web servers, brokers, radios and wired links of the Arduino     *)
(* side.  What callbacks do they do as the program does.                    *)
(***************************************************************************)
EXTENDS DeviceTable

\* WiFiUDP.h.  begin stops first, so no port outlives its socket; what was written
\* or received does.  parsePacket reads a packet or empties the buffer.
WiFiUdp == Device(
  { [Op("begin", {}, {}, {}, {}) EXCEPT !.may = {"fd"}],
    Clear("stop", {}, {"fd"}),
    Clear("beginPacket", {}, {"txBuf"}),
    Set("write", {}, {"txBuf"}),
    Clear("endPacket", {"fd"}, {"txBuf"}),
    Put("parsePacket", {"fd"}, {"rxBuf"}),
    Take("read", {}, "rxBuf") },
  {}, "fd", {"txBuf", "rxBuf"})

\* AsyncUDP.h.  close leaves multicast on; packets arrive whether it listens or not.
AsyncUdp == Device(
  { Begin("listen", {}, {"listening"}, {"port"}),
    Begin("listenMulticast", {}, {"listening", "multicast"}, {"port"}),
    Clear("close", {}, {"listening", "connected"}),
    Set("connect", {}, {"connected"}),
    Set("write", {}, {"sentData"}),        \* writeTo, broadcast and broadcastTo too
    Put("onPacket", {}, {"handler"}) },
  {}, "listening", {"multicast", "sentData", "handler"})

\* AsyncMqttClient.h.  Nothing asks for the connection, and it ends nothing.
AsyncMqtt == Device(
  { Put("setServer", {}, {"settings"}),    \* and the other settings
    Put("onConnect", {}, {"callbacks"}),   \* and the other callbacks
    Set("connect", {}, {"connected"}),
    Clear("disconnect", {}, {"connected"}),
    Set("subscribe", {}, {"packetIds", "subscriptions"}),
    Begin("unsubscribe", {"subscriptions"}, {"packetIds"}, {"subscriptions"}),
    Set("unsubscribe", {}, {"packetIds"}),
    Set("publish", {}, {"packetIds", "published"}),
    Clear("_reset", {}, {"connected", "published", "subscriptions", "packetIds"}) },
  Over({"subscriptions", "published"}, "packetIds"), "connected",
  {"settings", "callbacks", "subscriptions", "published", "packetIds"})

\* ESPAsyncWebServer.h: one request, which may be answered more than once, and the
\* server, which serves the requests of a test before begin too.
AsyncRequest == Part(
  { Put("setParam", {}, {"params"}),       \* setMethod, setUrl, setBody too
    Put("setHeader", {}, {"reqHeaders"}),
    Begin("send", {}, {"responded"}, {"body"}),
    Op("redirect", {}, {}, {"responded"}, {"body"}) },
  Over({"body"}, "responded"))

AsyncServer == Device(
  { Set("begin", {}, {"running"}),
    Clear("end", {}, {"running"}),
    Set("on", {}, {"routes"}),
    Put("onNotFound", {}, {"notFoundHandler"}),
    Set("simulateRequest", {"routes"}, {}),
    Set("simulateRequest", {"notFoundHandler"}, {}) },
  {}, "running", {"routes", "notFoundHandler"})

\* WiFiManager.h.  The portal runs only inside the calls that open it; they connect
\* or not as the test has said.
WiFiManager == Device(
  { Begin("autoConnect", {}, {"apName"}, {"connected"}),        \* startConfigPortal too
    Clear("resetSettings", {}, {"connected", "ssid", "password"}),
    Put("setConfigPortalTimeout", {}, {"settings"}),            \* and the other settings
    Put("setAPCallback", {}, {"callbacks"}),                    \* and the others
    Set("addParameter", {}, {"params"}),
    Put("testSetSSID", {}, {"ssid"}),
    Put("testSetPassword", {}, {"password"}) },
  Over({"connected"}, "apName"), "connected", {"ssid", "password", "settings", "callbacks", "params"})

\* AsyncTCP.h: a client and a server.
AsyncTcpClient == Device(
  { Put("connect", {}, {"connected"}),
    Clear("close", {}, {"connected"}),
    Put("write", {"connected"}, {"txBuffer"}),
    Put("setRxTimeout", {}, {"settings"}), \* and the other settings
    Put("onConnect", {}, {"callbacks"}),   \* and the other callbacks
    Clear("testClearTxBuffer", {}, {"txBuffer"}) },
  {}, "connected", {"txBuffer", "settings", "callbacks"})

AsyncTcpServer == Device(
  { Set("begin", {}, {"running"}),
    Clear("end", {}, {"running"}),
    Put("onClient", {}, {"clientCb"}) },
  {}, "running", {"clientCb"})

\* WiFi.h.  Whether a board has WiFi does not change while it runs.
WiFi == Device(
  { Put("mode", {}, {"mode"}),
    Put("begin", {}, {"connected"}),
    Clear("disconnect", {}, {"connected"}),
    Put("setHostname", {}, {"hostname"}),
    Put("test_setScanResults", {}, {"scanResults"}),
    Put("scanNetworks", {}, {"scanResults"}) },
  {}, "connected", {"mode", "hostname", "scanResults"})

\* ESPmDNS.h.  A service may be added before begin; end drops it.
Mdns == Device(
  { Set("begin", {}, {"started"}),
    Clear("end", {}, {"started", "services", "txt"}),
    Set("addService", {}, {"services"}),
    Set("addServiceTxt", {"services"}, {"txt"}),
    Set("queryService", {}, {"lastQuery"}),
    Set("_addQueryResult", {}, {"queryResults"}),
    Clear("_clearQueryResults", {}, {"queryResults"}),
    Clear("_reset", {}, {"started", "services", "txt", "queryResults"}) },
  Over({"txt"}, "services"), "started", {"lastQuery", "queryResults"})

\* ThingSpeak.h.  A write sends the fields and the status and forgets them, not the
\* place; it asks for no begin.
ThingSpeak == Part(
  { Set("begin", {}, {"begun"}),
    Set("setField", {}, {"fields"}),
    Put("setLatitude", {}, {"place"}),     \* setLongitude, setElevation too
    Put("setStatus", {}, {"status"}),
    [Op("writeFields", {}, {}, {"writeCount"}, {"fields", "status"}) EXCEPT !.may = {"lastWrite"}],
    Set("readFloatField", {}, {"readCount"}),
    Clear("reset", {}, {"fields", "lastWrite", "writeCount", "readCount"}) },
  Over({"lastWrite"}, "writeCount"))

-----------------------------------------------------------------------------
\* BLEDevice.h: the device and one server, service and characteristic; a server
\* needs no init.
BleServerFlags == {"server", "peers", "serverCallbacks", "service", "started",
                   "characteristic", "value", "callbacks", "notified"}

BleCharacteristic == {
  Put("setValue", {"characteristic"}, {"value"}),
  Put("simulateWrite", {"characteristic"}, {"value"}),
  Put("setCallbacks", {"characteristic"}, {"callbacks"}),
  Set("notify", {"characteristic"}, {"notified"}) }   \* indicate too

BleService == {
  Op("createCharacteristic", {"service"}, {}, {"characteristic"}, {"value", "callbacks", "notified"}),
  Set("start", {"service"}, {"started"}) }

BleServer == {
  Op("createService", {"server"}, {}, {"service"}, {"started", "characteristic", "value", "callbacks", "notified"}),
  Put("setCallbacks", {"server"}, {"serverCallbacks"}),
  Set("simulateConnect", {"server"}, {"peers"}),
  Take("simulateDisconnect", {"server"}, "peers") }

Ble == Device(
  { Begin("init", {}, {"initialized"}, {"deviceName"}),
    Clear("deinit", {}, BleServerFlags \cup {"initialized", "deviceName"}),
    Op("createServer", {}, {}, {"server"}, BleServerFlags) }
  \cup BleCharacteristic \cup BleService \cup BleServer,
  Over({"service", "peers", "serverCallbacks"}, "server") \cup Over({"started", "characteristic"}, "service")
    \cup Over({"value", "callbacks", "notified"}, "characteristic") \cup Over({"deviceName"}, "initialized"),
  "initialized", {})

\* There are two advertising objects, that of the servers and the one getAdvertising
\* falls back on while there is no server.  Both are static: a program keeps its
\* handle of either, and neither deinit nor the stop of the other turns one off.
BleAdvertising(object, uuids, advertising) == {
  Set("addServiceUUID", {object}, {uuids}),
  Set("start", {object}, {advertising}),
  Clear("stop", {object}, {advertising}) }

BleAdvertisings == Part(
  { Set("createServer", {}, {"server"}),
    Clear("deinit", {}, {"server"}),
    Op("getAdvertising", {"server"}, {}, {"adv"}, {}),
    Op("getAdvertising", {}, {"server"}, {"fallback"}, {}) }
  \cup BleAdvertising("adv", "uuids", "advertising")
  \cup BleAdvertising("fallback", "fallbackUuids", "fallbackAdvertising"),
  Over({"uuids", "advertising"}, "adv") \cup Over({"fallbackUuids", "fallbackAdvertising"}, "fallback"))

\* BluetoothSerial.h.  A peer and what is sent to it outlive end.
BluetoothSerial == Device(
  { Begin("begin", {}, {"started"}, {"name"}),
    Clear("end", {}, {"started", "rxBuf"}),
    Take("read", {}, "rxBuf"),             \* readBytes, readStringUntil too
    Clear("readString", {}, {"rxBuf"}),
    Set("write", {}, {"txBuf"}),
    Set("connect", {}, {"connected"}),
    Clear("disconnect", {}, {"connected"}),
    Put("register_callback", {}, {"dataCb"}),
    Set("injectRx", {}, {"rxBuf"}),
    Clear("clearTx", {}, {"txBuf"}) },
  {}, "started", {"txBuf", "connected", "dataCb"})

\* RadioLib.h, SX1276.  readData asks for a packet, not for begin.
Sx1276 == Part(
  { Begin("begin", {}, {"initialized"}, {"settings"}),
    Set("transmit", {"initialized"}, {"lastTx"}),
    Take("receive", {"initialized"}, "rxQueue"),
    Take("readData", {}, "rxQueue"),
    Set("startReceive", {}, {"mode"}),     \* standby and sleep too
    Put("setFrequency", {}, {"settings"}), \* and the other settings
    Put("setDio0Action", {}, {"action"}),
    Set("_test_injectRx", {}, {"rxQueue"}) },
  Over({"lastTx"}, "initialized"))

\* RadioLib.h, SX1262.  Receiving needs no begin.
Sx1262 == Part(
  { Begin("begin", {}, {"initialized"}, {"settings"}),
    Set("transmit", {"initialized"}, {"lastTx"}),
    Take("receive", {}, "rxQueue"),
    Put("setFrequency", {}, {"settings"}),
    Set("_test_injectRx", {}, {"rxQueue"}) },
  Over({"lastTx"}, "initialized"))

\* LoRa.h, sending.  A packet is sent before begin, endPacket empties nothing, and
\* end leaves all but its own flag.
LoRaSend == Device(
  { Begin("begin", {}, {"initialized"}, {"settings"}),
    Clear("end", {}, {"initialized"}),
    Op("beginPacket", {}, {}, {"inTx"}, {"txBuf"}),
    Put("write", {"inTx"}, {"txBuf"}),
    [Op("endPacket", {}, {}, {"txCount"}, {"inTx"}) EXCEPT !.may = {"lastTxPacket"}],
    Put("setTxPower", {}, {"settings"}) },   \* and the other settings
  Over({"lastTxPacket"}, "txCount"), "initialized", {"inTx", "txBuf", "txCount", "lastTxPacket"})

\* LoRa.h, receiving, which asks for nothing.
LoRaReceive == Part(
  { Set("injectPacket", {}, {"rxQueue"}),
    Begin("parsePacket", {"rxQueue"}, {"rxBuf"}, {"rxQueue"}),
    Take("read", {}, "rxBuf"),
    Put("onReceive", {}, {"callback"}),
    Set("receive", {}, {"receiving"}),
    Clear("idle", {}, {"receiving"}),
    Op("sleep", {}, {}, {"sleeping"}, {"receiving"}) },
  {})

\* Ethernet.h: a client; a server and the link have no end.
EthernetClient == Device(
  { Set("connect", {}, {"connected"}),
    Clear("stop", {}, {"connected"}),
    Set("write", {}, {"txBuf"}),
    Take("read", {}, "rxBuf"),
    Clear("flush", {}, {"txBuf"}),         \* clearTx too
    Set("injectRx", {}, {"rxBuf"}) },
  {}, "connected", {"txBuf", "rxBuf"})

EthernetLink == Part(
  { Set("begin", {}, {"linkUp"}),
    Put("setLinkUp", {}, {"linkUp"}),
    Set("server.begin", {}, {"running"}),
    Set("injectClient", {}, {"pendingClients"}),
    Take("server.available", {}, "pendingClients") },
  {})

\* PubSubClient.h.  Only a disconnect ends the subscriptions, so they are those of
\* the connection; what was published stays.
PubSubClient == Device(
  { Put("setServer", {}, {"server"}),
    Put("setCallback", {}, {"callback"}),
    Put("setBufferSize", {}, {"bufSize"}),
    Set("connect", {}, {"connected"}),
    Clear("disconnect", {}, {"connected", "subscriptions"}),
    Set("publish", {"connected"}, {"published"}),
    Set("subscribe", {"connected"}, {"subscriptions"}),
    Take("unsubscribe", {"connected"}, "subscriptions") },
  Over({"subscriptions"}, "connected"), "connected", {"server", "callback", "bufSize", "published"})
=============================================================================
