------------------------------ MODULE ChipTable ------------------------------
(***************************************************************************)
(* Chips that answer on a bus and modules that hand over what they          *)
(* received: cards, fingers, keys, frames and codes, one reader after       *)
(* another, where an element is taken once.                                 *)
(***************************************************************************)
EXTENDS DeviceTable

\* Adafruit_Fingerprint.h.  templateCount is the program's copy, taken by
\* getTemplateCount: it outlives the templates.
Fingerprint == Part(
  { Set("begin", {}, {"initialized"}),
    Put("set_finger_present", {}, {"fingerPresent"}),
    Put("set_match", {}, {"match"}),
    Put("fingerSearch", {"initialized", "match"}, {"fingerID"}),
    Set("storeModel", {"initialized"}, {"templates"}),
    Take("deleteModel", {"initialized"}, "templates"),
    Clear("emptyDatabase", {"initialized"}, {"templates"}),
    Set("getTemplateCount", {"initialized", "templates"}, {"templateCount"}),
    Op("getTemplateCount", {"initialized"}, {"templates"}, {}, {"templateCount"}),
    Put("setSecurityLevel", {}, {"securityLevel"}) },
  {<<"templates", "initialized">>, <<"fingerID", "initialized">>,
   <<"templateCount", "initialized">>})

\* Adafruit_seesaw.h: reading the delta or the keys forgets all of them, the
\* keys beyond the caller's buffer too.
Seesaw == Part(
  { Set("begin", {}, {"initialized"}),
    Put("digitalWrite", {}, {"gpioState"}),
    Put("set_encoder_delta", {}, {"encoderDelta"}),
    Clear("getEncoderDelta", {}, {"encoderDelta"}),
    Put("setEncoderPosition", {}, {"encoderPosition"}),
    Put("setPixelColor", {}, {"pixelColors"}),
    Set("show", {}, {"shown"}),
    Set("add_keypad_event", {}, {"keypadEvents"}),
    Clear("readKeypad", {}, {"keypadEvents"}) }, {})

\* Adafruit_PN532.h.  One authentication opens every block for good; powerDown
\* closes nothing.
AdafruitPn532 == Part(
  { Set("begin", {}, {"begun"}),
    Set("SAMConfig", {}, {"samConfigured"}),
    Set("emu_injectUID", {}, {"uidQueue"}),
    Op("readPassiveTargetID", {"uidQueue"}, {}, {"lastUID", "uidQueue"}, {}),
    Op("readPassiveTargetID", {"uidQueue"}, {}, {"lastUID"}, {"uidQueue"}),
    Set("AuthenticateBlock", {}, {"authenticated"}),     \* FormatNDEF too
    Set("WriteDataBlock", {"authenticated"}, {"blocks"}),
    Set("ntag2xx_WritePage", {}, {"pages"}),
    Set("powerDownMode", {}, {"powerDown"}),
    Clear("wakeup", {}, {"powerDown"}) },
  {<<"blocks", "authenticated">>})

\* PN532.h: reads and writes ask for no authentication.
Pn532 == Part(
  { Set("begin", {}, {"begun"}),
    Set("SAMConfig", {}, {"samConfigured"}),
    Set("injectUID", {}, {"injectedUids"}),
    Take("readPassiveTargetID", {}, "injectedUids"),
    Put("setAuthSuccess", {}, {"authSuccess"}),
    Put("ntag2xx_WritePage", {}, {"pageData"}),
    Put("mifareclassic_WriteDataBlock", {}, {"mifareBlocks"}) }, {})

\* MFRC522.h.  The serial of a card stays in uid when the card has gone, and can be
\* read before PCD_Init.
Mfrc522 == Part(
  { Set("PCD_Init", {}, {"initialized"}),
    Put("test_setCardPresent", {}, {"cardPresent"}),
    Put("test_setUid", {}, {"mockUid"}),
    Set("PICC_ReadCardSerial", {"cardPresent", "mockUid"}, {"uid"}),
    Op("PICC_ReadCardSerial", {"cardPresent"}, {"mockUid"}, {}, {"uid"}),
    Clear("PICC_HaltA", {}, {"cardPresent"}),
    Set("MIFARE_Write", {}, {"blockData"}) }, {})

\* MCP2515.h: reset is what initialises it, and empties nothing.
Mcp2515 == Part(
  { Set("reset", {}, {"initialized"}),
    Put("setBitrate", {}, {"bitrate"}),
    Clear("setNormalMode", {}, {"loopback", "listenOnly"}),
    Op("setLoopbackMode", {}, {}, {"loopback"}, {"listenOnly"}),
    Op("setListenOnlyMode", {}, {}, {"listenOnly"}, {"loopback"}),
    Set("sendMessage", {"initialized", "loopback"}, {"txCount", "rxQueue"}),
    Op("sendMessage", {"initialized"}, {"loopback"}, {"txCount"}, {}),
    Set("injectFrame", {}, {"rxQueue"}),
    Take("readMessage", {}, "rxQueue") },
  {<<"txCount", "initialized">>})

\* MCP23017.h
Mcp23017 == Device(
  { Set("begin", {}, {"initialized"}),
    Put("pinMode", {}, {"iodir"}),
    Put("digitalWrite", {}, {"gpio"}),
    Put("setPullup", {}, {"pullup"}),
    Put("setInterrupt", {}, {"gpinten"}),
    Put("setPolarity", {}, {"ipol"}),
    Clear("resetAll", {}, {"initialized", "iodir", "gpio", "pullup", "gpinten", "ipol"}) },
  {}, "initialized", {})

\* I2S.h.  install starts the port, and replaces one that is installed.
I2sArduino == Device(
  { Op("install", {}, {}, {"installed", "running"}, {"pins", "txBuffer", "rxBuffer"}),
    Set("setPins", {"installed"}, {"pins"}),
    Set("start", {"installed"}, {"running"}),
    Clear("stop", {"installed"}, {"running"}),
    Set("write", {"running"}, {"txBuffer"}),
    Take("read", {"running"}, "rxBuffer"),
    Set("injectRxData", {"installed"}, {"rxBuffer"}),
    Clear("uninstall", {}, {"installed", "running", "pins", "txBuffer", "rxBuffer"}) },
  Over({"running", "pins", "txBuffer", "rxBuffer"}, "installed"), "installed", {})

\* esp_dmx.h.  Uninstalling forgets neither the frame nor a packet that arrived.
Dmx == Device(
  { Set("install", {}, {"installed"}),
    Clear("uninstall", {}, {"installed"}),
    Put("write", {}, {"data"}),                      \* setStartCode too
    Set("send", {"installed"}, {"packetsSent"}),
    Begin("emu_injectPacket", {}, {"hasIncoming"}, {"data"}),
    Clear("receive", {"installed"}, {"hasIncoming"}) },
  {}, "installed", {"data", "packetsSent", "hasIncoming"})

\* esp32emu_ledc.h: one channel.  A tone of frequency 0 is duty 0.
LedcChannel == Part(
  { Op("setup", {}, {}, {"configured"}, {"duty"}),
    Set("attachPin", {}, {"pin"}),
    Clear("detachPin", {}, {"pin"}),
    Put("write", {"pin"}, {"duty", "pinAnalog"}),
    Op("write", {}, {"pin"}, {}, {"duty"}),
    Op("write", {}, {"pin"}, {"duty"}, {}),
    Put("writeTone", {}, {"duty", "tone"}),
    Clear("reset", {}, {"configured", "pin", "duty", "tone"}) }, {})

\* esp32emu_gpio.h: one pin.  A digitalWrite that changes it calls the handler, an
\* analogWrite that does so none.
GpioPin == Part(
  { Put("pinMode", {}, {"mode"}),
    Set("attachInterrupt", {}, {"isr"}),
    Clear("detachInterrupt", {}, {"isr"}),
    Clear("digitalWrite", {}, {"digital"}),
    Set("digitalWrite", {}, {"digital"}),
    Set("analogWrite", {}, {"analog", "digital"}),
    Op("analogWrite", {}, {}, {"analog"}, {"digital"}),   \* a negative value
    Clear("analogWrite", {}, {"analog", "digital"}),
    Put("setAnalogInput", {}, {"analog"}),
    Clear("reset", {}, {"mode", "isr", "digital", "analog"}) }, {})

\* esp32emu_touch.h: one pad.  The handler, copied under the lock and called after
\* it, fires on the way below the threshold only.
TouchCore == Part(
  { Set("touchAttachInterrupt", {}, {"isr"}),
    Clear("touchDetachInterrupt", {}, {"isr"}),
    Put("setTouchValue", {}, {"value"}),
    Clear("releaseTouch", {}, {"value"}),
    Clear("reset", {}, {"value", "isr"}) }, {})

\* ModbusMaster.h.  A transaction that is made to time out has written its registers
\* all the same, and the next one succeeds.
ModbusMaster == Part(
  { Set("begin", {}, {"begun"}),
    Set("emu_setFailNext", {}, {"failNext"}),
    Op("readHoldingRegisters", {}, {}, {"response"}, {"failNext"}),
    Op("writeSingleRegister", {}, {}, {"registers"}, {"failNext"}),
    Op("writeSingleCoil", {}, {}, {"coils"}, {"failNext"}),
    Put("setTransmitBuffer", {}, {"txBuffer"}),
    Clear("clearTransmitBuffer", {}, {"txBuffer"}) }, {})

\* MIDI.h: lastMsg is the last one taken, whether or not a handler was set.
Midi == Part(
  { Set("begin", {}, {"begun"}),
    Set("sendNoteOn", {}, {"sent"}),
    Set("setHandleNoteOn", {}, {"handlers"}),
    Set("test_injectMessage", {}, {"rxQueue"}),
    Op("read", {"rxQueue"}, {}, {"lastMsg", "rxQueue"}, {}),
    Op("read", {"rxQueue"}, {}, {"lastMsg"}, {"rxQueue"}),
    Clear("test_clearSent", {}, {"sent"}) }, {})

\* RCSwitch.h.  Codes arrive and are sent with the receiver and the transmitter off;
\* available looks at the receiver.
RcSwitch == Device(
  { Set("enableReceive", {}, {"rxEnabled"}),
    Clear("disableReceive", {}, {"rxEnabled"}),
    Set("enableTransmit", {}, {"txEnabled"}),
    Clear("disableTransmit", {}, {"txEnabled"}),
    Set("test_injectReceived", {}, {"hasData"}),
    Clear("resetAvailable", {}, {"hasData"}),
    Set("send", {}, {"sendCount"}),
    Put("setProtocol", {}, {"protocol"}) },
  {}, "rxEnabled", {"txEnabled", "hasData", "sendCount", "protocol"})

\* IRremote.h: IRrecv.  A code that came while it was disabled is decoded later.
IrRecv == Part(
  { Set("enableIRIn", {}, {"enabled"}),
    Set("injectCode", {}, {"queue"}),
    Take("decode", {"enabled"}, "queue") }, {})

\* USBHIDKeyboard.h: one key.  Pressed twice it takes two of the six slots, and a
\* release frees one; end releases nothing and begin does.
HidKeyboard == Device(
  { Op("begin", {}, {}, {"begun"}, {"slot1", "slot2", "modifiers"}),
    Clear("end", {}, {"begun"}),
    Op("press", {}, {"slot1"}, {"slot1", "pressLog"}, {}),
    Op("press", {"slot1"}, {}, {"slot2", "pressLog"}, {}),
    Op("release", {"slot1"}, {}, {}, {"slot1"}),
    Op("release", {}, {"slot1"}, {}, {"slot2"}),
    Set("pressModifier", {}, {"modifiers", "pressLog"}),
    Put("releaseModifier", {"modifiers"}, {"modifiers"}),
    Clear("releaseAll", {}, {"slot1", "slot2", "modifiers"}),
    Clear("test_clearLog", {}, {"pressLog"}) },
  {}, "begun", {"pressLog"})

\* DFRobotDFPlayerMini.h.  loop and stop differ from play in what they do to a pause;
\* reset does not end it.
DfPlayer == Part(
  { Set("begin", {}, {"started"}),
    Op("play", {}, {}, {"playing", "track"}, {"paused"}),
    Op("pause", {}, {}, {"paused"}, {"playing"}),
    Op("start", {}, {}, {"playing"}, {"paused"}),
    Clear("stop", {}, {"playing", "paused"}),
    Set("loop", {}, {"playing", "track", "looping"}),
    Set("enableLoop", {}, {"looping"}),
    Clear("disableLoop", {}, {"looping"}),
    Op("sleep", {}, {}, {"sleeping"}, {"playing"}),
    Clear("resetPlayer", {}, {"sleeping", "playing", "track"}) }, {})

\* OneWire.h: a search that reached the end starts over after reset_search only.
OneWire == Part(
  { Set("addDevice", {}, {"devices"}),
    Op("search", {"devices"}, {"atEnd"}, {"atEnd"}, {}),
    Op("search", {"devices"}, {"atEnd"}, {}, {}),
    Clear("reset_search", {}, {"atEnd"}),
    Set("injectReadData", {}, {"readBuf"}),
    Take("read", {}, "readBuf") },
  {<<"atEnd", "devices">>})

\* CAP1188.h: touched takes all the touches, isTouched none.
Cap1188 == Part(
  { Set("begin", {}, {"initialized"}),
    Put("setTouchState", {}, {"touchState"}),
    Clear("touched", {"initialized"}, {"touchState"}),
    Put("setSensitivity", {}, {"sensitivity"}),
    Put("enableMultiTouch", {}, {"multiTouch"}),
    Put("setThreshold", {}, {"thresholds"}) }, {})

\* Keypad.h: one key at a time; a second before getKey replaces the first.
Keypad == Part(
  { Set("test_injectKey", {}, {"injectedKey", "stateChanged"}),
    Op("getKey", {"injectedKey"}, {}, {"lastKey", "pressed"}, {"injectedKey"}),
    Begin("test_setState", {}, {"stateChanged"}, {"pressed"}),
    Set("addEventListener", {}, {"listener"}) },
  Over({"injectedKey", "lastKey", "pressed"}, "stateChanged"))

\* painlessMesh.h: a message can be sent to a node that is not connected.
PainlessMesh == Part(
  { Set("init", {}, {"initialized"}),
    Set("onReceive", {}, {"callbacks"}),             \* every other callback
    Set("sendBroadcast", {}, {"lastBroadcast"}),
    Set("sendSingle", {}, {"lastSingle"}),
    Set("simulateNewConnection", {}, {"connectedNodes"}),
    Put("simulateDropConnection", {"connectedNodes"}, {"connectedNodes"}),
    Put("setRoot", {}, {"root"}) }, {})

\* Wire.h.  What was written stays until the next beginTransmission, and a
\* requestFrom hands it to the device again.
Wire == Part(
  { Clear("beginTransmission", {}, {"txBuf"}),
    Set("write", {}, {"txBuf"}),
    Put("requestFrom", {"devices"}, {"rxBuf"}),
    Set("requestFrom", {}, {"rxBuf"}),
    Take("read", {}, "rxBuf"),
    Set("addDevice", {}, {"devices"}),
    Put("removeDevice", {"devices"}, {"devices"}) }, {})

\* Adafruit_I2CDevice.h.  What was written is forgotten by the next write only.
I2cDevice == Part(
  { Set("begin", {}, {"begun"}),
    Put("write", {"begun"}, {"txBuf"}),
    Put("write_then_read", {"begun"}, {"txBuf"}),
    Set("setReadData", {}, {"rxBuf"}) },
  {<<"txBuf", "begun">>})

\* PCA9685.h: reset wakes it and leaves it initialised.
Pca9685 == Part(
  { Set("begin", {}, {"initialized"}),
    Clear("resetChannels", {}, {"pwm", "sleep"}),
    Put("setPWMFreq", {}, {"frequency"}),
    Put("setPWM", {}, {"pwm"}),
    Set("sleep", {}, {"sleep"}),
    Clear("wakeup", {}, {"sleep"}) }, {})

\* Adafruit_PWMServoDriver.h: here reset leaves it asleep.
PwmServoDriver == Part(
  { Set("begin", {}, {"initialized"}),
    Clear("resetChannels", {}, {"pwm"}),
    Put("setPWMFreq", {}, {"frequency"}),
    Put("setPWM", {}, {"pwm"}),
    Put("setOutputMode", {}, {"settings"}),
    Set("sleep", {}, {"sleeping"}),
    Clear("wakeup", {}, {"sleeping"}) }, {})

\* Si5351.h: a clock runs at the frequency it had before init.
Si5351 == Part(
  { Set("init", {}, {"initialized"}),
    Put("set_freq", {}, {"freq"}),
    Put("output_enable", {}, {"enabled"}),
    Put("drive_strength", {}, {"drive"}),
    Put("set_correction", {}, {"correction"}),
    Put("set_pll", {}, {"pllFreq"}) }, {})

\* DNSServer.h: names are resolved, and requests processed, whether or not it runs.
DnsServer == Device(
  { Begin("start", {}, {"running"}, {"domain"}),
    Clear("stop", {}, {"running"}),
    Set("processNextRequest", {}, {"processCount"}),
    Put("setTTL", {}, {"settings"}) },
  {}, "running", {"processCount", "settings"})
=============================================================================
