---------------------------- MODULE DisplayTable ----------------------------
(***************************************************************************)
(* Displays and strips of pixels.  Where a pixel goes in the frame buffer   *)
(* is the subject of Framebuffer; here it is which drawing reaches the      *)
(* panel and which survives a begin, a clear or a new sprite.               *)
(***************************************************************************)
EXTENDS DeviceTable

\* TFT_eSPI.h.  Nothing asks for init; the counters and the text are for tests.
TftEspi == Part(
  { Set("init", {}, {"inited"}),
    Put("setRotation", {}, {"rotation"}),
    Put("setTextColor", {}, {"textSettings"}),     \* size, datum, wrap, cursor too
    Set("fillRect", {}, {"fillCount"}),            \* fillScreen, fillCircle too
    Set("drawLine", {}, {"drawCount"}),            \* pushImage too
    Put("print", {}, {"printedText"}),             \* an empty text is counted only
    Set("print", {}, {"textCount"}),
    Put("invertDisplay", {}, {"inverted"}),
    Clear("resetCounters", {}, {"drawCount", "fillCount", "textCount", "printedText"}) }, {})

\* TFT_eSPI.h: a sprite.  A second createSprite frees the first buffer, and leaves
\* the sprite without one when it finds no memory.
TftSprite == Device(
  { Op("createSprite", {}, {}, {"created"}, {"picture"}),
    Clear("createSprite", {}, {"created", "picture"}),
    Put("drawInBuffer", {"created"}, {"picture"}),   \* the program, by getPointer
    Set("pushSprite", {"created"}, {"pushed"}),
    Clear("deleteSprite", {}, {"created", "picture"}) },
  Over({"picture"}, "created"), "created", {"pushed"})

\* U8g2lib.h.  clearBuffer clears the pixels and not the logs of what was drawn.
U8g2 == Part(
  { Clear("begin", {}, {"pixels", "powerSave"}),
    Clear("clearBuffer", {}, {"pixels"}),
    Set("sendBuffer", {}, {"sent"}),
    Op("clearDisplay", {}, {}, {"sent"}, {"pixels"}),
    Op("firstPage", {}, {}, {}, {"pixels", "page"}),
    Set("nextPage", {}, {"page"}),
    Put("drawPixel", {}, {"pixels"}),
    Begin("drawBox", {}, {"boxes"}, {"pixels"}),
    Set("drawLine", {}, {"lines"}),                  \* frames, triangles
    Set("drawStr", {}, {"texts"}),
    Put("setPowerSave", {}, {"powerSave"}) }, {})

\* Adafruit_SSD1306.h.  A line that display has not pushed is lost in clearDisplay.
Ssd1306 == Part(
  { Op("begin", {}, {}, {"begun"}, {"buffer", "printedLines", "currentLine"}),
    Clear("clearDisplay", {}, {"buffer", "printedLines", "currentLine"}),
    Op("display", {"currentLine"}, {}, {"printedLines", "displayCount"}, {"currentLine"}),
    Op("display", {}, {"currentLine"}, {"displayCount"}, {}),
    Put("drawPixel", {}, {"buffer"}),
    Set("drawLine", {}, {"drawCalls"}),              \* rectangles, circles, bitmaps
    Set("print", {}, {"currentLine"}),
    Op("println", {}, {}, {"printedLines"}, {"currentLine"}),
    Put("invertDisplay", {}, {"settings"}) }, {})    \* dim, the cursor, the text

\* Adafruit_ILI9341.h
Ili9341 == Part(
  { Set("begin", {}, {"initialized"}),
    Put("fillScreen", {}, {"framebuf"}),
    Put("drawPixel", {}, {"framebuf"}),              \* and every shape, by drawPixel
    Put("setCursor", {}, {"cursor"}),
    Put("setTextColor", {}, {"textSettings"}),
    Begin("print", {}, {"cursor"}, {"lastText"}),
    Put("setRotation", {}, {"rotation"}),
    Put("invertDisplay", {}, {"inverted"}) }, {})

\* GxEPD2.h.  nextPage ends the paging and is the full update of the panel; nothing
\* wakes a panel that hibernates.
GxEpd2 == Part(
  { Set("init", {}, {"initialized"}),
    Put("fillScreen", {}, {"buffer"}),
    Put("drawPixel", {}, {"buffer"}),
    Put("setCursor", {}, {"textSettings"}),
    Set("display", {}, {"partialUpdates"}),
    Set("display", {}, {"fullUpdates"}),
    Set("firstPage", {}, {"paging"}),
    Op("nextPage", {}, {}, {"fullUpdates"}, {"paging"}),
    Set("hibernate", {}, {"hibernating"}) }, {})

\* WS2812FX.h: service calls the effect only while it runs.
Ws2812Fx == Device(
  { Set("start", {}, {"running"}),
    Clear("stop", {}, {"running"}),
    Set("service", {"running"}, {"serviceCount"}),
    Put("setMode", {}, {"mode"}),                    \* an unknown mode is mode 0
    Put("setSpeed", {}, {"settings"}),               \* colours, brightness, direction
    Set("setCustomMode", {}, {"modeCallback"}),
    Clear("resetServiceCount", {}, {"serviceCount"}) },
  {}, "running", {"serviceCount", "mode", "settings", "modeCallback"})

\* NeoPixelBus.h.  Show clears dirty whether or not Begin was called.
NeoPixelBus == Part(
  { Set("Begin", {}, {"initialized"}),
    Op("Show", {}, {}, {"showCount"}, {"dirty"}),
    Begin("SetPixelColor", {}, {"dirty"}, {"pixels"}),   \* ClearTo, RotateLeft, ShiftLeft
    Put("SetBrightness", {}, {"brightness"}) }, {})

\* FastLED.h: the pixels belong to the program; clear needs a strip.
FastLed == Part(
  { Set("addLeds", {}, {"leds"}),
    Put("fill_solid", {"leds"}, {"colours"}),
    Put("setBrightness", {}, {"brightness"}),
    Set("show", {}, {"showCount"}),
    Clear("clear", {"leds"}, {"colours"}),
    Clear("resetShowCount", {}, {"showCount"}) },
  Over({"colours"}, "leds"))

\* LiquidCrystal_I2C.h.  init and begin clear the text and leave the special
\* characters, the light and the modes.
LiquidCrystalI2c == Part(
  { Op("begin", {}, {}, {"initialized"}, {"buffer", "cursor"}),
    Clear("clear", {}, {"buffer", "cursor"}),
    Clear("home", {}, {"cursor"}),
    Put("setCursor", {}, {"cursor"}),
    Begin("print", {}, {"cursor"}, {"buffer"}),
    Put("print", {"cursor"}, {"buffer"}),            \* at the end of the row: nothing
    Begin("println", {}, {}, {"buffer", "cursor"}),
    Put("backlight", {}, {"modes"}),                 \* display, blink, cursor, scroll
    Set("createChar", {}, {"customChars"}) }, {})

\* LiquidCrystal.h: without begin there are no rows, and print does nothing.
LiquidCrystal == Part(
  { Op("begin", {}, {}, {"lines"}, {"text"}),
    Clear("clear", {}, {"text", "cursor"}),
    Clear("home", {}, {"cursor"}),
    Put("setCursor", {}, {"cursor"}),
    Begin("print", {"lines"}, {"text"}, {"cursor"}) },
  Over({"text"}, "lines"))

\* Adafruit_GFX.h: the counters and the text of the base of every display.
Gfx == Part(
  { Set("drawPixel", {}, {"pixelCount"}),
    Set("drawLine", {}, {"lineCount"}),
    Set("fillRect", {}, {"fillRectCount"}),
    Set("drawCircle", {}, {"circleCount"}),
    Put("setCursor", {}, {"cursor"}),
    Begin("write", {}, {"printedText"}, {"cursor"}),
    Put("setTextColor", {}, {"textSettings"}),
    Put("setRotation", {}, {"rotation"}),
    Clear("resetCounters", {},
          {"pixelCount", "lineCount", "fillRectCount", "circleCount", "printedText"}) }, {})

\* Adafruit_ST7789.h
St7789 == Part(
  { Set("init", {}, {"framebuffer"}),
    Put("setRotation", {}, {"rotation"}),
    Put("drawPixel", {}, {"picture"}),               \* fillScreen, fillRect, lines
    Put("invertDisplay", {}, {"invert"}),
    Put("enableSleep", {}, {"sleep"}),
    Put("setAddrWindow", {}, {"addrWindow"}),
    Put("setSPISpeed", {}, {"spiFreq"}) }, {})

\* Adafruit_ST7735.h: initR sets the size by the tab, initB always the full one.
St7735 == Part(
  { Set("initR", {}, {"tabType"}),
    Set("initB", {}, {"tabType"}),
    Put("setRotation", {}, {"rotation"}),
    Put("drawPixel", {}, {"picture"}),
    Put("invertDisplay", {}, {"invert"}),
    Put("enableSleep", {}, {"sleep"}),
    Put("setAddrWindow", {}, {"addrWindow"}) }, {})

\* MAX7219.h: a chain of matrices; begin does not clear what was set before it.
Max7219 == Part(
  { Set("begin", {}, {"begun"}),
    Put("shutdown", {}, {"shutdown"}),
    Put("setIntensity", {}, {"intensity"}),
    Clear("clearDisplay", {}, {"display"}),
    Put("setRow", {}, {"display"}) }, {})            \* columns, LEDs, digits
=============================================================================
