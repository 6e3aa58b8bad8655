------------------------------- MODULE MCBoard -------------------------------
(***************************************************************************)
(* A board: one device of the catalogue, or the event loop, the lock of the *)
(* GPIO driver or the pixels of a display, the parts that need no fairness. *)
(* Whatever this behaviour is not about keeps its initial value.            *)
(***************************************************************************)
EXTENDS Device, DriverTable, EspTable, StorageTable, NetTable,
        SensorTable, ChipTable, DisplayTable, MotionTable,
        Integers

MCDevices == [
  Twai |-> Twai, Gptimer |-> Gptimer, I2sStd |-> I2sStd, Pcnt |-> Pcnt,
  Rmt |-> Rmt, TouchPad |-> TouchPad, I2c |-> I2c, Gpio |-> Gpio, I2s |-> I2s,
  Uart |-> Uart, SpiMaster |-> SpiMaster, I2cMaster |-> I2cMaster,
  GroupTimer |-> GroupTimer, Mcpwm |-> Mcpwm, Ledc |-> Ledc,
  DacCosine |-> DacCosine, SpiSlave |-> SpiSlave, RtcIo |-> RtcIo,
  DacContinuous |-> DacContinuous, AdcOneshotDriver |-> AdcOneshotDriver,
  AdcLegacy |-> AdcLegacy, Sigmadelta |-> Sigmadelta,
  TemperatureSensor |-> TemperatureSensor, DacLegacy |-> DacLegacy,
  UsbSerialJtag |-> UsbSerialJtag, TwaiOneState |-> TwaiOneState,
  EspWifi |-> EspWifi, EspHttpClient |-> EspHttpClient, EspLcd |-> EspLcd,
  EspCamera |-> EspCamera, EspWebsocketClient |-> EspWebsocketClient,
  EspHttpServer |-> EspHttpServer, EspAdcContinuous |-> EspAdcContinuous,
  EspNow |-> EspNow, EspPartition |-> EspPartition, EspHttpsOta |-> EspHttpsOta,
  EspSleep |-> EspSleep, EspOtaOps |-> EspOtaOps, EspConsole |-> EspConsole,
  EspAdcCali |-> EspAdcCali, EspTls |-> EspTls, EspNetif |-> EspNetif,
  EspSntp |-> EspSntp, EspAdcOneshot |-> EspAdcOneshot, EspTaskWdt |-> EspTaskWdt,
  EspEfuse |-> EspEfuse, EspFlash |-> EspFlash, EspHeapCaps |-> EspHeapCaps,
  EspLog |-> EspLog, EspPm |-> EspPm, EspPthread |-> EspPthread,
  EspSpiffs |-> EspSpiffs, EspSystem |-> EspSystem, EspVfs |-> EspVfs,
  EspWearLevelling |-> EspWearLevelling, EthClass |-> EthClass,
  NvsFlash |-> NvsFlash, Preferences |-> Preferences, Eeprom |-> Eeprom, Sd |-> Sd,
  SdMmc |-> SdMmc, Spiffs |-> Spiffs, Update |-> Update, ArduinoOTA |-> ArduinoOTA,
  ElegantOTA |-> ElegantOTA, Ringbuffer |-> Ringbuffer, WiFiUdp |-> WiFiUdp,
  AsyncUdp |-> AsyncUdp, AsyncMqtt |-> AsyncMqtt, AsyncRequest |-> AsyncRequest,
  AsyncServer |-> AsyncServer, WiFiManager |-> WiFiManager,
  AsyncTcpClient |-> AsyncTcpClient, AsyncTcpServer |-> AsyncTcpServer,
  WiFi |-> WiFi, Mdns |-> Mdns, ThingSpeak |-> ThingSpeak, Ble |-> Ble,
  BleAdvertisings |-> BleAdvertisings,
  BluetoothSerial |-> BluetoothSerial, Sx1276 |-> Sx1276, Sx1262 |-> Sx1262,
  LoRaSend |-> LoRaSend, LoRaReceive |-> LoRaReceive,
  EthernetClient |-> EthernetClient, EthernetLink |-> EthernetLink,
  PubSubClient |-> PubSubClient, Scd4x |-> Scd4x, Scd30 |-> Scd30,
  AdafruitScd30 |-> AdafruitScd30, Sps30 |-> Sps30, Sds011 |-> Sds011,
  Bno055 |-> Bno055, Bno08x |-> Bno08x, Bme68x |-> Bme68x, Lsm6ds |-> Lsm6ds,
  Tcs34725 |-> Tcs34725, Ds3231 |-> Ds3231, RtcClock |-> RtcClock,
  Ccs811 |-> Ccs811, Tmp117 |-> Tmp117, Vl53l5cx |-> Vl53l5cx,
  Max17048 |-> Max17048, As7341 |-> As7341, Ads1115 |-> Ads1115,
  Tsl2561 |-> Tsl2561, Bme280 |-> Bme280, Apds9960 |-> Apds9960,
  Icm20948 |-> Icm20948, Vcnl4040 |-> Vcnl4040, Fingerprint |-> Fingerprint,
  Seesaw |-> Seesaw, AdafruitPn532 |-> AdafruitPn532, Pn532 |-> Pn532,
  Mfrc522 |-> Mfrc522, Mcp2515 |-> Mcp2515, Mcp23017 |-> Mcp23017,
  I2sArduino |-> I2sArduino, Dmx |-> Dmx, LedcChannel |-> LedcChannel,
  GpioPin |-> GpioPin, TouchCore |-> TouchCore, ModbusMaster |-> ModbusMaster,
  Midi |-> Midi, RcSwitch |-> RcSwitch, IrRecv |-> IrRecv,
  HidKeyboard |-> HidKeyboard, DfPlayer |-> DfPlayer, OneWire |-> OneWire,
  Cap1188 |-> Cap1188, Keypad |-> Keypad, PainlessMesh |-> PainlessMesh,
  Wire |-> Wire, I2cDevice |-> I2cDevice, Pca9685 |-> Pca9685,
  PwmServoDriver |-> PwmServoDriver, Si5351 |-> Si5351, DnsServer |-> DnsServer,
  TftEspi |-> TftEspi, TftSprite |-> TftSprite, U8g2 |-> U8g2, Ssd1306 |-> Ssd1306,
  Ili9341 |-> Ili9341, GxEpd2 |-> GxEpd2, Ws2812Fx |-> Ws2812Fx,
  NeoPixelBus |-> NeoPixelBus, FastLed |-> FastLed,
  LiquidCrystalI2c |-> LiquidCrystalI2c, LiquidCrystal |-> LiquidCrystal,
  Gfx |-> Gfx, St7789 |-> St7789, St7735 |-> St7735, Max7219 |-> Max7219,
  Pid |-> Pid, AccelStepper |-> AccelStepper, A4988 |-> A4988, Drv8825 |-> Drv8825,
  Tmc2209 |-> Tmc2209, MotorShield |-> MotorShield, Esp32Encoder |-> Esp32Encoder,
  EzButton |-> EzButton, OneButton |-> OneButton, AceButton |-> AceButton,
  Esp32Servo |-> Esp32Servo, Servo |-> Servo ]

CONSTANTS Posters, Handlers, MaxDepth,   \* EventLoop
          Threads,                       \* GpioLock
          Bits                           \* Framebuffer

\* Panels of up to 3 by 2 pixels, and tiles of LEDs in every layout.
Plain == [bottom |-> FALSE, right |-> FALSE, columns |-> FALSE, zigzag |-> FALSE,
          tilesX |-> 1, tilesY |-> 1]
Layouts == [bottom : BOOLEAN, right : BOOLEAN, columns : BOOLEAN, zigzag : BOOLEAN,
            tilesX : {1}, tilesY : 1..2]
Panels == [kind : {"words", "tft", "page", "stream", "paper", "canvas"},
           w : 1..3, h : 1..2, layout : {Plain}]
          \union [kind : {"strip"}, w : {2}, h : {2}, layout : Layouts]

VARIABLES
  part,
  handlers, posts,
  level, owner, phase, want, was, stolen, missed,
  panel, rotation, lit, image

TheLoop == INSTANCE EventLoop WITH Threads <- Posters
ThePin == INSTANCE GpioLock WITH old <- was
TheDisplay == INSTANCE Framebuffer

ASSUME BoardAssumption == TheDisplay!PanelsAssumption

loop == <<handlers, posts>>
pin == <<level, owner, phase, want, was, stolen, missed>>
display == <<panel, rotation, lit, image>>

boardVars == <<part, vars, loop, pin, display>>

BoardInit ==
  /\ part \in {"device", "loop", "pin", "display"}
  /\ Init /\ TheLoop!Init /\ ThePin!Init /\ TheDisplay!Init
  /\ part # "device" => dev = CHOOSE d \in DOMAIN Devices : TRUE
  /\ part # "display" => panel = CHOOSE p \in Panels : TRUE

DeviceStep == part = "device" /\ Next /\ UNCHANGED <<part, loop, pin, display>>
LoopStep == part = "loop" /\ TheLoop!Next /\ UNCHANGED <<part, vars, pin, display>>
PinStep == part = "pin" /\ ThePin!Next /\ UNCHANGED <<part, vars, loop, display>>
DisplayStep == part = "display" /\ TheDisplay!Next /\ UNCHANGED <<part, vars, loop, pin>>

BoardNext == DeviceStep \/ LoopStep \/ PinStep \/ DisplayStep

BoardSpec == BoardInit /\ [][BoardNext]_boardVars /\ WF_vars(TakeDown)

-----------------------------------------------------------------------------
\* EventLoop: a post calls every handler registered throughout it, none twice.
OncePerPost == TheLoop!OncePerPost

\* GpioLock: one thread at a time is inside and every edge calls the handler
\* once, until a second unlock has hit the lock of another thread.
ExclusiveUntilStolen == ThePin!ExclusiveUntilStolen

\* Framebuffer: no draw touches another pixel where the mapping is exact.
DrawIsExact == TheDisplay!DrawIsExact
=============================================================================
