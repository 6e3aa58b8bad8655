----------------------------- MODULE SensorTable -----------------------------
(***************************************************************************)
(* Sensors with state: which measurement is there to be read, what reading  *)
(* takes, and what a mode, a reset or a power down leaves behind.  The      *)
(* values measured are set by the tests and are not state of the driver.    *)
(***************************************************************************)
EXTENDS DeviceTable

\* SensirionI2CScd4x.h.  A single shot makes data ready and no reading takes it;
\* stopping leaves the low power mode; a factory reset keeps the pressure.
Scd4x == Device(
  { Set("begin", {}, {"started"}),
    Set("startPeriodicMeasurement", {}, {"measuring"}),
    Set("startLowPowerPeriodicMeasurement", {}, {"measuring", "lowPower"}),
    Clear("stopPeriodicMeasurement", {}, {"measuring"}),
    Set("measureSingleShot", {}, {"dataReady"}),
    Put("test_setDataReady", {}, {"dataReady"}),
    Put("setSensorAltitude", {}, {"settings"}),      \* the offset, the calibration
    Clear("performFactoryReset", {}, {"settings"}),
    Put("setAmbientPressure", {}, {"ambientPressure"}),
    Set("powerDown", {}, {"poweredDown"}),
    Clear("wakeUp", {}, {"poweredDown"}) },
  {}, "measuring",
  {"started", "lowPower", "dataReady", "settings", "ambientPressure", "poweredDown"})

\* SCD30.h: measuring needs no begin, and a reading takes nothing.
Scd30 == Device(
  { Set("begin", {}, {"initialized"}),
    Put("beginMeasuring", {}, {"ambientPressure"}),
    Set("beginMeasuring", {}, {"measuring"}),
    Clear("stopMeasuring", {}, {"measuring"}),
    Put("setDataReady", {}, {"noData"}),
    Clear("setReadings", {}, {"noData"}),
    Put("setMeasurementInterval", {}, {"settings"}), \* and every compensation
    Clear("resetSensor", {}, {"initialized", "measuring"}) },
  {}, "measuring", {"initialized", "ambientPressure", "noData", "settings"})

\* Adafruit_SCD30.h: read takes the data, whether or not it measures.
AdafruitScd30 == Device(
  { Set("begin", {}, {"initialized"}),
    Begin("startContinuousMeasurement", {}, {"running"}, {"ambientPressure"}),
    Clear("stopContinuousMeasurement", {}, {"running"}),
    Op("read", {"initialized"}, {"noData"}, {"noData"}, {}),
    Clear("set_co2", {}, {"noData"}),
    Put("setAltitudeOffset", {}, {"settings"}) },
  {<<"noData", "initialized">>}, "running", {"initialized", "noData", "settings"})

\* SPS30.h: it measures asleep.
Sps30 == Device(
  { Set("begin", {}, {"initialized"}),
    Set("start", {}, {"measuring"}),
    Clear("stop", {}, {"measuring"}),
    Set("sleep", {}, {"sleeping"}),
    Clear("wakeup", {}, {"sleeping"}),
    Clear("resetSensor", {}, {"measuring", "sleeping"}) },
  {}, "measuring", {"initialized", "sleeping"})

\* SDS011.h: read asks for begin and not for being awake.
Sds011 == Part(
  { Set("begin", {}, {"started"}),
    Set("sleep", {}, {"sleeping"}),
    Clear("wakeup", {}, {"sleeping"}),
    Put("setWorkingPeriod", {}, {"workingPeriod"}),
    Set("setQueryMode", {}, {"queryMode"}),
    Clear("setActiveMode", {}, {"queryMode"}) }, {})

\* Adafruit_BNO055.h: one state behind every object; begin sets the mode and the
\* gravity, and leaves the rest of an earlier use.
Bno055 == Device(
  { Begin("begin", {}, {"initialized", "gravity"}, {"mode"}),
    Put("setMode", {}, {"mode"}),
    Put("setEuler", {}, {"vectors"}),                \* accel, gyro, mag, quat
    Put("setGravity", {}, {"gravity"}),
    Put("setCalibration", {}, {"calibration"}),
    Clear("resetState", {}, {"initialized", "mode", "vectors", "gravity", "calibration"}) },
  {}, "initialized", {})

\* BNO08x.h: an event is there once, whether or not its report was enabled.
Bno08x == Part(
  { Set("begin_I2C", {}, {"initialized"}),
    Set("enableReport", {}, {"enabledReports"}),
    Set("test_setSensorEvent", {}, {"dataReady"}),
    Clear("getSensorEvent", {"initialized", "dataReady"}, {"dataReady"}),
    Put("test_setReset", {}, {"wasReset"}),
    Clear("wasReset", {}, {"wasReset"}) }, {})

\* Adafruit_BME68x.h: a reading once made stays valid.
Bme68x == Part(
  { Set("begin", {}, {"initialized"}),
    Put("setTemperatureOversampling", {}, {"oversampling"}),
    Put("setIIRFilterSize", {}, {"settings"}),
    Set("setGasHeater", {}, {"gasEnabled"}),
    Set("performReading", {"initialized"}, {"readingValid"}) },
  {<<"readingValid", "initialized">>})

\* Adafruit_LSM6DS.h: begin fails while the chip is away, and what was begun stays so.
Lsm6ds == Part(
  { Op("begin_I2C", {}, {"away"}, {"begun"}, {}),
    Put("test_available", {}, {"away"}),
    Put("setAccelRange", {}, {"accelSettings"}),     \* and its data rate
    Put("setGyroRange", {}, {"gyroSettings"}),
    Clear("test_reset", {}, {"away"}) }, {})

\* Adafruit_TCS34725.h
Tcs34725 == Device(
  { Set("begin", {}, {"initialized"}),
    Set("enable", {}, {"enabled"}),
    Clear("disable", {}, {"enabled"}),
    Put("setInterrupt", {}, {"interrupt"}),
    Clear("clearInterrupt", {}, {"interrupt"}),
    Put("setIntLimits", {}, {"intLimits"}),
    Put("setGain", {}, {"settings"}) },              \* the integration time
  {}, "enabled", {"initialized", "interrupt", "intLimits", "settings"})

\* DS3231.h.  Asking whether an alarm fired forgets that it did; adjust does not
\* clear the loss of power.
Ds3231 == Part(
  { Set("begin", {}, {"initialized"}),
    Put("adjust", {}, {"now"}),
    Put("setLostPower", {}, {"lostPower"}),
    Put("setAlarm1", {}, {"alarm1"}),
    Put("setAlarm2", {}, {"alarm2"}),
    Set("fireAlarm1", {}, {"alarm1Fired"}),
    Clear("alarmFired1", {}, {"alarm1Fired"}),       \* clearAlarm too
    Set("fireAlarm2", {}, {"alarm2Fired"}),
    Clear("alarmFired2", {}, {"alarm2Fired"}) }, {})

\* RTClib.h: the clocks stand still at the time they were adjusted to.
RtcClock == Part(
  { Set("begin", {}, {"initialized"}),
    Put("adjust", {}, {"now"}),
    Put("test_setRunning", {}, {"stopped"}),
    Put("test_setLostPower", {}, {"lostPower"}),
    Put("writeSqwPinMode", {}, {"sqw"}),
    Put("writenvram", {}, {"nvram"}),
    Put("calibrate", {}, {"calibration"}) }, {})

\* CCS811.h: readAlgorithmResults takes nothing, so data stays available.
Ccs811 == Part(
  { Set("begin", {}, {"initialized"}),
    Put("setEnvironmentalData", {}, {"environment"}),
    Put("setDriveMode", {}, {"driveMode"}),
    Set("enableInterrupt", {}, {"interruptEnabled"}),
    Clear("disableInterrupt", {}, {"interruptEnabled"}),
    Put("setBaseline", {}, {"baseline"}),
    Put("test_setDataReady", {}, {"noData"}),
    Put("test_setError", {}, {"hasError"}) }, {})

\* TMP117.h: readTemperature takes the data and answers the same value again.
Tmp117 == Part(
  { Set("begin", {}, {"initialized"}),
    Set("readTemperature", {"initialized"}, {"noData"}),
    Clear("setTemperature", {}, {"noData"}),
    Put("setDataReady", {}, {"noData"}),
    Put("setConversionMode", {}, {"settings"}),      \* the cycle, the averaging
    Put("setHighLimit", {}, {"limits"}) }, {})

\* SparkFun_VL53L5CX.h: data is ready from the start, without ranging.
Vl53l5cx == Device(
  { Set("begin", {}, {"started"}),
    Set("startRanging", {}, {"ranging"}),
    Clear("stopRanging", {}, {"ranging"}),
    Set("getRangingData", {}, {"noData"}),
    Put("test_set_data_ready", {}, {"noData"}),
    Clear("test_set_results", {}, {"noData"}),
    Put("setResolution", {}, {"resolution"}),        \* refused unless 4x4 or 8x8
    Put("setRangingMode", {}, {"settings"}) },
  {}, "ranging", {"started", "noData", "resolution", "settings"})

\* MAX17048.h: reset raises the reset flag and resets nothing.
Max17048 == Part(
  { Set("begin", {}, {"begun"}),
    Put("setAlertThreshold", {}, {"alertThreshold"}),
    Put("setTestAlert", {}, {"alert"}),
    Clear("clearAlert", {}, {"alert"}),
    Set("enableHibernate", {}, {"hibernate"}),
    Clear("disableHibernate", {}, {"hibernate"}),
    Set("enableSleep", {}, {"sleeping"}),
    Clear("disableSleep", {}, {"sleeping"}),
    Set("resetGauge", {}, {"resetFlag"}),
    Clear("clearReset", {}, {"resetFlag"}) }, {})

\* Adafruit_AS7341.h
As7341 == Part(
  { Set("begin", {}, {"initialized"}),
    Put("setATIME", {}, {"settings"}),               \* the step, the gain
    Put("enableLED", {}, {"led"}),
    Put("setLEDCurrent", {}, {"ledCurrent"}),
    Put("set_channel", {}, {"channels"}) }, {})

\* ADS1115.h: the comparator once started ends with a reset only.
Ads1115 == Device(
  { Set("begin", {}, {"initialized"}),
    Put("setGain", {}, {"gain"}),
    Put("setDataRate", {}, {"dataRate"}),
    Begin("startComparator_SingleEnded", {}, {"compMode"}, {"compChannel"}),
    Put("setChannelValue", {}, {"channelValues"}),
    Clear("resetAll", {}, {"initialized", "gain", "dataRate", "compMode", "compChannel",
                           "channelValues"}) },
  {<<"compChannel", "compMode">>}, "initialized", {})

\* Adafruit_TSL2561.h: an event needs begin and not enable.
Tsl2561 == Device(
  { Set("begin", {}, {"initialized"}),
    Set("enable", {}, {"enabled"}),
    Clear("disable", {}, {"enabled"}),
    Put("enableAutoRange", {}, {"autoRange"}),
    Put("setGain", {}, {"settings"}),                \* the integration time
    Put("setLuminosity", {}, {"luminosity"}) },
  {}, "enabled", {"initialized", "autoRange", "settings", "luminosity"})

\* SparkFun_BME280.h: of the three begins, only those that know it set the address or
\* the bus; a later beginI2C does not set the bus back.
Bme280 == Part(
  { Begin("beginI2C", {}, {"initialized"}, {"i2cAddress"}),
    Set("beginSPI", {}, {"initialized", "spi"}),
    Set("begin", {}, {"initialized"}),
    Put("setMode", {}, {"runMode"}),
    Put("setFilter", {}, {"settings"}),              \* oversampling, standby
    Put("setReferencePressure", {}, {"refPressure"}) },
  Over({"i2cAddress", "spi"}, "initialized"))

\* APDS9960.h: a gesture is read once, with the gesture sensor off as well.
Apds9960 == Part(
  { Set("init", {}, {"initialized"}),
    Set("setGesture", {}, {"gestureAvailable"}),
    Clear("readGesture", {}, {"gestureAvailable"}),
    Set("enableGestureSensor", {}, {"gestureEnabled"}),
    Clear("disableGestureSensor", {}, {"gestureEnabled"}),
    Set("enableProximitySensor", {}, {"proximityEnabled"}),
    Clear("disableProximitySensor", {}, {"proximityEnabled"}),
    Set("enableLightSensor", {}, {"lightEnabled"}),
    Clear("disableLightSensor", {}, {"lightEnabled"}) }, {})

\* ICM20948.h: getAGMT takes the data, before begin and asleep as well.
Icm20948 == Part(
  { Set("begin", {}, {"initialized"}),
    Set("test_setAccel", {}, {"dataReady"}),         \* gyro, mag, temp
    Clear("getAGMT", {}, {"dataReady"}),
    Put("setFullScale", {}, {"fullScale"}),
    Put("sleep", {}, {"sleeping"}),
    Put("lowPower", {}, {"lowPower"}) }, {})

\* Adafruit_VCNL4040.h
Vcnl4040 == Part(
  { Set("begin", {}, {"initialized"}),
    Put("enableProximity", {}, {"proxEnabled"}),
    Put("enableAmbientLight", {}, {"alsEnabled"}),
    Put("setProximityIntegrationTime", {}, {"proxSettings"}),  \* high resolution
    Put("setAmbientIntegrationTime", {}, {"alsSettings"}),
    Put("setProximityLowThreshold", {}, {"thresholds"}),
    Put("enableProximityInterrupts", {}, {"proxInterrupt"}) }, {})
=============================================================================
