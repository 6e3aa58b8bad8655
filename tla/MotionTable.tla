----------------------------- MODULE MotionTable -----------------------------
(***************************************************************************)
(* Motors, encoders, buttons and the controllers between them: a position   *)
(* and a target, what moves while disabled or paused, and what a stop, a    *)
(* reset or a change of mode leaves.                                        *)
(***************************************************************************)
EXTENDS DeviceTable

\* PID_v1.h.  Only a change from MANUAL to AUTOMATIC sets the sum from the output.
Pid == Device(
  { Op("SetModeAutomatic", {}, {"automatic"}, {"automatic"}, {}),
    Clear("SetModeManual", {}, {"automatic"}),
    Begin("Compute", {"automatic"}, {"computed"}, {"outputSum", "output"}),
    Put("SetOutputLimits", {}, {"limits"}),          \* refused when min is not below max
    Put("SetTunings", {}, {"tunings"}),              \* refused when one is negative
    Put("SetSampleTime", {}, {"sampleTime"}),
    Put("SetControllerDirection", {}, {"reverse"}) },
  {<<"outputSum", "computed">>, <<"output", "computed">>}, "automatic",
  {"computed", "outputSum", "output", "limits", "tunings", "sampleTime", "reverse"})

\* AccelStepper.h.  away: the position is not the target.  runSpeed leaves the target
\* behind, and running tells of the last run only: a new target while it
\* is on does not turn it off.
AccelStepper == Part(
  { Put("moveTo", {}, {"away"}),
    Set("run", {"away"}, {"running"}),
    Clear("run", {"away"}, {"running", "away"}),
    Clear("runToPosition", {"away"}, {"running", "away"}),
    Put("runSpeed", {"speed"}, {"away"}),
    Clear("stop", {}, {"away", "running"}),
    Clear("setCurrentPosition", {}, {"away"}),
    Put("setSpeed", {}, {"speed"}),
    Put("setMaxSpeed", {}, {"limits"}),
    Set("disableOutputs", {}, {"disabled"}),
    Clear("enableOutputs", {}, {"disabled"}) }, {})

\* A4988.h: it moves while disabled and before begin; stop forgets the direction.
A4988 == Part(
  { Set("begin", {}, {"begun"}),
    Put("setRPM", {}, {"settings"}),                 \* microsteps, profile
    Put("enable", {}, {"disabled"}),
    Begin("move", {}, {"totalSteps"}, {"position", "direction"}),
    Clear("stop", {}, {"direction"}),
    Clear("emu_reset", {}, {"position", "totalSteps", "direction"}) },
  Over({"position", "direction"}, "totalSteps"))

\* DRV8825.h: resetPosition forgets the position and keeps the total.
Drv8825 == Part(
  { Set("begin", {}, {"initialized"}),
    Put("setRPM", {}, {"settings"}),
    Put("enable", {}, {"disabled"}),
    Begin("move", {}, {"totalSteps"}, {"position", "direction"}),
    Clear("resetPosition", {}, {"position"}) },
  Over({"position", "direction"}, "totalSteps"))

\* TMC2209.h: disable leaves the velocity.
Tmc2209 == Device(
  { Set("setup", {}, {"setupDone"}),
    Set("enable", {}, {"enabled"}),
    Clear("disable", {}, {"enabled"}),
    Put("setRunCurrent", {}, {"settings"}),          \* hold current, microsteps
    Put("enableStealthChop", {}, {"stealthChop"}),
    Put("enableCoolStep", {}, {"coolStep"}),
    Put("setStandstillMode", {}, {"standstill"}),
    Put("moveAtVelocity", {}, {"velocity"}) },
  {}, "enabled", {"setupDone", "settings", "stealthChop", "coolStep", "standstill", "velocity"})

\* Adafruit_MotorShield.h: a motor runs without begin; releasing a stepper keeps
\* its position.
MotorShield == Part(
  { Set("begin", {}, {"begun"}),
    Put("run", {}, {"direction"}),
    Put("setSpeed", {}, {"speed"}),
    Put("setStepperSpeed", {}, {"rpm"}),
    Begin("step", {}, {"totalSteps"}, {"position"}),
    Put("setPWM", {}, {"pwm"}) },
  {<<"position", "totalSteps">>})

\* ESP32Encoder.h: ticks that come while it is paused are lost.
Esp32Encoder == Part(
  { Op("attachHalfQuad", {}, {}, {"attached"}, {"fullQuad"}),
    Set("attachFullQuad", {}, {"attached", "fullQuad"}),
    Set("attachSingleEdge", {}, {"attached"}),
    Clear("clearCount", {}, {"count"}),
    Put("setCount", {}, {"count"}),
    Set("pauseCount", {}, {"paused"}),
    Clear("resumeCount", {}, {"paused"}),
    [Put("simulateTicks", {}, {"count"}) EXCEPT !.bars = {"paused"}] },
  {<<"fullQuad", "attached">>})

\* ezButton.h.  low: the level of the pin; seenLow: the level at the last loop.  A
\* press and its release between two loops are not seen; which edges count is the mode.
EzButton == Part(
  { Set("press", {}, {"low"}),
    Clear("release", {}, {"low"}),
    Op("loop", {"low"}, {"seenLow"}, {"seenLow", "pressed"}, {"released"}),
    Op("loop", {"low"}, {"seenLow"}, {"seenLow", "pressed", "counted"}, {"released"}),
    Op("loop", {"low", "seenLow"}, {}, {}, {"pressed", "released"}),
    Op("loop", {"seenLow"}, {"low"}, {"released"}, {"seenLow", "pressed"}),
    Op("loop", {"seenLow"}, {"low"}, {"released", "counted"}, {"seenLow", "pressed"}),
    Op("loop", {}, {"low", "seenLow"}, {}, {"pressed", "released"}),
    Clear("resetCount", {}, {"counted"}) },
  {<<"pressed", "seenLow">>})

\* OneButton.h: reset forgets the clicks and not a long press.
OneButton == Part(
  { Set("attachClick", {}, {"callbacks"}),           \* every other attach
    Begin("tick", {}, {"ticks"}, {"level"}),
    Set("simulateClick", {}, {"clicks"}),
    Set("simulateLongPress", {}, {"longPressed"}),
    Clear("simulateLongPressStop", {}, {"longPressed"}),
    Put("setDebounceMs", {}, {"settings"}),
    Clear("resetButton", {}, {"ticks", "clicks"}) }, {})

\* AceButton.h: without a configuration of its own a button has the system's, and
\* the handler set in it.
AceButton == Part(
  { Set("setButtonConfig", {}, {"ownConfig"}),
    Set("setEventHandler", {}, {"handler"}),
    Put("setFeature", {}, {"features"}),
    Put("clearFeature", {"features"}, {"features"}),
    Put("setClickDelay", {}, {"delays"}),
    Set("check", {}, {"checks"}),
    Put("simulateEvent", {}, {"lastState"}) }, {})

\* ESP32Servo.h: detached it keeps its position and the range of its pulses.
Esp32Servo == Device(
  { Begin("attach", {}, {"attached"}, {"range"}),
    Clear("detach", {}, {"attached"}),
    Put("write", {"attached"}, {"pulse"}) },         \* writeMicroseconds too
  {}, "attached", {"pulse"})

\* Servo.h
Servo == Device(
  { Set("attach", {}, {"attached"}),
    Begin("attachWithRange", {}, {"attached"}, {"range"}),
    Clear("detach", {}, {"attached"}),
    Put("write", {"attached"}, {"angle"}) },
  {}, "attached", {"range", "angle"})
=============================================================================
