---------------------------- MODULE DriverTable ----------------------------
(***************************************************************************)
(* The peripheral drivers under include/driver/, one device each.  Where a  *)
(* driver has several ports, pins, pads or channels, the device is one of   *)
(* them.                                                                    *)
(***************************************************************************)
EXTENDS DeviceTable

\* Mutants of TwaiUninstall: what was received is still there after the next
\* install; a driver with messages cannot be uninstalled.
TwaiUninstallKeeping ==
  Clear("twai_driver_uninstall", {"installed"}, {"installed", "started", "txLog", "rxCount"})
TwaiUninstallEmpty ==
  Op("twai_driver_uninstall", {"installed"}, {"rxQueue"}, {}, {"installed", "started", "txLog", "rxCount"})

TwaiUninstall ==
  Clear("twai_driver_uninstall", {"installed"}, {"installed", "started", "txLog", "rxQueue", "rxCount"})

\* driver/twai.h.  injectRxMessage works at any time, also before install.
Twai == Device(
  { Once("twai_driver_install", {}, {"installed"}),
    TwaiUninstall,
    Once("twai_start", {"installed"}, {"started"}),
    Clear("twai_stop", {"started"}, {"started"}),
    Set("twai_transmit", {"started"}, {"txLog"}),
    Begin("twai_receive", {"started", "rxQueue"}, {"rxCount"}, {"rxQueue"}),
    Set("injectRxMessage", {}, {"rxQueue"}),
    Clear("reset", {"installed"}, {"installed", "started", "txLog", "rxQueue", "rxCount"}) },
  Over({"started", "txLog", "rxCount"}, "installed"), "installed", {})

\* Mutant of GptimerStart: a disabled timer starts.
GptimerStartAnyhow == Set("gptimer_start", {"timer"}, {"running"})

GptimerStart == Set("gptimer_start", {"timer", "enabled"}, {"running"})

\* driver/gptimer.h: one timer handle.
Gptimer == Device(
  { Once("gptimer_new_timer", {}, {"timer"}),
    Clear("gptimer_del_timer", {"timer"}, {"timer", "alarm", "callback", "enabled", "running", "count"}),
    Put("gptimer_set_alarm_action", {"timer"}, {"alarm"}),
    Put("gptimer_register_event_callbacks", {"timer"}, {"callback"}),
    Set("gptimer_enable", {"timer"}, {"enabled"}),
    Clear("gptimer_disable", {"timer"}, {"enabled", "running"}),
    GptimerStart,
    Clear("gptimer_stop", {"timer"}, {"running"}),
    Put("gptimer_set_raw_count", {"timer"}, {"count"}),
    Put("simulate_ticks", {"timer", "running"}, {"count"}) },
  Over({"running"}, "enabled") \cup Over({"enabled", "alarm", "callback", "count"}, "timer"),
  "timer", {})

\* driver/i2s_std.h: one channel.  Deleting it leaves its buffers.
I2sStd == Device(
  { Set("i2s_new_channel", {}, {"allocated"}),
    Set("i2s_channel_init_std_mode", {"allocated"}, {"configured"}),
    Set("i2s_channel_enable", {"allocated"}, {"enabled"}),
    Clear("i2s_channel_disable", {"allocated"}, {"enabled"}),
    Set("i2s_channel_write", {"allocated"}, {"txBuffer"}),
    Take("i2s_channel_read", {"allocated"}, "rxInject"),
    Set("injectRxData", {}, {"rxInject"}),
    Clear("i2s_del_channel", {"allocated"}, {"enabled", "configured"}),
    Clear("reset", {}, {"allocated", "configured", "enabled", "txBuffer", "rxInject"}) },
  Over({"configured", "enabled", "txBuffer"}, "allocated"), "configured", {"allocated", "txBuffer", "rxInject"})

\* driver/pcnt.h: one unit.  Pulses count in a configured unit with a mode.
Pcnt == Part(
  { [Op("pcnt_unit_config", {}, {}, {"configured"}, {"count"}) EXCEPT !.may = {"posMode", "limits"}],
    Put("injectPulses", {"posMode"}, {"count"}),
    Clear("pcnt_counter_clear", {}, {"count"}),
    Put("pcnt_set_filter_value", {}, {"filterValue"}),
    Set("pcnt_filter_enable", {}, {"filter"}),
    Clear("pcnt_filter_disable", {}, {"filter"}) },
  Over({"posMode", "limits", "count"}, "configured") \cup Over({"count"}, "posMode"))

\* driver/rmt.h: one channel.  Its configuration and logs outlive the driver.
Rmt == Device(
  { Set("rmt_config", {}, {"configured"}),
    Once("rmt_driver_install", {"configured"}, {"installed"}),
    Clear("rmt_driver_uninstall", {"installed"}, {"installed"}),
    Set("rmt_write_items", {"installed"}, {"txLog"}),
    Put("injectRxItems", {}, {"rxBuffer"}),
    Clear("reset", {}, {"configured", "installed", "txLog", "rxBuffer"}) },
  Over({"installed", "txLog"}, "configured"), "installed", {"configured", "txLog", "rxBuffer"})

\* driver/touch_pad.h: the driver and one pad; init and deinit reset both.
TouchPad == Device(
  { Op("touch_pad_init", {}, {}, {"initialized"},
       {"configured", "rawValue", "threshold", "interrupt", "fsmMode", "triggerMode", "isr"}),
    Clear("touch_pad_deinit", {}, {"initialized", "configured", "rawValue", "threshold",
                                   "interrupt", "fsmMode", "triggerMode", "isr"}),
    Set("touch_pad_config", {}, {"configured"}),
    Put("touch_pad_set_thresh", {}, {"threshold"}),
    Put("touch_pad_set_trigger_mode", {}, {"triggerMode"}),
    Put("touch_pad_set_fsm_mode", {}, {"fsmMode"}),
    Set("touch_pad_isr_register", {}, {"isr"}),
    Clear("touch_pad_isr_deregister", {}, {"isr"}),
    Set("touch_pad_intr_enable", {}, {"interrupt"}),
    Clear("touch_pad_intr_disable", {}, {"interrupt"}),
    Put("inject_value", {}, {"rawValue"}) },
  {}, "initialized", {})

\* driver/i2c.h: one port, the slaves on it and one command link.
I2c == Device(
  { Set("i2c_param_config", {}, {"config"}),
    Set("i2c_driver_install", {}, {"installed"}),
    Clear("i2c_driver_delete", {}, {"installed"}),
    Once("i2c_cmd_link_create", {}, {"link"}),
    Clear("i2c_cmd_link_delete", {"link"}, {"link", "cmds"}),
    Set("i2c_master_start", {"link"}, {"cmds"}),   \* stop, write and read append too
    Set("i2c_master_cmd_begin", {"installed", "link"}, {}),
    Set("registerSlave", {}, {"slave"}),
    Clear("clearSlaves", {}, {"slave"}) },
  Over({"cmds"}, "link"), "installed", {"config", "slave", "link", "cmds"})

\* driver/gpio.h: one pin.  gpio_reset_pin forgets the state of every pin.
Gpio == Part(
  { Put("gpio_set_direction", {}, {"mode"}),
    Put("gpio_set_level", {}, {"level"}),
    Put("gpio_set_intr_type", {}, {"intrType"}),
    Set("gpio_isr_handler_add", {}, {"isr"}),
    Clear("gpio_isr_handler_remove", {}, {"isr"}),
    Clear("gpio_reset_pin", {}, {"mode", "level", "intrType", "isr"}) }, {})

\* driver/i2s.h: one port; the tests fill rx_inject themselves.
I2s == Device(
  { Set("i2s_driver_install", {}, {"installed", "config"}),
    Clear("i2s_driver_uninstall", {}, {"installed", "config", "pins", "txData", "rxInject", "rxPos"}),
    Put("i2s_set_pin", {}, {"pins"}),
    Put("i2s_set_sample_rates", {}, {"config"}),
    Set("i2s_write", {}, {"txData"}),
    Set("rx_inject", {}, {"rxInject"}),
    Set("i2s_read", {"rxInject"}, {"rxPos"}),
    Clear("reset", {}, {"installed", "config", "pins", "txData", "rxInject", "rxPos"}) },
  Over({"rxPos"}, "rxInject"), "installed", {})

\* driver/uart.h: one port.  uart_flush drops what was written, uart_driver_delete
\* both buffers but not the configuration.
Uart == Part(
  { Set("uart_param_config", {}, {"config"}),
    Clear("uart_driver_delete", {}, {"rxBuf", "txBuf"}),
    Set("injectRx", {}, {"rxBuf"}),
    Take("uart_read_bytes", {}, "rxBuf"),
    Set("uart_write_bytes", {}, {"txBuf"}),
    Clear("getTxData", {}, {"txBuf"}),
    Clear("uart_flush", {}, {"txBuf"}) }, {})

\* driver/spi_master.h: one device of the bus; the bus itself keeps nothing.
SpiMaster == Device(
  { Once("spi_bus_add_device", {}, {"device"}),
    Clear("spi_bus_remove_device", {"device"}, {"device", "responder"}),
    Put("setResponder", {"device"}, {"responder"}) },
  Over({"responder"}, "device"), "device", {})

\* Mutant of I2cDelBus: the device of the bus stays.
I2cDelBusOnly == Clear("i2c_del_master_bus", {"bus"}, {"bus", "responses", "written"})

I2cDelBus == Clear("i2c_del_master_bus", {"bus"}, {"bus", "device", "responses", "written", "rxPos"})

\* driver/i2c_master.h: a bus and one device on it; deleting the bus deletes it.
I2cMaster == Device(
  { Once("i2c_new_master_bus", {}, {"bus"}),
    Once("i2c_master_bus_add_device", {"bus"}, {"device"}),
    Set("test_set_response", {"bus"}, {"responses"}),
    Set("i2c_master_transmit", {"device"}, {"written"}),
    Begin("i2c_master_receive", {"device", "responses"}, {"rxPos"}, {}),
    Begin("i2c_master_transmit_receive", {"device"}, {"written"}, {"rxPos"}),
    Clear("i2c_master_bus_rm_device", {"device"}, {"device", "rxPos"}),
    I2cDelBus },
  Over({"device", "responses", "written"}, "bus") \cup Over({"rxPos"}, "device"), "bus", {})

\* driver/timer.h: one timer of a group.  Pausing adds what has elapsed.
GroupTimer == Part(
  { Begin("timer_init", {}, {"config"}, {"alarm"}),
    Put("timer_set_counter_value", {}, {"counter"}),
    Set("timer_start", {}, {"running"}),
    [Clear("timer_pause", {"running"}, {"running"}) EXCEPT !.may = {"counter"}],
    Put("timer_set_alarm_value", {}, {"alarmValue"}),
    Put("timer_set_alarm", {}, {"alarm"}),
    Put("timer_isr_register", {}, {"isr"}) }, {})

\* driver/mcpwm.h: one timer of a unit.
Mcpwm == Device(
  { Put("mcpwm_gpio_init", {}, {"gpio"}),
    Begin("mcpwm_init", {}, {"started"}, {"frequency", "duty"}),
    Put("mcpwm_set_duty", {}, {"duty"}),
    Put("mcpwm_set_frequency", {}, {"frequency"}),
    Set("mcpwm_start", {}, {"started"}),
    Clear("mcpwm_stop", {}, {"started"}),
    Clear("reset", {}, {"gpio", "started", "frequency", "duty"}) },
  {}, "started", {"gpio", "frequency", "duty"})

\* driver/ledc.h: one timer and one channel; nothing ties the one to the other.
Ledc == Part(
  { Begin("ledc_timer_config", {}, {"timer"}, {"freq"}),
    Begin("ledc_channel_config", {}, {"channel"}, {"duty"}),
    Put("ledc_set_duty", {}, {"duty"}),
    Put("ledc_set_freq", {}, {"freq"}),
    Set("ledc_fade_func_install", {}, {"fade"}),
    Put("ledc_set_fade_with_time", {}, {"duty"}),
    Put("ledc_stop", {}, {"duty"}),
    Clear("reset", {}, {"timer", "channel", "freq", "duty", "fade"}) }, {})

\* driver/dac_cosine.h.  The handle is the singleton: deleting leaves the
\* configuration, which the next channel overwrites.
DacCosine == Device(
  { Begin("dac_cosine_new_channel", {}, {"allocated"}, {"config"}),
    Set("dac_cosine_start", {"allocated"}, {"started"}),
    Clear("dac_cosine_stop", {"allocated"}, {"started"}),
    Clear("dac_cosine_del_channel", {"allocated"}, {"started", "allocated"}),
    Clear("reset", {}, {"started", "allocated", "config"}) },
  Over({"started"}, "allocated"), "allocated", {})

\* driver/spi_slave.h.  A transfer takes what the test injected, when it has a
\* receive buffer, and is logged.
SpiSlave == Device(
  { Set("spi_slave_initialize", {}, {"initialized"}),
    Clear("spi_slave_free", {}, {"initialized", "queued", "injectRx"}),
    Begin("spi_slave_transmit", {"initialized", "injectRx"}, {"queued"}, {"injectRx"}),
    Set("spi_slave_transmit", {"initialized"}, {"queued"}),
    Set("spi_slave_queue_trans", {"initialized"}, {"queued"}),
    Set("injectRxData", {}, {"injectRx"}),
    Clear("reset", {}, {"initialized", "queued", "injectRx"}) },
  Over({"queued"}, "initialized"), "initialized", {})

\* driver/rtc_io.h: one RTC pin; only deinit (and isolate) forget its hold.
RtcIo == Device(
  { Set("rtc_gpio_init", {}, {"initialized"}),
    Clear("rtc_gpio_deinit", {}, {"initialized", "mode", "level", "pullup", "pulldown", "hold"}),
    Put("rtc_gpio_set_direction", {}, {"mode"}),
    Put("rtc_gpio_set_level", {}, {"level"}),
    Set("rtc_gpio_pullup_en", {}, {"pullup"}),
    Clear("rtc_gpio_pullup_dis", {}, {"pullup"}),
    Set("rtc_gpio_pulldown_en", {}, {"pulldown"}),
    Clear("rtc_gpio_pulldown_dis", {}, {"pulldown"}),
    Set("rtc_gpio_hold_en", {}, {"hold"}),
    Clear("rtc_gpio_hold_dis", {}, {"hold"}) },
  {}, "initialized", {})

\* driver/dac_continuous.h.  Nothing ever turns cyclic off.
DacContinuous == Device(
  { Op("dac_continuous_new_channels", {}, {}, {"initialized"}, {"enabled"}),
    Set("dac_continuous_enable", {"initialized"}, {"enabled"}),
    Clear("dac_continuous_disable", {"initialized"}, {"enabled"}),
    Set("dac_continuous_write", {"initialized"}, {"written"}),
    Set("dac_continuous_write_cyclically", {"initialized"}, {"written", "cyclic"}),
    Clear("dac_continuous_del_channels", {"initialized"}, {"initialized", "enabled", "written"}) },
  Over({"enabled", "written"}, "initialized"), "initialized", {"cyclic"})

\* driver/adc_oneshot.h: one unit and one channel.
AdcOneshotDriver == Device(
  { Once("adc_oneshot_new_unit", {}, {"unit"}),
    Put("setRawValue", {"unit"}, {"value"}),
    Begin("adc_oneshot_config_channel", {"unit"}, {"configured"}, {"atten"}),
    Clear("adc_oneshot_del_unit", {"unit"}, {"unit", "value", "configured", "atten"}) },
  Over({"value", "configured"}, "unit") \cup Over({"atten"}, "configured"), "unit", {})

\* driver/adc.h: the converters' width and the readings the tests inject.
AdcLegacy == Part(
  { Put("adc1_config_width", {}, {"width"}),
    Set("injectADC1", {}, {"injected1"}),
    Set("injectADC2", {}, {"injected2"}),
    Clear("clearInjections", {}, {"injected1", "injected2"}) }, {})

\* driver/sigmadelta.h: one channel.
Sigmadelta == Part(
  { Begin("sigmadelta_config", {}, {"configured"}, {"duty", "prescale", "gpio"}),
    Put("sigmadelta_set_duty", {}, {"duty"}),
    Put("sigmadelta_set_prescale", {}, {"prescale"}),
    Put("sigmadelta_set_pin", {}, {"gpio"}),
    Clear("reset", {}, {"configured", "duty", "prescale", "gpio"}) }, {})

\* driver/temperature_sensor.h.  The injected reading outlives the driver.
TemperatureSensor == Device(
  { Begin("temperature_sensor_install", {}, {"installed"}, {"config"}),
    Clear("temperature_sensor_uninstall", {"installed"}, {"installed", "enabled"}),
    Set("temperature_sensor_enable", {"installed"}, {"enabled"}),
    Clear("temperature_sensor_disable", {"installed"}, {"enabled"}),
    Put("temp_sensor_inject", {}, {"injectTemp"}),
    Clear("reset", {}, {"installed", "enabled", "config", "injectTemp"}) },
  Over({"enabled"}, "installed"), "installed", {"injectTemp"})

\* driver/dac.h: one channel.  Disabling leaves its voltage, enabling zeroes it.
DacLegacy == Device(
  { Op("dac_output_enable", {}, {}, {"enabled"}, {"voltage"}),
    Put("dac_output_voltage", {"enabled"}, {"voltage"}),
    Clear("dac_output_disable", {}, {"enabled"}) },
  {}, "enabled", {})

\* driver/usb_serial_jtag.h.  Uninstalling leaves both buffers, and neither
\* read nor write asks whether the driver is installed.
UsbSerialJtag == Device(
  { Set("usb_serial_jtag_driver_install", {}, {"installed"}),
    Clear("usb_serial_jtag_driver_uninstall", {}, {"installed"}),
    Set("injectRx", {}, {"rxBuf"}),
    Take("usb_serial_jtag_read_bytes", {}, "rxBuf"),
    Set("usb_serial_jtag_write_bytes", {}, {"txBuf"}),
    Clear("reset", {}, {"installed", "rxBuf", "txBuf"}) },
  {}, "installed", {"rxBuf", "txBuf"})

\* driver_twai.h: stopped is also what a driver that was never installed is, so
\* start needs no install, and uninstall leaves both queues.
TwaiOneState == Device(
  { Op("twai_driver_install", {}, {"running"}, {}, {}),
    Op("twai_driver_uninstall", {}, {"running"}, {}, {}),
    Once("twai_start", {}, {"running"}),
    Clear("twai_stop", {"running"}, {"running"}),
    Set("twai_transmit", {"running"}, {"txQueue"}),
    Begin("twai_receive", {"running", "rxQueue"}, {"rxCount"}, {"rxQueue"}),
    Set("injectRxMessage", {}, {"rxQueue"}),
    Clear("reset", {}, {"running", "txQueue", "rxQueue", "rxCount"}) },
  {}, "running", {"txQueue", "rxQueue", "rxCount"})
=============================================================================
