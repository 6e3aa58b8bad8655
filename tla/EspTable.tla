----------------------------- MODULE EspTable -----------------------------
(***************************************************************************)
(* The services of ESP-IDF, the headers include/esp_*.h: network stacks,     *)
(* HTTP, firmware update, storage, power, watchdog and the newer ADC API.   *)
(***************************************************************************)
EXTENDS DeviceTable

\* esp_wifi.h.  deinit clears initialized and started, not connected.
EspWifi == Device(
  { Set("esp_wifi_init", {}, {"initialized"}),
    Clear("esp_wifi_deinit", {}, {"initialized", "started"}),
    Put("esp_wifi_set_mode", {"initialized"}, {"mode"}),
    Put("esp_wifi_set_config", {}, {"config"}),
    Set("esp_wifi_start", {"initialized"}, {"started"}),
    Clear("esp_wifi_stop", {}, {"started", "connected"}),
    Set("esp_wifi_connect", {"started"}, {"connected"}),
    Clear("esp_wifi_disconnect", {}, {"connected"}),
    Set("addScanResult", {}, {"scanResults"}),
    Clear("reset", {}, {"initialized", "started", "connected", "mode", "config", "scanResults"}) },
  Over({"started"}, "initialized"), "initialized", {"connected", "mode", "config", "scanResults"})

\* esp_http_client.h: one client.  Only the first perform fills the response, so
\* a second request on the same client reads what the first one left.
EspHttpClient == Device(
  { Once("esp_http_client_init", {}, {"client"}),
    Set("esp_http_client_set_url", {"client"}, {"url"}),
    Put("esp_http_client_set_method", {"client"}, {"method"}),
    Set("esp_http_client_set_header", {"client"}, {"headers"}),
    Put("esp_http_client_set_post_field", {"client"}, {"postData"}),
    Op("esp_http_client_perform", {"client"}, {"performed"}, {"performed", "body"}, {}),
    Set("esp_http_client_perform", {"client", "performed"}, {}),
    Take("esp_http_client_read", {"client"}, "body"),
    Clear("esp_http_client_cleanup", {"client"},
          {"client", "url", "method", "headers", "postData", "performed", "body"}) },
  Over({"body"}, "performed") \cup Over({"performed", "url", "method", "headers", "postData"}, "client"),
  "client", {})

\* esp_lcd.h: one panel on one I/O; deleting the one leaves the other.
EspLcd == Device(
  { Once("esp_lcd_new_panel_io", {}, {"io"}),
    Clear("esp_lcd_panel_io_del", {"io"}, {"io", "txData"}),
    Set("esp_lcd_panel_io_tx_param", {"io"}, {"txData"}),
    Once("esp_lcd_new_panel", {"io"}, {"panel"}),
    Set("esp_lcd_panel_reset", {"panel"}, {"resetDone"}),
    Set("esp_lcd_panel_init", {"panel"}, {"initialized"}),
    Put("esp_lcd_panel_draw_bitmap", {"panel", "initialized"}, {"framebuffer"}),
    Put("esp_lcd_panel_mirror", {"panel"}, {"view"}),   \* swap_xy, set_gap, invert too
    Put("esp_lcd_panel_disp_on_off", {"panel"}, {"displayOn"}),
    Clear("esp_lcd_panel_del", {"panel"},
          {"panel", "resetDone", "initialized", "framebuffer", "view", "displayOn"}) },
  Over({"txData"}, "io") \cup Over({"framebuffer"}, "initialized")
    \cup Over({"initialized", "resetDone", "view", "displayOn"}, "panel"),
  "panel", {"io", "txData"})

\* esp_camera.h.  init injects a frame when the test has not.
EspCamera == Device(
  { Begin("esp_camera_init", {}, {"initialized", "frame"}, {"config"}),
    Clear("esp_camera_deinit", {}, {"initialized", "frame", "config", "generator"}),
    Set("inject_frame", {}, {"frame"}),
    Set("frame_generator", {}, {"generator"}),
    Set("esp_camera_fb_get", {"initialized"}, {}),
    Clear("reset", {}, {"initialized", "frame", "config", "generator"}) },
  Over({"config"}, "initialized") \cup Over({"initialized"}, "frame"), "initialized", {})

\* esp_websocket_client.h: one client; the log of what was sent is global.
EspWebsocketClient == Device(
  { Once("esp_websocket_client_init", {}, {"client"}),
    Put("esp_websocket_register_events", {"client"}, {"handler"}),
    Set("esp_websocket_client_start", {"client"}, {"started", "connected"}),
    Clear("esp_websocket_client_stop", {"client"}, {"started", "connected"}),
    Set("esp_websocket_client_send_text", {"client", "connected"}, {"sentLog"}),
    Set("inject_data", {"client"}, {"rxQueue"}),
    Clear("esp_websocket_test_deliver", {"client"}, {"rxQueue"}),
    Clear("esp_websocket_client_close", {"client"}, {"connected"}),
    Clear("esp_websocket_client_destroy", {"client"},
          {"client", "handler", "started", "connected", "rxQueue"}),
    Clear("esp_websocket_test_clear", {}, {"sentLog"}) },
  Over({"connected"}, "started") \cup Over({"started", "handler", "rxQueue"}, "client"),
  "client", {"sentLog"})

\* esp_http_server.h.  A running server that is started again forgets its handlers.
EspHttpServer == Device(
  { Op("httpd_start", {}, {}, {"running"}, {"handlers"}),
    Clear("httpd_stop", {"running"}, {"running", "handlers"}),
    Set("httpd_register_uri_handler", {"running"}, {"handlers"}),
    Take("httpd_unregister_uri_handler", {"running"}, "handlers"),
    Set("dispatch", {"handlers"}, {}) },
  Over({"handlers"}, "running"), "running", {})

\* esp_adc_continuous.h.
EspAdcContinuous == Device(
  { Begin("adc_continuous_new_handle", {}, {"initialized"}, {"frameSize"}),
    Begin("adc_continuous_config", {"initialized"}, {}, {"sampleFreq", "patterns"}),
    Set("adc_continuous_start", {"initialized"}, {"started"}),
    Clear("adc_continuous_stop", {"initialized"}, {"started"}),
    Take("adc_continuous_read", {"started"}, "injected"),
    Set("test_adc_continuous_inject", {}, {"injected"}),
    Clear("adc_continuous_deinit", {"initialized"},
          {"initialized", "frameSize", "sampleFreq", "patterns", "started", "injected"}),
    Clear("reset", {}, {"initialized", "frameSize", "sampleFreq", "patterns", "started", "injected"}) },
  Over({"started", "frameSize", "sampleFreq", "patterns"}, "initialized"), "initialized", {})

\* esp_now.h.  Peers and callbacks may be registered before init; deinit drops them.
EspNow == Device(
  { Set("esp_now_init", {}, {"initialized"}),
    Clear("esp_now_deinit", {}, {"initialized", "peers", "sendCb", "recvCb", "sentLog"}),
    Put("esp_now_register_send_cb", {}, {"sendCb"}),
    Put("esp_now_register_recv_cb", {}, {"recvCb"}),
    Set("esp_now_add_peer", {}, {"peers"}),
    Take("esp_now_del_peer", {}, "peers"),
    Set("esp_now_send", {"initialized"}, {"sentLog"}),
    Clear("clearSentLog", {}, {"sentLog"}),
    Clear("reset", {}, {"initialized", "peers", "sendCb", "recvCb", "sentLog"}) },
  Over({"sentLog"}, "initialized"), "initialized", {})

\* esp_partition.h: one partition; what is not erased is flash content.
EspPartition == Part(
  { Put("esp_partition_write", {}, {"content"}),
    Put("esp_partition_erase_range", {"content"}, {"content"}),
    Clear("reset", {}, {"content"}) }, {})

\* esp_https_ota.h.  begin forgets the last update but not the injected failure,
\* and leaves the update in progress also when it reports that failure.
EspHttpsOta == Device(
  { Begin("esp_https_ota", {}, {}, {"url"}),
    Op("esp_https_ota", {}, {"shouldFail"}, {"completed"}, {}),
    [Op("esp_https_ota_begin", {}, {}, {"inProgress"}, {"completed", "downloaded"}) EXCEPT !.may = {"url"}],
    Op("esp_https_ota_perform", {"inProgress"}, {"shouldFail"}, {"downloaded"}, {}),
    Op("esp_https_ota_finish", {"inProgress"}, {}, {"completed"}, {"inProgress"}),
    Put("shouldFail", {}, {"shouldFail"}),
    Clear("reset", {}, {"inProgress", "completed", "downloaded", "shouldFail", "url"}) },
  {}, "inProgress", {"shouldFail"})

\* esp_sleep.h: the wake-up sources that are armed; only reset disarms one.
EspSleep == Part(
  { Set("esp_sleep_enable_timer_wakeup", {}, {"timer"}),
    Set("esp_sleep_enable_ext0_wakeup", {}, {"ext0"}),
    Set("esp_sleep_enable_ext1_wakeup", {}, {"ext1"}),
    Set("esp_deep_sleep_start", {}, {"deepSleep"}),
    Set("esp_light_sleep_start", {}, {"lightSleep"}),
    Put("setWakeupCause", {}, {"cause"}),
    Put("onSleep", {}, {"onSleep"}),
    Clear("reset", {}, {"timer", "ext0", "ext1", "deepSleep", "lightSleep", "cause", "onSleep"}) }, {})

\* esp_ota_ops.h.  The image stays after end, begin drops it.
EspOtaOps == Device(
  { Op("esp_ota_begin", {}, {}, {"inProgress", "target"}, {"written"}),
    Set("esp_ota_write", {"inProgress"}, {"written"}),
    Clear("esp_ota_end", {"inProgress"}, {"inProgress"}),
    Set("esp_ota_set_boot_partition", {}, {"boot"}),
    Clear("reset", {}, {"inProgress", "target", "written", "boot"}) },
  Over({"inProgress", "written"}, "target"), "inProgress", {"boot"})

\* esp_console.h.
EspConsole == Part(
  { Clear("esp_console_init", {}, {"commands"}),
    Clear("esp_console_deinit", {}, {"commands"}),
    Set("esp_console_cmd_register", {}, {"commands"}),
    Set("esp_console_run", {"commands"}, {}),
    Clear("reset", {}, {"commands"}) }, {})

\* esp_adc_cali.h: one calibration scheme.
EspAdcCali == Device(
  { Once("adc_cali_create_scheme", {}, {"scheme"}),
    Set("adc_cali_raw_to_voltage", {"scheme"}, {}),
    Clear("adc_cali_delete_scheme", {"scheme"}, {"scheme"}) }, {}, "scheme", {})

\* esp_tls.h: one connection.
EspTls == Device(
  { Once("esp_tls_init", {}, {"tls"}),
    Set("esp_tls_conn_new_sync", {"tls"}, {"connected"}),
    Once("esp_tls_conn_new", {}, {"tls", "connected"}),
    Set("esp_tls_conn_write", {"tls", "connected"}, {"written"}),
    Put("esp_tls_conn_read", {"tls", "connected"}, {"read"}),
    Clear("esp_tls_conn_destroy", {"tls"}, {"tls", "connected", "written", "read"}) },
  Over({"written", "read"}, "connected") \cup Over({"connected"}, "tls"), "tls", {})

\* esp_netif.h.  The addresses of the interfaces are only restored by reset.
EspNetif == Device(
  { Set("esp_netif_init", {}, {"initialized"}),
    Clear("esp_netif_deinit", {}, {"initialized"}),
    Put("setStaIp", {}, {"staIp"}),
    Clear("reset", {}, {"initialized", "staIp"}) }, {}, "initialized", {"staIp"})

\* esp_sntp.h.  init reports a completed synchronisation.
EspSntp == Device(
  { Put("sntp_setoperatingmode", {}, {"opmode"}),
    Put("sntp_setservername", {}, {"servers"}),
    Put("sntp_set_sync_mode", {}, {"syncMode"}),
    Set("sntp_init", {}, {"initialized", "synced"}),
    Clear("sntp_stop", {}, {"initialized", "synced"}),
    Put("set_sync_callback", {}, {"syncCb"}),
    Put("set_time_offset", {}, {"offset"}),
    Clear("reset", {}, {"opmode", "servers", "syncMode", "initialized", "synced", "syncCb", "offset"}) },
  Over({"initialized"}, "synced") \cup Over({"synced"}, "initialized"), "initialized",
  {"opmode", "servers", "syncMode", "syncCb", "offset"})

\* esp_adc_oneshot.h.  Deleting a unit leaves its channels configured.
EspAdcOneshot == Device(
  { Set("adc_oneshot_new_unit", {}, {"unit"}),
    Set("adc_oneshot_config_channel", {"unit"}, {"configured"}),
    Clear("adc_oneshot_del_unit", {"unit"}, {"unit"}),
    Put("_test_adc_oneshot_set_value", {}, {"value"}),
    Clear("reset", {}, {"configured", "value"}) },
  {}, "unit", {"configured", "value"})

\* esp_task_wdt.h.  add subscribes also when it fails, and deinit keeps the
\* subscription: the next session feeds without an add of its own.
EspTaskWdt == Device(
  { Op("esp_task_wdt_init", {}, {}, {"initialized", "fed"}, {"triggered", "feedCount"}),
    Clear("esp_task_wdt_deinit", {}, {"initialized"}),
    Set("esp_task_wdt_add", {}, {"subscribed"}),
    Clear("esp_task_wdt_delete", {}, {"subscribed"}),
    Set("esp_task_wdt_reset", {"initialized", "subscribed"}, {"fed", "feedCount"}),
    Op("simulateTimeout", {}, {}, {"triggered"}, {"fed"}),
    Clear("reset", {}, {"initialized", "subscribed", "fed", "triggered", "feedCount"}) },
  {}, "initialized", {"subscribed"})

\* esp_efuse.h: the blocks; a written bit can be overwritten.
EspEfuse == Part(
  { Put("esp_efuse_write_block", {}, {"blocks"}),
    Put("chip_revision", {}, {"revision"}),
    Clear("reset", {}, {"blocks", "revision"}) }, {})

\* esp_flash.h: writing can only clear bits, erasing sets them.
EspFlash == Part(
  { Put("esp_flash_write", {}, {"content"}),
    Put("esp_flash_erase_region", {"content"}, {"content"}),
    Clear("esp_flash_erase_chip", {}, {"content"}),
    Clear("reset", {}, {"content"}) }, {})

\* esp_heap_caps.h: what was ever allocated is counted, freeing is not.
EspHeapCaps == Device(
  { Set("heap_caps_malloc", {}, {"block", "totalAllocated"}),
    Clear("heap_caps_free", {"block"}, {"block"}),
    Put("setFreeSize", {}, {"freeSize"}) }, 
  Over({"block"}, "totalAllocated"), "block", {"freeSize"})

\* esp_log.h.
EspLog == Part(
  { Put("esp_log_level_set", {}, {"level"}),
    Put("setCallback", {}, {"callback"}),
    Put("log_printf", {}, {"counts"}),
    Clear("reset", {}, {"level", "callback", "counts"}) }, {})

\* esp_pm.h: one count for every lock; deleting a lock that is held leaves it.
EspPm == Part(
  { Put("esp_pm_configure", {}, {"config"}),
    Set("esp_pm_lock_acquire", {}, {"locks"}),
    Take("esp_pm_lock_release", {}, "locks"),
    Clear("reset", {}, {"config", "locks"}) }, {})

\* esp_pthread.h.
EspPthread == Part(
  { Set("esp_pthread_set_cfg", {}, {"configured"}),
    Clear("reset", {}, {"configured"}) }, {})

\* esp_spiffs.h.  Unmounting keeps the usage, only a mounted one is formatted.
EspSpiffs == Device(
  { Once("esp_vfs_spiffs_register", {}, {"mounted"}),
    Clear("esp_vfs_spiffs_unregister", {}, {"mounted"}),
    Put("set_usage", {}, {"used"}),
    Clear("esp_spiffs_format", {"mounted"}, {"used"}),
    Clear("reset", {}, {"mounted", "used"}) }, {}, "mounted", {"used"})

\* esp_system.h.  esp_restart is recorded and returns.
EspSystem == Part(
  { Put("_reset_reason", {}, {"resetReason"}),
    Put("_free_heap", {}, {"freeHeap"}),
    Set("esp_restart", {}, {"restartCalled"}),
    Clear("reset", {}, {"resetReason", "freeHeap", "restartCalled"}) }, {})

\* esp_vfs.h: one base path.
EspVfs == Device(
  { Set("esp_vfs_register", {}, {"registered"}),
    Clear("esp_vfs_unregister", {"registered"}, {"registered"}),
    Clear("reset", {}, {"registered"}) }, {}, "registered", {})

\* esp_wear_levelling.h: one mounted partition; its content goes with the mount.
EspWearLevelling == Device(
  { Once("wl_mount", {}, {"mounted"}),
    Clear("wl_unmount", {}, {"mounted", "content"}),
    Put("wl_write", {"mounted"}, {"content"}),
    Put("wl_erase_range", {"mounted", "content"}, {"content"}) },
  Over({"content"}, "mounted"), "mounted", {})

\* ETH.h.  setLinkUp reports a link also before begin.
EthClass == Part(
  { Set("begin", {}, {"started", "connected", "linkUp"}),
    Set("config", {}, {"staticIP"}),
    Set("setLinkUp", {}, {"connected", "linkUp"}),
    Clear("setLinkUp", {}, {"connected", "linkUp"}),
    Put("setLinkSpeed", {}, {"linkSpeed"}), Put("setFullDuplex", {}, {"halfDuplex"}),
    Put("setHostname", {}, {"hostname"}),
    Clear("reset", {}, {"started", "connected", "linkUp", "staticIP", "linkSpeed",
                        "halfDuplex", "hostname"}) },
  Over({"connected"}, "linkUp") \cup Over({"linkUp"}, "connected"))
=============================================================================
