---------------------------- MODULE StorageTable ----------------------------
(***************************************************************************)
(* Storage and firmware update.  Where a file system hands out files, the   *)
(* device has one file variable, which a program assigns what open returns. *)
(***************************************************************************)
EXTENDS DeviceTable

\* nvs_flash.h.  Opening does not ask whether the flash was initialized; a read-only
\* handle refuses to set but not to erase.  What is erased is one key or one
\* namespace, so others may be left.
NvsHandles == {
  Set("nvs_flash_init", {}, {"initialized"}),
  Clear("nvs_flash_erase", {}, {"data"}),
  Set("nvs_open(NVS_READONLY)", {}, {"readHandle"}),
  Set("nvs_open(NVS_READWRITE)", {}, {"writeHandle"}),
  Clear("nvs_close(read)", {"readHandle"}, {"readHandle"}),
  Clear("nvs_close(write)", {"writeHandle"}, {"writeHandle"}),
  Clear("reset", {}, {"initialized", "data", "readHandle", "writeHandle"}) }

NvsValues == {
  Set("nvs_set", {"writeHandle"}, {"data"}),
  Take("nvs_erase_key", {"writeHandle"}, "data"),
  Take("nvs_erase_key", {"readHandle"}, "data") }

NvsFlash == Device(NvsHandles \cup NvsValues, {}, "writeHandle", {"initialized", "data", "readHandle"})

\* Preferences.h.  end forgets the namespace, not that it was read-only; the values
\* are shared by all objects.
Preferences == Device(
  { Begin("begin", {}, {"ns"}, {"readOnly"}),
    Clear("end", {}, {"ns"}),
    Op("put", {}, {"readOnly"}, {"store"}, {}),
    [Take("remove", {}, "store") EXCEPT !.bars = {"readOnly"}] },   \* clear too
  {}, "ns", {"store"})

\* EEPROM.h.  Accesses outside of what begin made room for are ignored.
Eeprom == Part(
  { Set("begin", {}, {"length"}), Put("write", {"length"}, {"content"}) },
  Over({"content"}, "length"))

\* SD.h.  A file outlives the end of its card, and its modes outlive its close.
SdFile == {
  Clear("close", {}, {"valid"}),
  Put("write", {"writable"}, {"files"}) }

SdCard == {
  Set("begin", {}, {"mounted"}),
  Clear("end", {}, {"mounted"}),
  [Op("open(r)", {"mounted"}, {}, {"readable"}, {"writable"}) EXCEPT !.may = {"valid"}],
  [Op("open(w)", {"mounted"}, {}, {"writable"}, {"readable"}) EXCEPT !.may = {"valid", "files"}],
  Op("open", {}, {"mounted"}, {}, {"readable", "writable", "valid"}),
  Put("mkdir", {"mounted"}, {"files"}),
  Take("remove", {"mounted"}, "files") }

Sd == Device(SdFile \cup SdCard, {}, "mounted", {"readable", "writable", "valid", "files"})

\* SD_MMC.h.  Only end looks at what is mounted, and it empties the card; opening
\* for writing and writing put a missing entry back.
SdMmcFile == {
  Clear("close", {}, {"valid"}),
  Set("write", {"writeMode"}, {"storage"}) }

SdMmcCard == {
  Set("begin", {}, {"mounted"}),
  Clear("end", {}, {"mounted", "storage"}),
  [Op("open(r)", {}, {}, {}, {"writeMode"}) EXCEPT !.may = {"valid"}],
  Set("open(w)", {}, {"valid", "writeMode", "storage"}),
  Set("mkdir", {}, {"storage"}),
  Take("remove", {}, "storage"),
  Take("rename", {}, "storage") }     \* onto itself it loses the entry

SdMmc == Device(SdMmcFile \cup SdMmcCard, {}, "mounted", {"valid", "writeMode"})

\* SPIFFS.h, LittleFS too.  Only open asks whether the file system is mounted.
FsFile == {
  Clear("close", {}, {"valid"}),
  Put("write", {"writable"}, {"files"}) }

FileSystem == {
  Set("begin", {}, {"mounted"}),
  Clear("end", {}, {"mounted"}),
  [Op("open(r)", {"mounted"}, {}, {"readable"}, {"writable"}) EXCEPT !.may = {"valid"}],
  [Op("open(w)", {"mounted"}, {}, {"writable"}, {"readable"}) EXCEPT !.may = {"valid", "files"}],
  Op("open", {}, {"mounted"}, {}, {"readable", "writable", "valid"}),
  Set("mkdir", {}, {"files"}),
  Take("remove", {}, "files"),        \* rmdir too
  Set("rename", {"files"}, {}) }

Spiffs == Device(FsFile \cup FileSystem, {}, "mounted", {"readable", "writable", "valid", "files"})

\* Update.h.  begin forgets everything of the last update; writeStream counts
\* bytes without asking whether one runs.
Update == Device(
  { Op("begin", {}, {}, {"isRunning"}, {"written", "error", "finished", "md5"}),
    Set("write", {"isRunning"}, {"written"}),
    Op("write", {}, {"isRunning"}, {"error"}, {}),
    Set("writeStream", {}, {"written"}),
    Op("end", {"isRunning"}, {}, {"finished"}, {"isRunning"}),
    Op("end(mismatch)", {"isRunning"}, {}, {"error"}, {"isRunning"}),
    Op("abort", {}, {}, {"error"}, {"isRunning", "finished"}),
    Clear("clearError", {}, {"error"}),
    Clear("rollBack", {}, {"finished"}),
    Put("setMD5", {}, {"md5"}),
    Put("onProgress", {}, {"callback"}),
    Clear("reset", {}, {"written", "error", "isRunning", "finished"}) },
  {}, "isRunning", {"callback"})

\* ArduinoOTA.h: an update can be simulated once it has begun; nothing ends it.
ArduinoOTA == Part(
  { Put("setHostname", {}, {"hostname"}), Put("setPassword", {}, {"password"}),
    Put("setPort", {}, {"port"}), Put("setRebootOnSuccess", {}, {"keepRunning"}),
    Put("onStart", {}, {"callbacks"}),     \* onEnd, onProgress, onError too
    Set("begin", {}, {"started"}), Set("simulateOTA", {"started"}, {}) }, {})

\* ElegantOTA.h: as ArduinoOTA, but for a server and without a check.
ElegantOTA == Part(
  { Begin("begin", {}, {"running"}, {"username", "password"}),
    Put("setAutoReboot", {}, {"noReboot"}), Put("onStart", {}, {"callbacks"}) },
  Over({"username", "password"}, "running"))

\* freertos/ringbuf.h: one ring buffer.  The room of an item is free when it has been
\* received, not when it is returned.
Ringbuffer == Device(
  { Once("xRingbufferCreate", {}, {"buffer"}),
    Clear("vRingbufferDelete", {"buffer"}, {"buffer", "items"}),
    Set("xRingbufferSend", {"buffer"}, {"items"}),
    Take("xRingbufferReceive", {"buffer"}, "items") },
  Over({"items"}, "buffer"), "buffer", {})
=============================================================================
