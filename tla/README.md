# esp32emu in TLA+

esp32emu compiles ESP32 programs (Arduino and ESP-IDF) for a host computer. The
repository is about 300 headers in `include`, each a replacement for a library
or a driver, and a few `.cpp` files. Two kinds of code are in them. The services
on which a program's threads meet are real: they are built from `std::thread`,
`std::mutex`, `std::condition_variable`, atomics and sockets, and what can go
wrong in them is an interleaving. The drivers, clients, stores, sensors and
displays are singletons or objects with a handful of flags and containers, and
what can go wrong in them is an order of calls: something that stays on when what
it rests on is off, something of one session that turns up in the next.

This directory models both in TLA+: the first kind one module each, the second
as a catalogue of devices under one specification. TLC checks small instances,
and TLAPS proves the safety of it, with the exceptions named below, for all values
of the constants.

Paths below are relative to `src/`; FreeRTOS headers are in `include/freertos`.

* [Inventory](#inventory)
* [The plan](#the-plan)
* [The modules and the code](#the-modules-and-the-code)
* [What the runs show](#what-the-runs-show)
* [Disagreements between code and documents](#disagreements-between-code-and-documents)
* [Fairness](#fairness)
* [What is proved](#what-is-proved)
* [Abstractions and limits](#abstractions-and-limits)
* [Not modelled](#not-modelled)
* [How to run it](#how-to-run-it)

## Inventory

| Component | State | Operations | Hard part |
|---|---|---|---|
| Queue, `queue.h` | a deque, one mutex, two condition variables | send to back or front, receive, peek, reset, ISR variants, delete | one notification per change (`notify_one`): every item needs a woken receiver and every slot a woken sender; deadlines race with notifications; two kinds of call sleep on one condition variable |
| Event group, `event_groups.h` | a word of bits, one mutex, one condition variable | set, clear, wait (any or all, clearing or not), sync | waiters consume bits from each other; timeouts; sync takes the mutex twice |
| Task notification, `FreeRTOS.h` | a word and a pending flag per task | `xTaskNotify` with five actions, give, take, wait | notifications between the look and the sleep; three uses of one word; the wrap of the counter |
| Tasks and mutexes, `FreeRTOS.h` | the list of tasks, a record and a thread per task | create, delete, delay, `cleanupTasks` | a record is read after it is public; joins that depend on the tasks ending; tasks made while a cleanup runs |
| Software timer, `timers.h` | atomics `running` and `deleted`, plain fields, a worker thread that start spawns | start, stop, reset, change period, delete | no lock: every call is a sequence of steps; join and assignment of a thread object may terminate the program |
| esp_timer, `include/esp_timer.h` | atomics, a worker thread that lives as long as the timer | create, start periodic or once, stop, delete | start takes no lock; the worker sleeps through a stop; delete must outlive the worker |
| Ticker, `include/Ticker.h` | a worker thread, an atomic flag, plain fields | attach, once, detach | the callback may be running when the ticker is attached anew |
| Stream and message buffer, `stream_buffer.h` | a ring of bytes: `buf`, `head`, `count`, one mutex | send, receive, reset; the same with a length in front | wrapped indices and cut transfers; a message is two transfers under two locks |
| Event loop, `include/esp_event.h` | a list of handlers, one mutex | register, unregister, post | handlers of a snapshot run after the unlock and change the list |
| MQTT client, `include/mqtt_client.h` | flags, subscriptions, ids, a mutex, the program's handler | start, stop, subscribe, unsubscribe, publish; the simulated broker | the handler runs under the mutex |
| PubSubClient, `include/PubSubClient.h` | subscriptions, a mutex, the callback | connect, disconnect, subscribe, unsubscribe, publish | the callback runs under the mutex, disconnect takes none |
| HTTP client and server, `src/httpclient.cpp`, `src/wificlient.cpp`, `src/webserver.cpp` | sockets, the last answer; a listening socket, the request | GET, POST; begin, close, `handleClient`, `send` | the end of a stream, a reset and a timeout are one thing to `recv`; a second begin loses the listener; a backlog |
| GPIO interrupts, `include/driver/gpio.h` | levels and handlers of pins under a mutex | set level, install, add and remove handlers | a lock guard is destroyed twice around the handler |
| TaskScheduler, `include/TaskScheduler.h` | a vector of tasks with iterations | `execute`, enable, disable, set, add, delete | callbacks set the very tasks the scheduler walks over |
| Displays | a frame buffer, size, rotation | `drawPixel`, `getPixel`, clear, rotate | where a pixel is kept, computed in eight ways |
| Drivers, services, stores, clients, sensors, chips, motors (165 devices) | flags, containers, values | install, start, use, stop, uninstall | sequences of calls: what rests on what, and what survives a session |
| Boards, terminal, formats, ciphers | tables, buffers | parsers, printers | functions of their input |

The components interact through the program that uses them. A task blocks in a
queue, an event group or its notification, and other tasks, ISR variants and
timer callbacks wake it; nothing in the queue calls the event group or the
reverse. All of them rely on the host's threads, mutexes, clock and sockets.
Calls from below into the program are the interesting ones: a timer or Ticker
callback on the worker's thread, the MQTT handler and the PubSubClient callback
under the client's mutex, handlers of the event loop and of a GPIO interrupt
after the mutex was released, callbacks and hooks of the cooperative scheduler in
the middle of its loop. HTTPClient and WebServer meet through the kernel's
connections. Nothing persists across a crash of these services: files and NVS
are maps in memory, so there is no crash and recovery to model.

What makes them correct, component by component:

* Queue: each call takes effect at one instant; no item is lost, repeated or
  out of order; nobody sleeps beside an item or a slot that is his; calls return.
* Event group: nobody sleeps while his condition holds; a bit never vanishes
  unless a caller has seen it; each call takes effect at one instant, and one that
  fails takes nothing and fails only while its bits are not there.
* Notification: none is slept through or dropped; gives and takes are a counting
  semaphore; posts that may not overwrite are a queue of one.
* Tasks: a record is deleted when its thread is over; no live task is forgotten.
* Timers and Ticker: no callback after a stop has returned, none early, one
  worker at most, no use of a freed timer; a started timer fires, a call returns.
* Stream buffer: a first-in first-out stream of bytes; a message buffer keeps
  messages whole.
* Event loop, MQTT and PubSubClient: a handler that is registered throughout a post
  is called once; a call returns.
* HTTP: a 200 is the whole answer to this very request; requests return.
* TaskScheduler: a task runs as often as it was told.
* Displays: a draw changes one pixel.
* Devices: an upper part is never on over a lower one that is off; a session
  starts clean; what is open can be closed.

`PROJECT.json` lists every hazard at its line, and the properties against it.

## The plan

Order of work, most important first. Steps 1 to 12 are done.

1. Queue: the abstract `BoundedQueue`, `Queue` down to its condition variables,
   refinement, stranding, and proofs of all three.
2. Event group: the abstract `EventWord`, missed wakeups, consumed bits and
   refinement, with proofs; a barrier over it.
3. Task notifications, alone and in their uses as counter and mailbox; the
   mailbox implements `BoundedQueue` of capacity 1. Proofs of all three.
4. Software timer and esp_timer as unlocked steps; proofs about esp_timer.
5. Stream buffer as implementation of `ByteStream`, with proof; the message
   buffer on top of it, with receive buffers that are too short.
6. The MQTT client with the handler of the repository's example.
7. Tasks: creation in three steps, `vTaskDelete`, `cleanupTasks`, with proofs.
8. Event loop, Ticker, PubSubClient, the lock of the GPIO driver.
9. HTTPClient against WebServer; TaskScheduler, with a proof; frame buffers.
10. The catalogue: a vocabulary for devices, what any catalogue of well-formed
    devices promises, proved once, and eight tables.
11. Proofs of the rest of the invariants: the software timer, whole messages, and
    the parts of `MCBoard` and `MCParts`, each carried over to the composition.
12. The violations for any number of threads: the barrier that lets one past, and
    the MQTT client, whose calls wait for ever with one kind of handler and
    not with another.
13. Left: two controllers of a software timer; a callback of an esp_timer that
    starts the timer again.

Composition. `EventBarrier` extends `EventGroup` with threads that meet at a
barrier; `NotifyUse` extends `TaskNotify` with programs that use it;
`MessageBuffer` extends `StreamBuffer` with the two-part calls; `Device` extends
`DeviceTable` and `MCBoard` extends `Device` with the tables. `HttpExchange`
composes client, kernel and server. `BoundedQueue`, `EventWord` and `ByteStream` are
the abstract specifications; `Queue` and `NotifyUse` are shown to implement the
first, `EventGroup` the second, `StreamBuffer` and `MessageBuffer` the third. The image of a program is
the specification of `Framebuffer`, the buffer the implementation.

## The modules and the code

In all models of code under a mutex, one action is one stretch of a call from
the moment the thread gets the mutex to the moment it releases it, by return or
by sleeping in `wait_for`. A sleeping thread leaves the condition variable
because it is notified, because its deadline passes or spuriously; it then
competes for the mutex with everybody else and evaluates its predicate again, as
`wait_for` with a predicate does. In the timers and in the tasks, which have
hardly any locks, one action is one access to what others see.

### Services on which threads meet

**`BoundedQueue`** is what a queue promises without locks and clocks: `Wait`,
`Serve`, `Refuse` and `Empty` on a sequence of items.

**`Queue`** is `queue.h`. `items`, `cvNotEmpty` and `cvNotFull` are the fields of
`QueueData` (of a condition variable: the set of its sleepers); `call`, `late`
and `ret` are where each thread is, whether its deadline has passed and what it
got. `Send`, `Receive`, `Peek` and `Reset` are the functions; `Sleep` is a
predicate that is false, `Fail` a `pdFAIL`, at once with no ticks or after the
deadline; `NotifyOne` is `notify_one`. The ISR variants are calls with 0 ticks.
`MCQueue` has the programs of the runs.

**`EventWord`** is what an event group promises without locks and clocks: `Raise`
and `Drop` change the word; a wait may `Begin`, and is served (`Serve`) or refused
(`Refuse`) at one instant, the latter only while its bits are not there; `Meet` is
a sync.

**`EventGroup`** is `event_groups.h`: `SetBits`, `ClearBits`, the wait in
`WaitSleep` and `WaitReturn`, `Sync` as the first half of `xEventGroupSync` (its
second half is a wait). A poll begins and ends in one `WaitReturn`. `ret` is the last
return: by whom, of which wait, with which word. **`EventBarrier`** is a program in
which every thread announces a bit of its own (named after it) with
`xEventGroupSync` and waits for all; `stage` is where each is.

**`TaskNotify`** is the notification of one task, in `FreeRTOS.h`: `Notify` and
`NotifyFails` for `xTaskNotify` with all its actions, `Take` and `Wait` for the
functions of those names. Bit operations are defined on `Width`-bit words.
**`NotifyUse`** adds three programs: one that does anything, a counter (gives and
takes only) with the counts its author could keep, and a mailbox (posts that may
not overwrite, waits that fetch).

**`Tasks`** is the rest of `FreeRTOS.h`: `StartThread`, `List` and `Report` are the
three steps of `xTaskCreate`, of which only the second is under the mutex; `Swap`,
`JoinAndDelete` and `FinishCleanup` are `cleanupTasks`; `Delete` is `vTaskDelete`,
which turns a flag off that no task looks at. The main thread and every task may
create tasks.

**`SoftTimer`** is `timers.h`, one timer. A call is a sequence of steps in
`todo`, one step per atomic access, join or spawn (`StartSteps`, `StopSteps`,
`Steps`); the actions `Check` to `Free` execute them. The worker is in `pc`:
`Top`, a sleep that may `Quit` at any poll of the flags, `Fire`,
`CallbackReturns`. The callback may make calls itself. `terminated` is what C++
does when a thread joins itself or a joinable thread object is assigned.

**`EspTimer`** is `include/esp_timer.h`, one timer, any number of controllers.
Start is three stores (`SetPeriod`, `SetMode`, `SetRunning`); `Halt` is
`esp_timer_stop` under the mutex; `Kill`, `Clear`, `Join`, `Free` are delete. The
worker is `Loop`, `Arm` (it reads the period), `Wake` (under the mutex),
`CallbackReturns` and `Expire`.

**`Ticker`** is `include/Ticker.h`: `Begin` and `Join` are `detach`, which begins
every `attach` and `once`; `SetAndSpawn` is the rest of them; `Top`, `Wake` and
`CallbackReturns` are the loop of the worker; `CallbackDetaches` is a callback that
joins its own thread.

**`ByteStream`** is the promise of a stream buffer: `Put`, `Take`, `Clear`.
**`StreamBuffer`** is the ring of `stream_buffer.h`; the loop that copies byte by
byte is the function `Written` or the sequence `Read`, computed with the wrapped
index of the code. **`MessageBuffer`** is the two message functions, three locked
stretches each, by one sender and one receiver, whose buffer may be too short for
a message (`Rooms`): the call has then taken the length and leaves the data
(`torn` remembers it). `Encoded` has the bytes of every length, as a `uint32_t`
lies in memory, and `Decode` reads them back, with zeros for the bytes that a short
receive has not filled.

**`EventLoop`** is `include/esp_event.h`: each thread has a stack of posts, and a
post is what it has still to call of the snapshot it took under the mutex.
Handlers register, unregister and post.

**`MqttClient`** is `include/mqtt_client.h`: each thread has a `stack` of calls;
`Enter` takes the mutex and does the work, `Handler` runs the program's handler,
`Return` releases the mutex; `BrokerActs` are the helpers of namespace
`esp32emu::mqtt`, which call the handler without the mutex. The handler is a
constant, `OnEvent`: the call it makes on each event. In `MCMqttClient` it is
that of the repository's example, in `MCParts` one that answers messages.

**`PubSub`** is `include/PubSubClient.h`: `Subscribe` and `Publish` take the mutex,
`Compare` is one round of the loop over the copied iterator, `Disconnect` clears
the vector without the mutex (`torn`), `CallbackCalls` is the callback that waits
for its own thread. `Matches` is `topicMatch`.

**`HttpExchange`** is HTTPClient, WiFiClient, WebServer and, external, the kernel
between them. A connection has two ends and a count of parts in each direction; a
close with unread data resets it, a reset may throw away what has arrived
(`MayDrop`). The client's `Connect` to `Finish` are GET and POST, the server's
`Accept` to `Hangup` are `handleClient`. `Begin` on a server that listens
already overwrites its socket: connections then wait in a backlog for ever.

**`GpioLock`** is the mutex of `include/driver/gpio.h` around one pin with an
any-edge interrupt: `Fire` is the lock guard destroyed by hand before the handler,
`HandlerReturns` its second destruction, which unlocks a mutex the thread
may not hold: it releases whoever holds it, or does nothing.

**`TaskScheduler`** is `include/TaskScheduler.h`: `Execute` begins a pass, `Skip`,
`NothingToRun`, `CallBack`, `CallbackReturns` and `HookReturns` are its steps, and in
`"loop"`, a callback or a hook the program may enable, disable and set any task.

**`Framebuffer`** is where eight display libraries keep a pixel: `Cell` is the word
or bit that `drawPixel` writes, `Kept` its early returns, `Screen` what
`width()` and `height()` promise after `setRotation`, `StripIndex`
`Adafruit_NeoMatrix::_pixelIndex` with all its layouts.

### The catalogue of devices

**`DeviceTable`** is the vocabulary. A device is the set of flags that are on; a
flag is a BOOLEAN of the code, a container that is not empty or a value that is not
its default. A call has what it `needs` on and `bars` on, what it `sets`, what it
`clears` and what it `may` leave either way, as the data decide. Two calls of one
name are the two branches of one function. A device also states its `layers`
(which flag rests on which), its `session` flag and what it `keeps` of one session
for the next: these are read off the code too, and are what the properties hold
the calls to. `WellFormed` says, call by call, what makes layers and sessions
right.

**`Device`** is one device of a catalogue and a program that calls it in any order,
until it decides to take everything down.

The tables, each a module with a definition per device, mapped to its header:

| Table | Devices |
|---|---|
| `DriverTable` | the 26 drivers of `include/driver` |
| `EspTable` | the services of `include/esp_*.h`: WiFi, HTTP client and server, OTA, TLS, websocket, camera, LCD, ADC, netif, sleep, watchdog, flash, heap |
| `StorageTable` | NVS, Preferences, EEPROM, SD, SD_MMC, SPIFFS, partitions, Update, ArduinoOTA, ElegantOTA, the ring buffer |
| `NetTable` | UDP, AsyncUDP, AsyncTCP, the async server, MQTT clients, WiFi, mDNS, Ethernet, Bluetooth, LoRa |
| `SensorTable` | sensors that start, measure and hand over |
| `ChipTable` | cards, fingers, keys, CAN, DMX, I2S, Wire, pins and channels of the Arduino core |
| `DisplayTable` | what drawing reaches a panel and survives a begin, a clear, a new sprite |
| `MotionTable` | motors, steppers, encoders, PID, servos, buttons |

Three conventions, chosen so that a row is true: an object that has one of a kind
(port, pin, channel, file) stands for each of them; a setter may store the
default (`Put`); a container loses an element (`Take`) and may keep others.

**`MCBoard`** puts the catalogue, the event loop, the GPIO lock and the frame
buffers side by side, and **`MCParts`** the parts that need fairness: tasks, Ticker,
PubSubClient, MQTT, HTTP and the cooperative scheduler. `part` says which one a behaviour
is about; the others do not move, because in the code they do not touch each
other.

## What the runs show

| Run | Bounds | What it shows |
|---|---|---|
| `queue_plain` | 3 threads, 2 items, capacity 2 | In a program that sends and receives, one notification per change is enough: no receiver is stranded beside an item, no sender beside a slot. The queue implements `BoundedQueue`. |
| `queue_all` | 3 threads, 1 item, capacity 1 | With peeks and resets stranding does happen (a peek swallows the notification of a send, a reset sends none), and every call returns nevertheless, because every wait has a deadline. |
| `event_group` | 3 threads, 2 bits, 5 kinds of wait, of which two polls that consume | No missed wakeup; no bit vanishes unless the caller who cleared it reports it; the group implements `EventWord`, in which a poll, timeout or sync that fails takes nothing and fails only while its bits are not there; waits end. |
| `event_barrier_sync` | 3 threads, 3 bits | Violation: a barrier strands threads. |
| `task_notify` | 2 notifiers, 3-bit word, 7 gives | Notifications are neither missed nor dropped by anybody but their receiver; gives are conserved and all taken in the end; the mailbox is a queue of one. |
| `soft_timer` | 1 controller, 2 worker identities, periods 1 and 2, a callback that starts and stops | Any sequence of calls, at any moments of the worker: no `std::terminate` unless a callback joins its own thread, one worker at most, active means that a worker lives, nothing uses a freed timer, no early callback, calls return, an active timer fires. |
| `esp_timer` | 2 controllers, periods 1 and 2, both modes, restarts | After a stop there is silence, a one-shot timer fires once, delete outlives the worker, a start is followed by a callback, and no callback is early unless its sleep began before the start. |
| `message_buffer` | 3 byte values, capacity 5, length prefix of 2 bytes, 4 messages of 1 or 2 bytes, receive buffers of 1 or 2; plain streams too | The ring is a first-in first-out stream wherever its indices are; messages are whole and in order if calls do not overlap and no receive buffer was too short. |
| `message_buffer_overlap` | the same, overlapping, long buffers | Violation: a cut message. |
| `mqtt_subscribe_on_connect` | 1 thread, 2 topics, 2 ids | Violation: a call from the handler does not return. |
| `devices` | the whole catalogue; 2 posters, 2 handlers, 2 nested posts; 3 threads on a pin; panels up to 3 by 2, bytes of 2 bits, strips of 2 by 2 in all layouts | No sequence of calls leaves an upper part on over a lower one that is off; a session finds nothing of the last one but what the table says is kept; what is open can be closed. A post calls each handler that stays registered once. One thread at a time is inside the GPIO lock until a second unlock steals it. A draw touches one pixel where the mapping is exact. |
| `parts` | 3 tasks, one endless; 2 callbacks, 3 fires; 2 HTTP clients, one with two requests, a backlog of 1; 2 cooperative tasks of up to 2 iterations, 2 listed; 2 publishers, 3 filters, 2 subscriptions; an MQTT client of 2 threads, 1 topic and 1 id besides those of the handler, which answers messages | Records are deleted when their threads are over, no task is forgotten; old Ticker callbacks are silent; HTTP answers are whole unless late; periods of cooperative tasks are whole; a publish calls back once per match; every call that can return does, and who has the mutex of the MQTT client lets go of it if the handler calls the client on messages only. |

Why the bounds are enough for what they are meant to catch. Stranding needs
two sleepers on one side and one on the other, hence three threads; with
capacity 2 two sends can outrun the receivers, and with two items an exchanged
order is visible. Three threads let two waiters fight for one bit while a third
sets it. A word of 3 bits has room for 7 gives, and the notices of the free
program wrap it. Worker identities: at most one worker of a timer is alive and
one may have ended and wait for its join. Periods of 1 and 2 ticks are enough for
a new period to be longer or shorter than the old one. A ring of 5 cells, with
messages of 3 and 4 bytes, prefix included, reaches every offset of the head and
every overlap with the last cell. The theft of the GPIO lock takes a thread whose
second unlock is due, one that holds the mutex and one that enters behind it: three.
A task that creates a task during a cleanup, beside an endless one: three. A
backlog of one fills with one client while another calls; a second request of one
client can find the first answer still in `body`. Two callbacks tell an old Ticker
from a new one. A byte of two bits has a last byte that a line of 3 pixels does not
fill. A catalogue device has up to about ten flags, and TLC visits all their
reachable combinations: there is no bound.

Deadlock is checked in the queue, event group and notification runs: their
threads can always call again. In the timer runs the check finds nothing, because
the clock always ticks; that no thread is stuck is what `TimerLives` says. It is off
(`CHECK_DEADLOCK FALSE`) where the configuration really stops: when all messages
have been sent, at the end of a barrier, when the mutex of the MQTT client is
never released or its ids are used up, when a program waits for an endless task,
has terminated or stops calling.

Every property of a passing run has a mutant of the code (the definitions
commented "Mutant of" in the modules) that makes it fail: a forgotten
notification, one slot too many, a timeout that fails without a last look, a
receiver without a deadline, a result that is read after the bits are cleared, a
stop without its lock, a join that does not wait, an index that is not wrapped, a
snapshot that misses a handler, swapped coordinates, an uninstall that keeps what
was received or that refuses while something is left.

## Disagreements between code and documents

Three runs are violations. Each has a counterexample that a reader can replay.

1. `event_barrier_sync`: `event_groups.h:92` calls `xEventGroupSync` a barrier.
   It is a set, an unlock and a wait that clears on exit: the first thread
   to wake takes the bits away from the others. FreeRTOS clears once, for all.
   That this is so for any number of threads, and that the barrier at least holds
   everybody back until the last has come, is `BarrierLetsOnePast`.
2. `message_buffer_overlap`: length and data are separate transfers
   (`stream_buffer.h:137`), so a receiver in between gets nothing for the length
   and reads the data as the next length.
3. `mqtt_subscribe_on_connect`: `examples/mqtt_client.cpp:12` subscribes in the
   handler, which `esp_mqtt_client_start` calls under the mutex that
   `esp_mqtt_client_subscribe` takes. `MqttSelfLocksStay` says that nothing ends
   such a wait, whatever the program, and `CallsDoNotSelfLock` that it does not
   occur if the handler calls the client on `MQTT_EVENT_DATA` only, which comes
   from the simulated broker without the mutex.

The following is what the code does; except for the comment on `+`, no document
denies it. The properties are stated around it: they show that nothing else goes
wrong, and would not catch these behaviours themselves, which the models have.

* A start that falls into the callback of a one-shot timer is lost: the callback's
  end clears the flag (`esp_timer.h:85`, `timers.h:53`), hence `owed` in
  `StartedFires`.
* The worker of an esp_timer sleeps through a stop and the next start and fires at
  the end of the old sleep (`esp_timer.h:78`), hence the restriction of
  `NeverEarlyUnlessRestarted`.
* A callback that stops its own software timer or detaches its own Ticker joins its
  own thread (`timers.h:62`, `Ticker.h:49`), which ends the program, hence the
  exception of `NeverTerminates`.
* `xTaskNotifyWait` drops the pending flag whatever is left in the word
  (`FreeRTOS.h:256`), so a program that mixes it with `ulTaskNotifyTake` loses
  gives, hence the separate uses.
* `vTaskDelete` of another task does not stop it, and `cleanupTasks` waits for an
  endless one for ever; a task that creates tasks may read a deleted record
  (`FreeRTOS.h:119`), the main thread never does.
* A receive into too short a message buffer loses the frame (`stream_buffer.h:147`).
* The lock guard of `driver/gpio.h:102` is destroyed twice, and the second time may
  unlock the mutex of another thread.
* A handler may run after its unregistration has returned (`esp_event.h:99`), hence
  "throughout" in `OncePerPost`.
* A callback of PubSubClient that calls the client waits for its own thread
  (`PubSubClient.h:99`), and a disconnect may tear the list a publish walks over (line
  73), hence `torn` in `OncePerMatch`.
* `esp_wifi_deinit` leaves `connected` on; what else the devices keep is written in
  their rows.
* After the first server is created, `getAdvertising` hands out another object
  (`BLEDevice.h:254`): a stop through it does not reach what was started before.
* A task of TaskScheduler that is restarted from its own callback loses an
  iteration (`TaskScheduler.h:66`).
* `PubSubClient::topicMatch` compares `+` as it stands, although its comment at
  line 151 says that it matches one level; and `a/#` does not match `a`. No topic
  filter of the run has a `+`.
* A turned ILI9341, canvas or matrix that is not square, an SSD1306 whose height is
  not a multiple of 8 and an e-paper whose lines do not fill their last byte keep
  two pixels in one cell or drop some, hence `Exact`.
* `handleClient` hands a request to its handler whether it is whole or not, and GET
  returns 200 for an answer that a timeout cut short.

## Fairness

Only steps that the host performs by itself are fair:

* A thread that is awake inside a call gets the mutex (`WF` of `Resume`). A
  mutex is held for a few statements only, and no fair share of it is needed:
  the action of a waiting thread is enabled, in the model, whenever it is awake.
* Deadlines pass (`WF` of `Deadline`) in `Queue` and, for finite waits, in
  `EventGroup`. In `queue.h` even `portMAX_DELAY` is 60000 ms, so every wait of a
  queue is finite. `TaskNotify` does not use it: its `CallsReturn` says that a
  notification alone ends a call and a timeout alone does.
* A notification by `notify_one` or `notify_all` removes sleepers in the step of
  the notifier; nothing is assumed of spurious wakeups.
* In the timers and Ticker, every thread runs on, callbacks return and time passes.
  `esp_timer_stop` (`Halt`) has `SF`: the worker takes the mutex again and again,
  but sleeps a whole period in between, and a thread blocked in `lock()` is not
  passed over for ever.
* In `PubSub` likewise: `SF` for the acquisition of the mutex. In `MqttClient` a thread
  that is past the lock runs on, which is all that `MutexIsReleased` needs; `FairSpec`
  has `SF` for the acquisition as well, so that the violation is not a thread passed
  over for ever.
* In `Tasks`, a thread inside `xTaskCreate` or `cleanupTasks` goes on, and a function
  that is not endless returns.
* In `HttpExchange`, both sides go on and the receive timeouts of the sockets pass;
  nobody has to call `handleClient`, and no connection has to arrive.
* In `TaskScheduler`, the thread of `loop()` goes on, callbacks and hooks return.
* In `Device`, a program that takes down goes on doing so: the fairness is about the
  program, and the property says that the device lets it succeed.
* In `NotifyUse` the task of a counter is assumed to take over and over: that is
  a property of the program that uses the notification, not of the notification.

No thread ever has to make a new call, so nothing is assumed of a sender, a
notifier, a stop or a start. `MessageBuffer`, `EventLoop`, `GpioLock` and
`Framebuffer` are checked for safety only.

## What is proved

TLAPS checks these for every value of the constants that satisfies the named
assumptions. TLC evaluates the assumptions in the runs.

* `QueueProofs`: `TypeCorrect`; `ReceiversNotStranded` and `SendersNotStranded`;
  `QueueImplementsBoundedQueue`. Any finite set of threads, any items, any
  capacity (0 included), any set of operations, but no peek in the first
  stranding theorem and no reset in the second. The stranding invariant is a
  counting argument and is inductive together with `TypeOK`: a send adds an item
  and, if somebody sleeps, moves one receiver from the sleepers to the woken; a
  receive takes an item and one woken receiver away; a deadline or a spurious
  wakeup only adds woken ones; and who falls asleep finds the queue empty. Where
  a woken sleeper is a peek the first move fails, which is why the condition
  is there. `WakeOne`, `LeaveOne` and `MoreAwake` are the steps of the count. The
  refinement needs no mapping but the identity on `items`, `call` and `ret`: the
  proof shows, action by action, that notifications, deadlines, spurious wakeups
  and renewed sleeps are stutters, and that nothing else is.
* `EventGroupProofs`: `TypeCorrect`, `WakeupsNotMissed`, `NoBitVanishesUnseen`,
  `EventGroupImplementsEventWord`. `NoMissedWakeup` is inductive with `TypeOK`: setting
  bits wakes everybody, and satisfaction is monotone in the bits, so that clearing
  cannot satisfy anybody (`SatisfiedIsMonotone`). `NoBitVanishesUnseen` follows
  from the types. The refinement is the identity on `bits`, `call` and `ret`; a
  return without the condition is a refusal because only a wait with a finite
  timeout is ever late (`CallsOK`), and wakeups, deadlines and renewed sleeps are
  stutters. `BarrierLetsOnePast`, about `EventBarrier`, for any number of
  threads: a bit that is set belongs to a thread inside (`BarrierInv`), so whoever gets past has seen everybody inside, and takes away the
  bits without which nobody follows.
* `NotifyProofs`: `NotificationsNotMissed`, with "a sleeper is in a call" added to
  be inductive; `NotificationsStay`; `MailboxIsQueue`, the refinement of
  `BoundedQueue`, in which what is pending was posted and who waits, fetches
  (`MailInv`), a post is a send served or refused (`PostSends`), and a fetch receives,
  waits, gives up or stutters (`FetchReceives`); and `GivesConserved`: `IInv` says that in a
  counter the sum `taken + value` is `given`, that the word stays below its width
  because the gives do, and that the call in progress is a take. A task in an
  `xTaskNotifyWait` could otherwise drop the flag. `WidthAssumption` states that `2 ^
  Width` is a natural number and `WordAssumption` that a word is the sum of its bits,
  facts of arithmetic that the provers lack and TLC evaluates.
* `StreamProofs`: `StreamTypeCorrect` and `RingIsFifo`: for every capacity of at
  least 1 and all data the ring implements `ByteStream`, with the bytes in
  use, read from the head on, as the stream. The lemmas `CellOf` and `Distance`
  say that the cell of an index and the distance of a cell are inverse to each
  other modulo the capacity; `SendPuts` and `ReceiveTakes` compare the streams
  before and after, index by index. On top of that `MessagesStayWhole`, for every
  size of the prefix and every encoding of lengths that is one to one and onto the
  byte strings of that size (`MessageAssumption`; the run has the little endian
  one). `MessageInv` says at each step of a call how the ring holds the messages not
  yet delivered: a length that was put in without its data, with room left for
  them, or data whose length was taken. What a ring holds is stated with the cut
  points of the frames (`Framed`); the lemmas `FramedAppend` and `FramedHead` add a
  frame behind and take one off in front, so no induction is needed. `MessagesAreBytes`:
  the message buffer, too, implements `ByteStream`, overlapping calls included, on
  which anything may be sent and asked for (`Data = Seq(Byte)`, `Lengths = Nat`).
* `SoftTimerProofs`: `TimerNeverTerminates`, `TimerIsActiveIffWorker`,
  `FreedTimerIsUnused` and `TimerIsNeverEarly`, for any periods, workers and
  callbacks, under `OneController`: two controllers race, see
  [below](#abstractions-and-limits). The callback may make any of the calls
  (`CallbackOps`); that the run lets it start and stop only is for `TimerLives`,
  which a callback that changes the period for ever would break. `IInv` says what
  the controller may rely on between its unlocked steps: once it has seen the flag
  down and has joined there is no worker (`ControllerKnows`), a worker whose timer does
  not run is joined by somebody (`StoppedIsAwaited`), a delete that has begun ends
  (`DeletedIsDoomed`, `FreedIsLeft`) and a sleep that is over was long enough
  (`SleepIsLong`).
* `EspTimerProofs`: `NothingFreedIsUsed`, `StopsSilence`, `OnceFiresOnce` and
  `NeverEarly`, for any controllers, periods and modes. None is inductive. `IInv`
  adds what calls under way still have to do: who is about to free has joined
  (`FreeAfterEnd`); a callback whose timer does not run is one that a delete waits
  for (`CallbackRuns`); unless a start is about to count anew, a one-shot timer that
  has fired is done or about to notice (`FiredOnce`); a sleep that began after the
  last start is not over before the period (`SleepIsLong`).
* `PartsProofs`, about the parts of `MCParts`. `PartsAreTheirParts`: every behaviour
  of the composition is one of each of the six, its fairness included, so that what
  is proved of a part holds of the composition.
  * `DeletedTasksAreOver` and `TasksAreListed`, for any tasks that make and delete
    each other. The invariant adds that a task is listed once and only while it is
    live, that nobody else lists it, and that the main thread is in one call at a
    time, which is why it never reads what its own cleanup has deleted.
  * `PeriodsStayWhole`, for any number of iterations. The invariant is an account:
    what has run, what is lost and what is to come make up what the task was told,
    where the callback that is running is counted but not yet counted off.
  * `OldTickersAreSilent`, for any callbacks: `TickerInv` adds that the flag is
    down while a call is under way and that only a worker that calls has a callback
    running.
  * `MatchesCallOnce`, for any publishers, topics and filters: `PubSubInv` is an
    account again, the calls made and the matches among what is left of the loop are
    the matches there were, and holds because a publish keeps the mutex throughout.
  * `ExchangesAreWhole`, for any clients, requests, turns and backlog: `HttpInv` says
    where a connection can be (`Placed`), which of a request's parts have arrived
    (`Arrived`), that a handler is called once per connection (`HandledOnce`), which
    answer is on its way (`AnswerComes`) and that a client that reads it reads its own
    (`ClientInv`).
  * `MqttSelfLocksStay`, for any threads, topics and handler, and `CallsDoNotSelfLock`,
    for handlers that call on messages only (`CallsOnDataOnly`; with any other the
    conclusion is false, as run 3 of the violations shows). `MqttInv` says that the
    mutex is held by the thread that has a call past the lock in its stack, which
    has one only, and that all but its innermost call have called the handler;
    `UnderBroker` adds that what those handlers were called for was the broker's.
* `BoardProofs`, about the parts of `MCBoard`, with `BoardIsItsParts` likewise.
  * `TypeCorrect`, `LayersHold` and `SessionsAreClean`, for every catalogue whose
    devices are `WellFormed`, a condition on single calls. `Swept` is what makes the
    third inductive: what is left of an ended session is nothing that every ending
    call takes down. The run `devices` shows that the rows are well formed
    (`TypeOK`), so the theorems hold of this catalogue, and would hold of it with
    any row added that is well formed.
  * `PostsCallOnce`, for any handlers, any number of threads and any depth of posts:
    `LoopInv` says of every post under way that the handlers it has called, the one
    that runs and those it has still to call are all different and include those
    registered throughout it (`GoodFrames`).
  * `GpioIsExclusive`, for any number of threads: until the theft the level a thread
    has read inside the lock is still the level when it writes (`ReadIsFresh`).
  * `DrawsAreExact`, for panels of any size, tiling and kind that satisfy
    `TheDisplay!PanelsAssumption`: where a mapping is `Exact`, every pixel is
    kept and no two share a cell; for strips by `StripIndex`, for every layout.

Assumptions on the constants, besides types: `MCParts` needs a name `Nobody` that is
no publisher, a request that stands for none, a number of turns for every client
and an MQTT handler that makes at most one call per event (`PartsAssumption`; the
run gives `Turns`, `Posts`, `Topics`, `Filters` and `MqttHandler` their values in `MCTurns`
to `MCHandler`); `MCBoard` needs the panels to have positive sizes
(`BoardAssumption`); `SoftTimer` a name that is no thread.

Only model-checked: every liveness property (`CallsReturn`, `WaitsEnd`,
`EveryGiveIsTaken`, `TimerLives`, `StartedFires`, `TeardownCompletes`) and all that rests
on fairness and on what is enabled, which TLAPS cannot reason about; and the three
violations, although two have their theorems. All safety properties of
passing runs are proved.

## Abstractions and limits

* Time. A timeout may pass at any moment of a wait, a tick between any two
  steps: the models have every behaviour of every clock, and no property depends
  on how long anything takes, except the order of a period and its callback.
  Ticks to milliseconds is left out. `HttpExchange` leaves out a receive timeout
  of 0, which to the kernel means to wait for ever.
* What a send took (`taken` of the stream, `ret` of a queue, a post) is kept, with
  the item or the bytes, although the code returns only success or a number:
  without it a refinement could not tell a corrupted item from another one. For the
  same reason the `ret` of an event group names the thread and the wait; it keeps
  the last return only, since every step has at most one.
* `left` and `age` in the timers are capped at the longest period, `fires` of Ticker
  at `MaxFires`. `age`, `fired`, `owed`, `given`, `taken`, `accepted`, `delivered`, `ran`,
  `eaten`, `expired`, `handled`, `silent`, `late`, `due`, `torn`, `stolen`, `missed`,
  `misread` and the `old` of a device are ghosts: no action of the code depends on
  them, `given` and `accepted` bound the number of calls, and a torn vector may show
  anything.
* The word of a notification has 3 bits in the run and 32 in the code; event
  bits and masks are sets; items, topics and bytes are from small sets; a topic is
  the sequence of its levels; an HTTP message is one or two parts.
* A thread's spawn and the assignment of the thread object are one step. The
  worker of a soft timer does not touch its own thread object, so nobody can see
  them apart.
* One controller and the callback use a soft timer. Two that race without a lock
  reach `std::terminate` (both see the timer stopped, both assign the worker);
  FreeRTOS serialises timer commands, and the repository says nothing on the
  matter. One thread controls a Ticker, for the same reason.
* The callback of `EspTimer` does not call the timer: a stop would wait for its
  own mutex. A program does not delete a timer while another call on it is in
  progress.
* Deleting a queue, an event group, a stream buffer or an MQTT client that is
  in use is undefined behaviour at once and is not modelled.
* `StreamBuffer` assumes a capacity of at least 1: with 0 the code divides by
  zero.
* Every event of the event loop matches every handler, and a handler is registered
  once.
* In `HttpExchange` client and server are different threads, a handler answers once
  or not at all, and requests are well formed.
* Callbacks of TaskScheduler do not add or delete tasks (the vector is being
  walked over); intervals do not occur, as `execute` does not look at them.
* In `Framebuffer` a colour is on or off, a shape is a sequence of `drawPixel`, and
  `fillScreen` of a canvas, which writes nothing, is left out.
* Plain fields that are read and written without a lock (`period` in both
  timers) are read and written in single steps: words on the hosts it runs on.
* A device of the catalogue tells on from off, not values; what a device reads or
  measures is set by tests and is not its state. Calls that only read, wait or print
  have no row. A program uses a handle between the call that makes it and the one
  that deletes it.

## Not modelled

* Boards, terminal, printing, formats (JSON, GPS sentences, ciphers): functions of
  their input, without state that calls share.
* About 90 sensor and actuator headers whose values a test sets and a call returns:
  there is no order of calls to get wrong.
* Semaphores and mutexes of FreeRTOS: each is a `std::mutex`.
* Routes, headers and chunks of the web servers, WiFiServer, WiFiMulti, Encoder,
  `esp_https_server.h`: parsing, or a wrapper of what is modelled.

`PROJECT.json` lists each component with its sources, status and reason.

## How to run it

    tlc -config QueuePlain.cfg MCQueue
    tlapm QueueProofs.tla

`PROJECT.json` pairs each configuration with its module. Each run takes between
a second and about a minute on two cores. The three configurations that
show a violation end with a counterexample.
