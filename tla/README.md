# A TLA+ model of esp-rtos-tests

The repository is a firmware for the ESP8266: FreeRTOS and lwIP, the
esp-open-rtos core around them (`core/`, `open_esplibs/`), drivers and protocol
libraries (`extras/`), a boot loader (`bootloader/`), and example programs, of
which `examples/cpe439` is the project's own: a node that measures temperature
over a 1-Wire bus, publishes it over MQTT and drives a strip of LEDs.

The modules here model the parts of that code whose correctness depends on the
order of steps: what reaches flash before the power fails, what an interrupt
does between two instructions of a task, what a queue holds when a task wakes.
They are checked with TLC on small instances; the properties that matter most
are proved with TLAPS for every instance.

## The system and its parts

| part | source | what it does | state it keeps |
|---|---|---|---|
| parameter store | `core/sysparam.c` | key/value pairs in two flash regions, append-only with compaction | flash regions, `_sysparam_info` |
| boot | `core/app_main.c` | start-up, mounts or creates the parameter store, starts the user's tasks | none afterwards |
| 1-Wire driver | `extras/onewire/onewire.c` | bit-level state machines run by timer interrupts, and command sequences for a temperature sensor | driver state, buffers, queue to the publisher |
| hardware timer | `extras/hw_timer/hw_timer.c` | the one-shot/periodic FRC1 timer the 1-Wire driver runs on | timer state |
| LED strip | `extras/ws2812/ws2812.c` | pixel buffer, animations stepped by a software timer | pattern, timers, pixels |
| kernel queues | `FreeRTOS/Source/queue.c`, `tasks.c` | bounded queues that tasks block on and interrupts use | ring, event lists, delayed lists, tick count |
| cpe439 | `examples/cpe439/*.c` | tasks for temperature, WiFi, MQTT and publishing, connected by queues and semaphores | queues, task states |
| MQTT client | `extras/paho_mqtt_c/*.c` | blocking MQTT 3.1 client over one TCP connection | packet ids, timers, handlers |
| boot loader | `bootloader/rboot/rboot.c` | picks and checks the ROM to start | boot configuration sector |
| over-the-air update | `extras/rboot-ota/*.c`, `examples/ota_basic` | TFTP server and client that write a ROM slot, rboot configuration API | flash slots, boot configuration |
| checksum | `extras/crc/crc.c` | CRC-8 of the 1-Wire bus | none |
| DHCP server | `extras/dhcpserver/dhcpserver.c` | leases for clients of the soft AP | lease table |
| lwIP port | `lwip/sys_arch.c` | mailboxes, semaphores and threads of lwIP on FreeRTOS queues | none of its own |
| clock | `extras/sntp/sntp_fun.c` | wall-clock time from a wrapping counter | base time, last count |
| UART input | `extras/stdin_uart_interrupt/*.c` | receive interrupt and a reader that waits for it | semaphore |
| SPIFFS glue | `extras/spiffs/esp_spiffs*.c` | flash access of the file system | none |
| timers, PWM | `core/esp_timer.c`, `extras/pwm/pwm.c` | conversions to timer counts, duty cycles | timer registers |
| rest of kernel, stack | `FreeRTOS/`, `lwip/lwip/`, `libc/` | third-party code the firmware is built on | - |

`PROJECT.json` lists all parts with their status.  The modelled parts meet in
two places.  `tempTask` and the 1-Wire driver (`OneWire`) produce the
temperatures that the tasks of `mqtt_app.c` (`Mqtt`) publish; both sides use
kernel queues, of which `Queue` is the code and `QueueSpec` the promise, and
`Mqtt` is built on `QueueSpec`.  The boot loader and the update path (`Update`)
share the configuration sector and the ROM slots.

## Modules

### Sysparam: the parameter store

`Sysparam.tla` models `core/sysparam.c`, the boot code of `core/app_main.c` that
mounts or creates the area, and the re-creation done by
`examples/sysparam_editor`.

State.  `hdr` and `log` are what is in flash: for each of the two regions its
header (blank, zeroed, active, stale) and the list of its entries.  An entry
carries its kind, its id, its payload (a key name or a value, as an abstract
token) and the state of its ALIVE/INVALID flags.  Addresses are entry numbers;
sizes are kept, because free space is what decides when to compact.  `cur`,
`end` and `force` are the fields of `_sysparam_info`.  `pc` and the variables
after it are the locals of the call in progress.  `allowed`, `stray` and
`damaged` are history variables: they record what a key may be read as, and
whether something happened after which the store promises nothing.

Actions.  A call reads flash up to its first write in one step (the mutex of
`sysparam_set_data` keeps other writers out), and from then on every write or
erase is a step of its own:

| code | actions |
|---|---|
| `sysparam_init` (and the boot code around it) | `init_both`, `init_recreate`, `init_recreate_header`, `init_fails`, `init_notfound` |
| `sysparam_create_area` | `reformat`, `create_erase`, `create_header0`, `create_header1` |
| `sysparam_get_data` and what calls it | `get` |
| `sysparam_set_data` before it writes | `set_nothing_to_do`, `set_delete`, `set_full`, `set_compact`, `set_append`, `call_noinit` |
| `_compact_params` | `compact_erase`, `compact_copy`, `compact_header_new`, `compact_header_old` |
| `_write_entry`, `_delete_entry` | `key_header`, `key_valid`, `value_header`, `value_valid`, `write_over_left`, `delete_old` |
| error returns of the flash layer | `entry_header_fails`, `entry_valid_fails`, `delete_fails`, `compact_fails`, `compact_header_fails`, `area_fails` |
| loss of power | `power_cut` |

One round of the copying loop is one step: a power cut or a failure inside it
leaves a region without a header, whose contents nothing reads.  Erasing a
region is one step for the same reason.

A failing flash operation may have written what it was to write, or not.  After a
failed header write `end_addr` stays where it is unless the place could be zeroed,
so garbage or a whole header can be left there, and the next entry is written over
it.  Bits of flash are only cleared: the new header is what is found if the same
header was left, and otherwise it does not verify (`write_over_left`).

Runs (`MCSysparam.tla` gives the constants their values):

| run | question | result |
|---|---|---|
| `sysparam_cuts` | two keys, a region that holds about three entries, two power cuts anywhere | holds |
| `sysparam_faults` | `FitsRegion` and `ReadBack` with forced re-creation, and one failing flash operation or power cut | holds |
| `sysparam_ids` | one key id for two keys, with a fair scheduler | holds |
| `sysparam_ok` | `SYSPARAM_OK`: "Value successfully set." | violated |

What they check: `Mountable` (boot finds the area whatever was cut short),
`KeysOrdered` (ids increase and names differ, which is what makes the linear
lookups right), `IdsInRange`, `FitsRegion` (the free-space arithmetic never lets
anything be written past a region), `ReadBack` (a key reads as the last value
stored for it, or, after an unfinished call for this key, as one of the values
stored since), `OthersUntouched` (no step of a set call changes another key) and
`EveryCallReturns`.

Bounds.  Entry sizes are 2 or 3 units for values, 2 for keys and 1 for a header,
and a region has room for 7 to 9 units: a region fills up after two or three
entries, so every branch of the space check is taken, with and without garbage,
deleted entries and unused keys.  Two keys are enough for one call to disturb
another key, and for compaction to renumber.  Two values are enough to tell an
old one from a new one.  `MaxFaults` bounds failures and power cuts per
behaviour.  Keys are symmetric.  The view drops what no step reads: the last
status, and the entries of a stale region beside an active one, unless it is the
one mounted or has an old value still to be deleted.

Fairness.  `sysparam_ids` assumes weak fairness of the steps of the call in
progress: the task that made it is scheduled again.  Nothing is assumed of the
callers or of failures.

The code disagrees with three comments.  The last one is the run `sysparam_ok`;
the first two follow from the model and have no run of their own:

* "This routine will automatically update `*key_id`" (`sysparam.c:414`): a key
  without a value is not copied by a compaction, so `*key_id` is not updated for
  it, and the value written next belongs to no key, or to another
  key that got the same number.
* The value left out "will be overwritten as the next step" (`sysparam.c:412`):
  a compaction tried because there were unused keys may not free enough space;
  the call then returns `SYSPARAM_ERR_FULL`, but the compaction has already left
  out the old value of the key.
* "Value successfully set." (`sysparam.h:326`): a power cut between writing a new
  value and deleting the old one leaves both;
  a later call that stores a third value deletes only the first of the two and
  returns `SYSPARAM_OK`, and the key reads as the second.

`ReadBack` excludes the first case with the history variable `stray`, allows the
values of the second and third, and so says exactly what a caller can rely on.

Limits.  The scan for an empty area in `sysparam_create_area` (`sysparam.c:599`)
advances by 8 bytes and reads 32, so its last reads go up to 24 bytes past the
area.  The flash behind the area is taken to be blank there: if it is not, the
code answers `SYSPARAM_NOTFOUND` where `Blank` lets the area be created.

### OneWire: the temperature sensor

`OneWire.tla` models `extras/onewire/onewire.c` with the sequences of
`maxim28.h`, the timer of `extras/hw_timer/hw_timer.c` it runs on, and the two
tasks that use it: `OW_init_seq_task` and `tempTask` of `examples/cpe439`.

While the timer runs, an interrupt every 10 us makes one call of `OW_doit`, and
one call is one step.  Between interrupts a kernel tick may pass and tasks run;
`tempTask` has the higher priority, so `OW_init_seq_task` runs only when
`tempTask` sleeps.  Delays are counted in ticks, rounded down as `vTaskDelayMs`
does.  The sensor is external: it measures how long the line is held low, takes
a pulse for a reset, a one or a zero (either, in between), decodes commands and
sends the bits of its ROM or scratchpad.  It may be absent at a reset, answer the
reset and miss the commands ("deaf"), or have a bit garbled ("noise").

| code | actions |
|---|---|
| `OW_doit_reset` | `reset_init`, `reset_low`, `reset_resp`, `reset_no_resp`, `reset_timeout` (with `OW_handle_error`), `reset_wait`, `reset_done` |
| `OW_doit_read` | `read_init`, `read_sample`, `read_wait`, `read_next_bit`, `read_next_byte` |
| `OW_doit_write` | `write_init`, `write_line_low`, `write_first`, `wait_first`, `write_finally` |
| the rest of `OW_doit`, with the callbacks | `read_uuid_done_cb`, `conv_t_done_cb`, `read_temp_done_cb` |
| `OW_init_seq_task` | `ow_task_init`, `ow_task_poll`, `OW_init_seq` |
| `tempTask`, `OW_request_new_temp` | `tempTask` |
| kernel tick (external) | `Tick` |

Runs (`MCOneWire.tla`):

| run | question | result |
|---|---|---|
| `onewire_faults` | one sensor, absent once or with one garbled bit | holds |
| `onewire_live` | one sensor, absent once or deaf once, fair scheduling; the checksum | holds |

What they check: `RequestFindsIdle` (nothing but the delays keeps a request from
overwriting a sequence that interrupts are working on), `InSequence` (the timer
runs only within a sequence, and `seq_pos` stays in it), `StartsSequence` (the
`DS_SEQ_NEXT_READ_T` and default branches of `OW_init_seq_task`'s switch are dead), `SensorInStep` (driver and
sensor agree on the bit they are at, although each counts on its own),
`PublishedFresh` (only what a conversion of this request measured is published),
`UuidIsRom`, and `ReadingsGoOn` (no fault leaves the driver stuck).

`UuidIsRom` holds for a reason that is easy to miss: the UUID sequence writes a
second command while the sensor already sends its ROM, so the first byte, the
family code, passes unread, and the callback fills it in.

Bounds.  `TickMs` and `TempMs` are those of the program.  `ConvTicks` is an
assumption about the sensor: in the passing runs a conversion is over at the 75th
tick after its command, which grants the sensor 740 ms for certain and not the
750 ms it is allowed; `PublishedFresh` is shown for such sensors only.
Two readings, one of them negative, a power-on scratchpad that differs from
both, and one fault per behaviour, at any place.  A deaf sensor is left out of
`onewire_faults` because `PublishedFresh` does not hold with it: a sensor that
misses the convert command still has an earlier scratchpad with a valid checksum,
and nothing the driver reads tells the difference (TLC finds the 85 degrees of a
sensor just powered on published).  Likewise `UuidIsRom` is checked in
`onewire_live`, without garbled bits: it does not hold with them, because
`read_uuid_done_cb` does not look at the checksum of the UUID.  The view of `onewire_faults`
drops the UUID, which no step reads.

Fairness.  `onewire_live` assumes that something happens as long as something
can: interrupts are taken, ready tasks of these priorities run, time passes.

Two lines of text in the driver say what it does not do:

* "Wait 750ms then start read" (`onewire.c:562`): `OW_init_seq_task` polls again
  within the tick in which it started the conversion, and a delay of 75 ticks ends
  at the 75th tick interrupt, which is 740 to 750 ms later.
* "bad UUID. Retrying" (`onewire.c:452`): `read_uuid_done_cb` has set the next
  sequence to the conversion before it finds the UUID bad; the UUID is read again
  only at the next request.

### Crc8: the checksum

`Crc8.tla` has the table and the loop of `extras/crc/crc.c`; `OneWire` uses it to
check scratchpads.  `Shift8` is the shift register of the sensor's data sheet.
`TableIsPolynomial` (in `OneWire`, run `onewire_live`) compares one round of the
loop with eight shifts, for every byte of a scratchpad that is about to be checked
and every value of the register.  With one byte and every register, each entry of
the table is looked up, so the loop is right for messages of any length, and
detects what that checksum is known to detect.

### Update: boot loader and over-the-air update

`Update.tla` models `bootloader/rboot/rboot.c` (`find_image`), the configuration
calls of `extras/rboot-ota/rboot-api.c`, the TFTP code of
`extras/rboot-ota/ota-tftp.c`, and the client task of `examples/ota_basic`.

State.  `slot` is the flash of the two ROM slots as rows of 512-byte blocks; a
block belongs to an image, is erased, or is `Spoilt` by a write over other data.
`conf` is the configuration sector, `rtc` the RTC memory that asks for a
temporary ROM.  `pc`, `rom`, `temp` say what the loader or the application is
doing; `task` and the variables after it are the locals of the downloading task;
`mbox` is the mailbox of its socket.  `net` and `peer` are the network and a TFTP
sender that repeats its last packet and may give up; they are external.

| code | actions |
|---|---|
| `find_image` | `default_config`, `halt_temp`, `find_image`, `rewrite_config` |
| `tftp_task` up to the data | `tftp_task_wrq` |
| `ota_tftp_download`, called by `tftp_client_task` | `ota_tftp_download` |
| `tftp_receive_data` | `receive_timeout`, `receive_error`, `receive_other`, `receive_block` (with the erase), `store_block` (with the acknowledgement), `verify_image` |
| `rboot_set_current_rom` | `rboot_set_config_erase`, `rboot_set_config_write` |
| `rboot_set_temp_rom` and a restart | `rboot_set_temp_rom` |
| `recv_udp` of lwIP | `recv_udp` |
| reset, power failure (external) | `Reset`, `PowerCut` |
| peer and network (external) | `PeerOffers`, `PeerRepeats`, `PeerGivesUp`, `Lose` |

| run | question | result |
|---|---|---|
| `update` | resets and power failures anywhere, lost, repeated and reordered packets, two senders | holds |
| `update_images` | "will switch "slots" and reboot if a valid image is received" | violated |

What they check: `AlwaysBootable` (there is always a ROM that the loader starts,
and it gives up only over a temporary ROM), `RunningIntact` (no transfer writes
what a normally booted application runs from), `CurrentUntouched` (only the
other slot is written), `SwitchesToCompleteImage` (the switch is to a slot that
passes `rboot_verify_image` and has every block of the length its headers give, none
missing, misplaced or spoilt), `NeverSpoilt` (every block is erased before it
is written, also when a transfer replaces an aborted one) and `TransferEnds` (the
task always comes back to where it waits for a transfer, or gets to the switch).

That the blocks are all of one image the code does not ensure, and the property
does not say: a packet of an earlier sender that is in the mailbox when the socket
is connected may be taken for a block of the new one, and the checksum need not
notice.

Bounds.  A slot is two blocks, a sector, so that a transfer begins with an erase
and goes on without one.  The images of `update` are a good one that fills its
slot, one a block longer, and a damaged one that passes neither check.  Of the
8-bit checksum one bit is kept, the parity of the blocks that change it (`Odd`);
`Irom` says how many blocks are `.irom0.text`, which the loader sums and
`rboot_verify_image` does not.  Mixtures of images can therefore pass: the first
block of the long image with the second of the good one passes
`rboot_verify_image` and not the loader, so that the switch to such a slot has to
be survived.  One retransmission instead of five, a mailbox of two packets and
one packet in flight beside it still give every outcome of a wait: the block, the
one before, another, or none.  Sizes are in blocks: that the last block ends a few
bytes before the limit is not told apart.

Fairness.  `FairSpec` has weak fairness of the steps of the downloading task:
the kernel schedules it, and `netconn_recv` ends with its time-out of ten
seconds.  Errors of `netconn_recv` are possible and never assumed.  Peer and
network are not assumed to do anything; but a peer repeats a packet `MaxTries` times
at the most, and `TransferEnds` rests on that.  `tftp_receive_data` answers the
block before the one it waits for without counting a retry
(`ota-tftp.c:303-306`), so that a peer which repeated it for ever, more often than
every ten seconds, would keep the task in the transfer.

The violated run: images are built with a checksum over `.irom0.text`
(`-iromchksum`, `parameters.mk`), as the loader expects; `rboot_verify_image`
leaves that section out and refuses them.

Limits.  The layout is the default one of two slots.  A transfer after a
*temporary* boot of the spare ROM goes over the ROM that runs, because the slot
to write is computed from `current_rom`: `RunningIntact` is stated for other
boots.  An invalid number of a temporary ROM stops the loader until the power is
cut, since the RTC memory keeps it.  `ota_basic` starts server and client
together although its comment says to choose one; together they would write the
same slot, and the model runs one of them.  `rboot_set_temp_rom` is called only
between transfers.  Packets and peer are gone after a restart.  The window
between erasing and writing the configuration loses user data and a changed
layout, which are not modelled.  On flashes below 2 MB the limit of 1 MB exceeds
a slot; the model's slots are as long as the limit.

### Queue and QueueSpec: kernel queues

`Queue.tla` models `xQueueGenericSend`, `xQueueGenericReceive` (with peeking),
`xQueueGenericReset`, their variants for interrupts, and the queue lock of
`FreeRTOS/Source/queue.c`, with what they use of `tasks.c`: event lists, the two
delayed lists, the tick count that wraps, time-outs, the suspended scheduler with
its pending ready list and pended ticks.  `QueueSpec.tla` is what a user of a
queue relies on: a bounded sequence.

One step is one critical section, or one stretch of code that runs with the
scheduler suspended; interrupts and ticks come between any two.  A call goes
through `try` (the first critical section), `suspend`, `lock` (`prvLockQueue` and
`xTaskCheckForTimeOut`), `test` (full or empty, and `vTaskPlaceOnEventList`),
`unlockTx`, `unlockRx` (`prvUnlockQueue`), `resume` (`xTaskResumeAll`), and back,
or to `late` when its time is over.  Any ready task may run next, whatever its
priority, which allows more orders than the scheduler does.  `due` is a history
variable: how much is left of the block time the caller asked for.

| run | question | result |
|---|---|---|
| `queue` | two tasks with every call, blocking for ever or not at all, and interrupts | holds |
| `queue_time` | two tasks with block times, a tick that wraps every four, pended ticks | holds |

What they check: `ImplementsFifo` (the ring refines `QueueSpec`, with
`Contents` as the sequence), `NeverForgotten` (a task that sleeps without a time
limit is in an event list, or about to be made ready), `NoReceiverLeftWaiting`
and `NoSenderLeftWaiting` (nobody sleeps on what is there, unless another task
was woken for it and has yet to look), `DelayedEmptyAtWrap` (the assertion in
`taskSWITCH_DELAYED_LISTS`), `NeverOversleeps`, `NeverTooEarly`.

Bounds.  Two items in a ring of two, so that both pointers wrap.  `MaxLock`
bounds the interrupts during one lock: with `MaxLock = 2` both waiting tasks can
be meant.  (In the code the counts are `int8_t` and would wrap after 127
interrupts during one lock.)  `TickMod` stands for 2^32; its last value is
`portMAX_DELAY`, which means no time limit.  `MaxPended` is the number of ticks
during one suspension.  `Prompt` leaves out calls that last over two wraps of the
tick count (497 days each): the code compares the number of overflows for
difference only.

Limits.  `NoSenderLeftWaiting` is not checked with `xQueueReset`, which wakes one
sender however many have room.  Mutexes, priority inheritance, queue sets and
overwriting sends are left out; no program modelled here uses them.

### Mqtt: the network side of cpe439

`Mqtt.tla` composes the tasks of `examples/cpe439/mqtt_app.c` and `colorLock`
with the MQTT client of `extras/paho_mqtt_c`, a broker and a TCP connection.  Its
two queues are instances of `QueueSpec`.

State.  `pc` is where `mqtt_task` is; `client` has the fields of `mqtt_client_t`
that decide something; `link`, `toBroker`, `toClient` are the connection, and
`orphans` what a closed connection may still deliver.  Temperatures and colours
are numbered in the order they come; temperatures never stop, and those past the
bound come as number 0, which the properties on order do not follow.  `seen` and
`mark` are history.

Sending.  `mqttwrite` sends a packet, a part of it or nothing, whether the timer
runs out or the socket fails; only a whole packet restarts the ping timer.  The
broker cannot read on behind a part (`TORN`).

Receiving.  A connection may die within a packet.  If the header has come, the read
of the rest fails (`TORN`).  If only the first byte has, `decode_packet` takes the
length it cannot read for 0, and the packet is handled with fields that were never
set (`Unread`): a CONNACK is no acceptance, a SUBACK no refusal, and a PUBLISH may
or may not match the handler, with a colour (0) that is none of the broker's.

| code | actions |
|---|---|
| `temp_pub_task`, `colorLock` | the same |
| `mqtt_task` | `xSemaphoreTake`, `mqtt_network_connect`, `mqtt_connect`, `mqtt_subscribe`, `xQueueReset`, `xQueueReceive`, `mqtt_publish` |
| a round of `waitfor` or `mqtt_yield`: `cycle` with `keepalive`, `deliver_message`, `topic_received` | `waitfor` |
| timers | `TimedOut`, `PingTimer` |
| broker and connection (external) | `BrokerReads`, `BrokerPublishes`, `OrphanArrives`, `LinkDies` |

| run | question | result |
|---|---|---|
| `mqtt` | temperatures that never stop, up to three colours, two connections that die anywhere, sends that fail, fair timers | holds |
| `mqtt_recover` | "so that the outer layer will reconnect and recover" | violated |

What they check: `NothingStale` (after a reconnection only temperatures queued
since are sent, in order), `AtMostOnce` (no temperature reaches the broker
twice), `AcceptedFirst` (nothing but CONNECT goes to a broker that has not
accepted this connection), `EachColourOnce` (colours are shown once and in
order, over every reconnection), `DeadLinkFound` (a dead connection is noticed,
although temperatures keep coming and every packet sent restarts the ping timer).

Bounds.  `publish_queue` has one place and `rgbRxQueue` two, instead of three and
ten: both get full and drop, and with three colours one is shown while two are
queued.  Two temperatures are followed, or three colours, or one of each
(`MaxBoth`).  A window of one packet in each direction, so that a second one finds
no room, and two unanswered pings.  Two sessions are what it takes for one to
disturb the next.

Fairness.  `mqtt_task` runs and timers run out (weak fairness).  Strong fairness
of a round of `mqtt_yield`: it is called with a second on its timer, and the
second does not go by every time before the first round; no round in particular
is assumed for the other waits.

The violated run: a connection that breaks within a packet while a command waits
for its answer.  `cycle` clears `isconnected` and returns DISCONNECTED, `waitfor`
only looks for its packet, and from then on `keepalive` is skipped, publishing
fails and `mqtt_yield` never says DISCONNECTED: the task does not reconnect.

Limits.  What comes from the broker is cut in two only by a dying connection, not
by a slow one; packets longer than the buffer do not come.  `tempPubQueue` and the
delay of `temp_pub_task`, which decide only when it sends, are left out.  Packet identifiers are left out: the
client does not compare them.  Colours are well-formed.  The result of
`mqtt_subscribe` is ignored by `mqtt_task`, so a session without colours is an
ordinary outcome.  `wifi_task` is open: the semaphore comes at any time.

### Proofs

A module `...Proofs` holds the theorems about a component.  All of them are for
every value of the constants that satisfies the `ASSUME`s of the component's
module; a theorem that needs more says so in its statement.

| module | theorems |
|---|---|
| `SysparamProofs` | `TypeCorrect`, `AlwaysMountable`, `KeysStayOrdered` |
| `OneWireProofs` | `RequestsNeverOverlap`, `InterruptsInSequence`, `OnlySequencesStarted`, `OneWireTypeCorrect`, `SensorFollows`, `AcceptedUuidIsRom`, `PublishedIsFresh` |
| `UpdateProofs` | `UpdateKeepsBootable`, `RunningSlotIntact`, `SwitchOnlyToCompleteImage`, `OnlySpareSlotWritten`, `UpdateTypeCorrect`, `NeverWritesOverData` |
| `QueueProofs` | `RingIsFifo`, `QueueTypeCorrect` |
| `QueueWaitProofs` | `NoTaskForgotten`, `ReceiversAreWoken`, `SendersAreWoken` |
| `QueueTimeProofs` | `NoOneDelayedAtWrap`, `NoOneOversleeps`, `NoCallGivesUpEarly` |
| `MqttProofs` | `MqttTypeCorrect` |
| `MqttSessionProofs` | `NothingBeforeAcceptance`, `ColoursShownOnce`, `NoStaleTemperature`, `TemperatureAtMostOnce` |

**Parameter store**, for any sets of keys and values, any sizes, any capacity and
any number of failures:

* `TypeCorrect`: `Spec => []TypeOK`, with `EndInv`: the entries up to `end_addr` are
  in flash, so that writing there, also over what a failure left, keeps a list.
* `AlwaysMountable`: `Spec => []Mountable`.  The inductive invariant is
  `HeadersInv`: while nothing irregular happened, flash is blank or some region
  is active, and a mounted area is mounted on an active region.  Its last
  conjunct, that the new region is active before the old one becomes stale, is
  what the order of the two header writes at the end of `_compact_params` gives.
* `KeysStayOrdered`: `Spec => []KeysOrdered`.  The inductive invariant is
  `KeysInv`: the keys of both regions are in order at all times, stale and
  half-written ones included, since boot may come back to either; a key about to
  be written is new and its id is above all others; a key in the region being
  filled has a number up to `current_key_id` and a name the iterator has already
  passed in the old region, so the next name copied is a new one.

The lemmas before them say what the lookups find: the least and the greatest
member of a set of entry numbers (from the well-foundedness of the naturals),
what `find_key`, `find_value` and `max_key_id` return, and which writes add no
key.

**1-Wire driver**, for every tick length and every period of `tempTask` that
satisfy `TimingAssumption`, every ROM and every reading:

* `RequestsNeverOverlap`: `Spec => []RequestFindsIdle`.
* `InterruptsInSequence`: `Spec => []InSequence`.
* `OnlySequencesStarted`: `Spec => []StartsSequence`.
* `OneWireTypeCorrect`: `Spec => []TypeOK`, and `SensorFollows`:
  `Spec => []SensorInStep`, with any faults.
* `AcceptedUuidIsRom`: `Spec => []UuidIsRom` if no bit is garbled and the sensor
  is of the family that the driver fills in.
* `PublishedIsFresh`: `Spec => PublishedFresh` if no bit is garbled, no command is
  missed, and the conversion is over after `Ticks(750)` ticks.

For the first three the inductive invariant has two parts.  `Control` ties the
variables that interrupts and tasks share to each other: the timer is on exactly
while a sequence is started, and then the operation is the one at `seq_pos`.
`Deadlines` is the timing argument: for each of the three sequences, how many
ticks after `tempTask`'s last wake-up `OW_init_seq_task` has noticed it and has
started it, at the latest; `DeadlineOrder` shows that these deadlines follow each
other and that the last one is before `tempTask` wakes again.  It rests on
`TimingAssumption`, that the period of `tempTask` exceeds the sum of the driver's
delays (200 ticks against 85 in the program), and on the guard of `Tick`, which
lets at most one tick into a sequence of interrupts.  That guard is justified
where a tick is longer than a sequence, at most 600 interrupts of 10 us: by the
10 ms of the program, not by a tick of 5 ms, of which the theorems also speak.

`Bus` is what driver and sensor agree on, interrupt by interrupt: how long the
line has been low tells where in a slot the driver is, and the number of bits
the driver has dealt with is the number the sensor has counted.  The last two
theorems add, for a bus without noise, that a sensor which answers is there
(`Present`), that the whole bytes and the bits below `bitMask` are those sent
(`Receiving`, `Received`), and that a scratchpad is read only after a conversion
of this request which is over (`Fresh`).

**Update path**, for any images, sizes of slots and sectors, senders, numbers of
retries and capacities:

* `UpdateKeepsBootable`: `Spec => []AlwaysBootable`.
* `RunningSlotIntact`: `Spec => []RunningIntact`.
* `SwitchOnlyToCompleteImage`: `Spec => SwitchesToCompleteImage`.
* `OnlySpareSlotWritten`: `Spec => CurrentUntouched`.
* `UpdateTypeCorrect`: `Spec => []TypeOK`.
* `NeverWritesOverData`: `Spec => []NeverSpoilt`.

That some slot is good is not inductive.  `Safe` adds why: while an application
runs, the configuration names a good slot until it is erased for the switch, and
a transfer goes to the other one; at the switch the slot behind holds a whole
image, the one before it is still good; and a request for a temporary boot is
made only with a good configured ROM.  `Written` says what a transfer has
erased ahead of it: from the next block to the end of the sector it is in,
nothing has been written since.  `Received` says what it has behind it: every
block before the next one was sent for its place, and from the verification to the
switch the slot is verified and complete.

**Queues**, for every length and every set of items, tasks and calls:

* `RingIsFifo`: `Spec => ImplementsFifo`.  The inductive invariant `Ring` ties
  the two pointers to the count: `pcWriteTo` is as many items after `pcReadFrom`
  as there are messages, plus one.  One lemma for each way to put in or take out
  an item says what it does to `Contents`; all other steps leave the ring alone.
* `QueueTypeCorrect`: `Spec => []TypeOK`.  The invariant adds `Sched`: who is
  between `vTaskSuspendAll` and `xTaskResumeAll`, and when the queue is locked.
* `NoTaskForgotten`: `Spec => []NeverForgotten`.  `Queued`: a blocked task is in
  one event list, once, or pending.
* `ReceiversAreWoken` and `SendersAreWoken`: `NoReceiverLeftWaiting` always holds,
  `NoSenderLeftWaiting` if `"reset"` is not among the calls.  `EnoughWoken` counts:
  while a task waits to receive, the tasks that have yet to look and what
  interrupts counted in `cTxLock` are together as many as the items that wait
  (senders likewise).  It is a statement on cardinalities, for which `Tasks` is
  assumed finite.
* `NoOneDelayedAtWrap`, `NoOneOversleeps`, `NoCallGivesUpEarly`:
  `DelayedEmptyAtWrap`, `NeverOversleeps`, `NeverTooEarly`.  `Timed` relates the
  wake time, the time noted by `vTaskSetTimeOutState` with its count of overflows,
  and `xNextTaskUnblockTime` to what is left of the block time.  `Prompt`, the
  guard of `Tick`, and `MaxPended < TickMod` are the assumptions.

The pended ticks, the removal of tasks from an event list and the ordered
insertion are recursive functions.  What they keep is proved by taking the least
number for which it fails, a set, from the well-foundedness of the naturals.

**Network side of cpe439**, for any numbers of temperatures, colours and
connections, queue lengths and windows:

* `MqttTypeCorrect`: `Spec => []TypeOK`.  The inductive invariant `Shape` adds what
  may be on its way in each state of the connection.
* `NothingBeforeAcceptance`: `Spec => []AcceptedFirst`, by `Accepted`: all that is
  possible only in a session the broker accepted.
* `ColoursShownOnce`: `Spec => []EachColourOnce`, by `ColoursInOrder`: the order from
  the broker over the connection and `rgbRxQueue` to `colorLock`, and that a session
  has no handler before SUBACK and one after.
* `NoStaleTemperature` and `TemperatureAtMostOnce`: `Spec => []NothingStale` and
  `Spec => []AtMostOnce`, by `InOrder`: of the temperatures followed, what is queued
  is younger than what `mqtt_task` holds, and both are younger than what has gone,
  including what a closed connection may still deliver.

Only model-checked: of the parameter store `FitsRegion` (it compares sums of entry
sizes over logs of any length) and `IdsInRange`, `ReadBack` and
`OthersUntouched`; `TableIsPolynomial` (a table of constants against eight
exclusive ors); `PublishedFresh` with garbled bits, where it rests on what the
checksum detects; and every liveness property (`EveryCallReturns`,
`ReadingsGoOn`, `TransferEnds`, `DeadLinkFound`), which are outside the proof
system's reach.

## Not modelled

Most lines of the repository are third-party code: lwIP, the C library, SPIFFS,
the kernel, and register definitions.  The modules model the code in which order and failure matter;
the share of the repository's lines they stand for is small.

* The rest of the kernel and lwIP: used through what the firmware assumes of
  them.  Software timers, event groups, mutexes and the choice of the task to run
  are not modelled, nor is TCP beyond a connection that delivers in order or dies.
* `core/` apart from the parameter store, `open_esplibs/`: register access,
  start-up and calls into vendor libraries.
* The DHCP server.  Its lease table depends on nothing modelled here.  Two things
  a reader of `dhcpserver.c` may want to know: `lease->expires` is set to a fixed
  tick count and not to that time from now, and `find_lease_slot` passes over the
  hardware address kept in the first free slot.
* The clock (`sntp_fun.c`), the UART reader, PWM, the conversions of
  `esp_timer.c`, the animation of `ws2812.c`: one counter or one semaphore each,
  with no other part that depends on their state.
* SPIFFS and its glue: the file system is vendored.
* `wifi_task`: what it does is decided by the vendor library.  After its ten
  retries it calls `sdk_wifi_station_disconnect` once a second and nothing calls
  connect.
* Within the modelled parts: readers of the parameter store that run while another
  task writes (they take no mutex); `OW_init`, which is the initial state of
  `OneWire`; the queue `OW_queue_temperature` sends to and the buffer it loses when
  that queue is full; interrupts delayed by code that masks them; the typed
  wrappers of the parameter store, which convert a value and call the modelled
  functions.
