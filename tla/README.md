# A verification of libsigrok's acquisition core

TLA+ models of the parts of libsigrok (under `src/`) that decide when an acquisition
starts, what it delivers and how it ends. They are model-checked with TLC on small
instances; the theorems are proved with TLAPS for every value of the constants.
`PROJECT.json` lists the runs, the mutants that show that each property can fail,
the lines each definition stands for, the hazards and the findings.

Paths below are relative to `src/src/` unless they start with `src/`.

## 1. The system

libsigrok is a C library. An application opens devices through drivers, puts them
into a *session*, installs callbacks and runs the session. A driver installs *event
sources* in the session's main context, reads its device when they fire, and pushes
packets into the session, which passes them through *transforms* to the datafeed
callbacks. A run lasts as long as a source is installed.

| Component | State | Operations | Interacts through | What is hard |
|---|---|---|---|---|
| Session run control, `session.c` | device list, `running`, `main_context`, `main_loop`, `stop_check_id`, table of event sources | dev add/remove, start, run, stop, destroy, source add/remove/finalize, `delayed_stop_check` | drivers' start and stop functions, GLib contexts, other threads calling `sr_session_stop()` | stops from other threads at any time; a start that fails half way; sources finalized late; a context freed with things pending |
| Software trigger, `soft-trigger.c` | stage, previous sample, counter, pre-trigger ring | `soft_trigger_logic_check` | drivers pass it buffers; it sends packets | patterns over buffer boundaries, rewinding, edges at the start, wrap-around of the ring |
| fx2lafw driver, `hardware/fx2lafw/protocol.c` | transfers in flight, sample and frame counts, trigger | start, stop, completion of a transfer | libusb callbacks, the session's sources, the trigger | transfers that fail, are cancelled, end a frame or several; callbacks in another thread |
| Hotplug listener, `hotplug.c` | registration, thread, callback | listen, close, event callback, `sr_exit` | libusb, whose events any thread may handle | closing while a callback is under way |
| Software limits, `sw_limits.c` | limits, counters, start time | config, start, update, check, get_remain | drivers' work functions | boundaries, overflow, counters of an earlier run |
| Data feed, `session.c`, `transform/` | callbacks, transforms | send, add/remove callback, new transform | drivers send, callbacks receive | packets are changed in place; freed transforms; callbacks added while one runs |
| Feed queues, `input/feed_queue.c` | samples not sent yet, their quantity and encoding | submit, change of quantity or scale, trigger, flush | input modules and drivers fill them, `sr_session_send()` empties them | a queue that fills up in the middle of a call; a packet kept from one send to the next |
| Replay of session files, `session_driver.c` | name and position of the capture file, chunk, phase, block | start, stop, `receive_data()` | libzip, a freewheeling event source, the feed | state that survives a replay; empty and missing entries; bits put together from several files |
| serial-dmm driver, `hardware/serial-dmm`, with `serial.c` and the serial callbacks of `std.c` | buffer, limits, time of the next request | scan, open, close, start, stop, `receive_data()` | the serial port, the session's sources | packets cut anywhere, lost bytes, noise, requests that time out |
| SCPI, `scpi/scpi.c`, `scpi/scpi_serial.c` | mutex, channel the instrument is believed to be on, response | command, query, block | drivers call it from several threads; a transport | answers that arrive in pieces or late; a failure half way through a call |
| Device life cycle, `device.c`, `std.c`, `hwdriver.c` | status of instances, driver lists | open, close, clear, scan, config | session, drivers | wrong order of calls, partial failure |
| Event sources, `session.c`, `usb.c` | due times, poll sets | prepare, check, dispatch | GLib, libusb | late timers, changes of descriptors |
| Other transports of serial and SCPI; Modbus, `modbus/` | receive queue, transport | read, write | drivers | timeouts, partial packets |
| Inputs, `input/`; writing and loading of session files | buffers | receive, end, reset | session | chunk boundaries, formats |
| Other drivers, meter parsers, outputs, bindings | - | - | - | device protocols and formats |

What makes each of the modelled components correct:

* **Session.** A run with no source left ends, once, and not before; a failed start
  leaves no device acquiring; a stop reaches all devices; nothing refers to a
  destroyed session; the session does not wait for itself.
* **Trigger.** It fires where the pattern is, at the first such place of a buffer,
  and the pre-trigger data are the samples just before.
* **fx2lafw.** The acquisition ends exactly when no transfer is left; every frame
  has the right number of samples; the frame limit is kept.
* **Hotplug.** No use of freed state, silence after closing, no wrong view of which
  devices are present.
* **Limits.** No stop without a reason, a bounded overshoot, consistent answers.
* **Data feed.** Each callback gets each packet once, with what the transforms mean
  applied once to what the sender handed over.
* **Feed queues.** Samples arrive in order, none lost or repeated, with the quantity
  that was set when they were submitted; a trigger comes after the samples before
  it.
* **Replay.** Each replay delivers the data of the file once, in order, and ends.
* **serial-dmm.** An intact packet is recognised wherever the reads cut the stream,
  none is taken twice, and a lost request or answer does not hang the acquisition.
* **SCPI.** A command reaches the channel it is meant for, a query returns its own
  answer, a call returns.

## 2. Modules

| Module | Models | Role |
|---|---|---|
| `Session` | `session.c`, parts of `hwdriver.c` | run control |
| `SessionLifecycle` | - | what a session promises; `Session` implements it |
| `MCSession`, `SessionProofs` | | instances, theorems |
| `SoftTrigger`, `MCSoftTrigger`, `SoftTriggerProofs` | `soft-trigger.c` | trigger, instances, theorems |
| `Fx2lafw`, `MCFx2lafw`, `Fx2lafwProofs` | `hardware/fx2lafw/protocol.c` | driver, instances, theorems |
| `Hotplug`, `MCHotplug`, `HotplugProofs` | `hotplug.c`, `sr_exit()` | listener, instances, theorems |
| `SwLimits` | `sw_limits.c` | limits (its configuration needs no MC module) |
| `DataFeed` | `sr_session_send()`, `transform/` | the bus |
| `FeedQueue`, `MCFeedQueue`, `FeedQueueProofs` | `input/feed_queue.c` | queues, composed with `DataFeed`; instances, theorems about both |
| `VirtualSession`, `MCVirtualSession` | `session_driver.c` | replay, session files |
| `DriverProofs` | | theorems about `SwLimits` and `VirtualSession` |
| `SerialDmm`, `MCSerialDmm`, `SerialDmmProofs` | `hardware/serial-dmm`, parts of `serial.c` and `std.c` | driver, meters, theorems |
| `Scpi`, `ScpiProofs` | `scpi/scpi.c`, `scpi/scpi_serial.c` | commands and queries, theorems |

A definition `Mut_X` stands before the definition it is a mistaken form of. The
specifications do not use these; they serve to show that a property notices the
mistake.

### Session

The variables are the fields of `struct sr_session` and what GLib keeps for it:
`src`/`srcCtx` (sources by key, and the context each is attached to), `idles` (idle
sources of `delayed_stop_check()` per context) and `invokes` (queued
`session_stop_sync()` calls per context). Context 0 is the thread's default context;
run *r* may have a context of its own, number *r*, which dies with its last
reference. Drivers are reduced to the sources they install: `SyncStop` devices
remove them in `dev_acquisition_stop()`, as serial drivers do, the others later, as
USB drivers do. `sr_session_start()` is one action per device (`StartDev`) since
another thread may interfere between them; its error path is `UnwindStop`,
`StartAbort`. `sr_session_stop()` of another thread takes a reference (`StopRef`)
and then invokes `session_stop_sync()` in the calling thread if it can acquire the
context (`StopInvokeDirect`) or queues it (`StopInvokeQueued`). `LoopMode` says who
iterates the context.

`SessionLifecycle` is the view of an application: stopped, starting, running, with a
set of live devices. `ImplementsLifecycle` maps the session to it, with the devices
that own a registered source as the live ones.

### SoftTrigger

One action per iteration of the loop (`Advance`, `Fire`, `Fail`) and one for the
call and the return. Buffers are sequences of bytes, bytes are sets of bits. The
reference definition is `TriggersAt(n)`: the samples that end at position *n* of the
whole stream match the stages, with the stream's own predecessor for edges. A sample
that is read beyond the end of the buffer has arbitrary bytes (`junk`).

### Fx2lafw

`flying` is what libusb has, `cur` the transfer whose callback is running, `left`
its unprocessed samples; one pass from the label `check_trigger` to its next `goto`
or the end is one action (`SendData`, `NoTrigger`, `Trigger`, or the call with a
NULL trigger, `NullTrigger`), each of which ends in `EndOfPass`. What
`soft_trigger_logic_check()` finds is left open: any offset or none, with up to
`Pre` samples of pre-trigger data. `HotplugPump` lets a second thread handle
libusb's events, in particular between the submission of a transfer (`Submit`) and
its accounting (`Book`). Failed allocations, and the conversion of samples in the
`send_data` procedures, are not modelled.

### Hotplug

The application's thread goes through `sr_listen_hotplug()` and `sr_close_hotplug()`
one access at a time; the two threads that handle events go through
`sr_hotplug_libusb_cb()` in three steps (the test of `hotplug_state`, the use of it,
the application's callback). `bad` records an access to freed memory.

### SwLimits

The functions are operators on the counters; all of them are modulo `Modulus`.
`Work` is a driver that checks after each read (after `serial-dmm`); `Transfer` and
`CheckTransfers` are one that asks for the remainder first and may get several
transfers between checks (after `greatfet`, both branches of
`greatfet_process_receive_data()`: a byte holds one sample or `points_per_byte`, and
then whole bytes are taken). `got` counts what was really delivered, without a width.

### DataFeed

`sr_session_send()` is one action per transform and per callback, since callbacks
may add callbacks. A packet is a logic bit with a format, an analog scale, or
something else; integers have their width, so that scaling and inverting overflow.
`handed` is the packet as `sr_session_send()` was given it; the transforms change
`packet`. The reference definition is `Effect`: how often logic is inverted, and the
factor of analog values as a fraction of integers without bounds, whose signs may be
anywhere. It shares nothing with the `receive` methods, which keep the sign in the
numerator and cut each part to its width.

### FeedQueue

It EXTENDS `DataFeed` and adds a queue whose calls (`Submit`, and those that flush
first: change of quantity, change of scale, trigger, flush) go through the bus:
`Copy` puts samples into the buffer, `Flush` begins an `sr_session_send()`, which
then takes `DataFeed`'s own steps, `Sent` and `Refused` are its return. Samples are
numbered; the packet's encoding, which the transforms change in place, stays with
the queue (`Left`). A caller whose call failed gives up (`broken`).

### VirtualSession

A session file is a function from entries (a base name and a number) to sizes; a
byte of data is named by its entry and its place. One dispatch of `receive_data()`
is one action per outcome: for the upstream format `Read`, `ReadIgnored`, `ReadEnd`,
`OpenFails`, `NextAnalog` and `AllChunks`, for that of PXView `PxvLogic`, `PxvAnalog`,
`PxvDso` and `PxvEnd`. What survives a replay in the driver's struct survives it in the
model. `cut`, `stopped`, `lossy` and `overrun` only record what happened. libzip is
external; `sr_session_load()` is the initial state.

The reference is `Data(f)`: the logic data of the file and then those of its analog
channels, each as its one entry or as its chunks up to the first number that is
missing; or, in PXView's format, the samples of each block, put together from the
bitmaps of the enabled channels, and then the analog blocks. DSO packets are counted
(`dso_sent`), and each says which of the channels' chunks could be read, but they are
not part of `Data`, since they go out with every dispatch. `Regular(f)` says of
which files a replay is claimed to be faithful, see below; `MCVirtualSession` asserts
it of the files of the run.

### SerialDmm

The meter and the line are the environment: packets leave the meter byte by byte
(`Emit`, `Transmit`), bytes and requests get lost, noise is inserted, and what
arrives at a closed port is gone. The driver is `Scan` with `DetectByte` and
`DetectTimeout` (`serial_stream_detect()`), opening and closing, and a dispatch of
`receive_data()`: `Receive` fills the buffer, `Search`, `Process` and `LoopEnds` are
the iterations and the end of the loop of `handle_new_data()`, and `Poll` is a
dispatch without data. A packet check accepts the meter's packets and nothing else;
for packets of variable length it may ask for more bytes, and noise may look like
the header of a long packet.

### Scpi

`Lock`, `Select`, the two forms of sending, and each read are actions of a thread,
because other threads and the instrument (`Emit`) act in between. Answers carry the
number of their query, which the code does not see. A write or a read may fail and
an answer may come too late (`Timeout`); a selection that fails leaves the mutex
locked, as in the code (`OwnerAfterError`). Blocks have a header and a length; those of
length zero (`SR_OK` without data), those of indefinite length (`#0`, an error) and
lines that end in NL and CR (the CR is dropped) are left out.

## 3. What the runs show

Runs that pass:

| Run | Checks | Shows |
|---|---|---|
| `session_app` | `StoppedDevicesTold`, `StopDelivered`, `ImplementsLifecycle` | an application that iterates its own loop, with starts that fail half way and stops from two threads: a failed start leaves no device acquiring, a stop ends its run, and the session implements `SessionLifecycle`, liveness included |
| `session_own` | `NoUseAfterDestroy`, `NoOrphanCallback`, `RunReturns` | a context per run, devices that come and go, no failing start: nothing outlives the session, `sr_session_run()` returns |
| `session_session_run` | `StopCheckArmed` | nobody iterates the default context before `sr_session_run()`: a stop may run in another thread during the start; devices are removed while they acquire, drivers add and drop sources; a drained run is going to be ended |
| `trigger_stream` | `Sound`, `FirstInBuffer`, `PreTriggerIsTail`, `CallReturns` | all level triggers of up to three stages and one-stage triggers with edges, over all streams, however they are cut |
| `fx2_acquire` | `SubmittedIsInFlight`, `EndsOnce`, `FramesAreWhole`, `AbortEnds`, `SilentDeviceEnds` | the account of transfers and frames, with a start command, submissions after the first, resubmissions and transfers that fail; the acquisition ends |
| `hotplug_alone` | `NoBadAccess`, `QuietWhenClosed`, `ViewIsCurrent`, `CloseReturns`, `Reported` | the listener, while no session handles events |
| `limits` | `Overshoot`, `StopIsJustified` | both kinds of driver, with one and with four samples in a byte: they stop for a reason, and miss a limit by less than one read or the samples of one byte |
| `feed` | `SendTransforms`, `CallbacksInStep`, `InOrder`, `MeaningKept`, `TriggerInPlace` | a queue on the bus, with transforms that overflow or refuse and callbacks that come and go: order, quantity and trigger are kept; what a call of `sr_session_send()` delivers, to every callback once, is exactly what the transforms mean for the packet it was given |
| `replay` | `Faithful`, `NoOverrun`, `ReplayEnds` | eight session files of both formats, replayed again and again, with stops and failures to open or read |
| `dmm` | `NothingMissed`, `RoomToRead`, `OneRequest`, `InOrder`, `AcquisitionEnds` | four kinds of meters over a line that loses bytes and requests and adds noise, through scans, closing and two acquisitions |
| `scpi` | `RightChannel`, `OwnAnswer`, `CallsReturn` | two threads on two channels of an instrument whose answers arrive in pieces and late, with reads and writes that fail |

Each module's `TypeOK` (`QueueTypeOK` in `FeedQueue`) is a theorem (section 4) rather
than part of a run, except for `VirtualSession`, whose types follow from its bounds.

The run `feed_v_scale` ends in a counterexample, which contradicts the description
of the scale module (quoted under `findings`): `ScaledOnce` fails because the
transform multiplies the scale in the packet's encoding, which the queue keeps, so
that its second packet is scaled twice. `SendTransforms` does not see this: it
compares a packet with what was handed over in the same call, which for the second
packet is already scaled.

### Where the passing runs do not go

The constants of the runs, and conditions in some properties, leave out cases in
which the code does not have the property. They were met while modelling; those of
the first group show up when the constants are changed or the condition is dropped,
the others are read off the code.

With other constants or without the condition:

* *Session*, own context and starts that may fail: the failed start frees the
  context and with it the pending idle source, but `stop_check_id` stays set, so
  that no later run is checked (`StopCheckArmed`). If a device stops late,
  `unset_main_context()` (`session.c:643`) drops the context's last reference with
  `main_mutex` held; finalizing the device's source takes that mutex again, and the
  thread waits for itself (`pc = "deadlock"`). On the default context, a failed
  start leaves sources or the idle handler behind that refer to a session which is
  not running and may be destroyed, and so does a stop by another thread that comes
  when the run has ended (`NoUseAfterDestroy`); a device that is removed then is
  called without a session (`NoOrphanCallback`).
* *Session*, `LoopMode = "session_run"`: a stop from another thread during
  `sr_session_start()` runs there and then and misses the devices that are started
  afterwards (`StopDelivered`).
* *SoftTrigger*, an edge after another match in the first stage: `count` counts
  matches, not samples, so that the edge is looked for on the very first sample
  (`Sound`). Edges in a later stage: after a rewind `prev_sample`
  (`soft-trigger.c:204`) is a later sample, and an edge is seen between samples that
  are not neighbours (`Sound`). Two-byte samples and several stages: going back past
  the start of the buffer sets the byte index to -1, and the loop goes on in the
  middle of a sample.
* *Fx2lafw*, first submission fails: nothing is in flight, and nothing ever removes
  the event source (`AbortEnds`). With `HotplugPump`: a transfer completes before it
  is accounted for (`SubmittedIsInFlight`, `EndsOnce`). Several frames without a
  trigger: the next transfer is checked against a NULL trigger
  (`hardware/fx2lafw/protocol.c:487`, the action `NullTrigger`). Moreover, a frame
  that ends with a transfer leaves the trigger at its last stage, and without a
  trigger one frame too many is begun if the last one ends inside a transfer.
* *Hotplug* with `SessionPump`: a session thread that handles events of the same
  libusb context is in the callback (`hotplug.c:203`) while closing, which waits for
  the listener's thread only, frees the state (`NoBadAccess`).
* *SwLimits*, a limit whose milliseconds times 1000 exceed 64 bits wraps
  (`StopIsJustified`); at the microsecond of the time limit `check()` (with `>`) and
  `get_remain()` (with `>=`) disagree, which is why `CheckImpliesExceeded` is an
  implication only. Where a byte holds several samples, greatfet takes the last byte
  as a whole (`hardware/greatfet/protocol.c:1357`): with up to eight in a byte, up to
  seven samples beyond the limit, although the comment at line 1290 says that the
  submission is constrained "to what's still within the limits"; `Overshoot` says
  how many.
* *DataFeed*: a product of the scale transform that overflows is cut to its width
  without notice, and a numerator of zero is inverted to a denominator of zero
  (`Computable` in `SendTransforms`).
* *VirtualSession*: DSO data are sent again with every dispatch until the replay is
  stopped (`ReplayEnds` has an exception for it). A replay that is cut short among
  its analog channels leaves their base name in `capturefile`, and the next replay
  skips the logic data (`cut` in `Faithful`). Enabled channels with gaps between
  their numbers, or bitmaps shorter than the first channel's, are combined outside
  of the buffers, and a DSO chunk shorter than the first channel's is read past its
  end (`session_driver.c:425`, `NoOverrun`). Of the upstream format, a replay ends before the
  analog channels if the logic data are one entry without chunks or are missing
  although the device has logic channels, and at the first byte of logic data without
  a unit size (`ReadIgnored`, which counts as `lossy`); it never begins if a unit exceeds the
  buffer; and bytes are lost if a read (a unit size of 3) or an entry is no multiple
  of an analog sample. Of PXView's, blocks stop at the first one that the first
  enabled channel lacks, logic data without a unit size and analog blocks of a device
  without analog channels are not sent. `Regular` excludes these files, but for the
  one that `lossy` stands for.
* *SerialDmm*: noise that looks like the header of a long packet holds up the good
  packets behind it until the buffer is full and dropped (an exception in
  `NothingMissed`). With a timeout no longer than the meter's latency two requests
  stay under way for good (`Patient` in `OneRequest`); so do two if noise fills the
  buffer of a scan (more faults than the run has). The search of a scan lags
  behind for packets of variable length.
* *Scpi*: a channel selection that cannot be sent returns with the mutex locked, and
  all later calls wait forever (`Orphaned` in `CallsReturn`); the cached channel is
  then wrong, too. An answer that comes after its call has timed out, and the
  newline behind a block, stay in the stream and shift all later answers (`clean` in
  `OwnAnswer`).

In the code:

* `sr_transform_free()` leaves the freed transform in the session's list.
* The demo driver sends one analog struct again and again, like the queues, so that
  the factor of a scale transform accumulates. The default factor of that transform
  is made from the addresses of two variables instead of their values.
* A format that a driver leaves uninitialized and that happens to be `LA_CROSS_DATA`
  is passed on as such.
* When the flush of a full queue fails, callers that ignore it (`input/vcd.c`,
  `input/stf.c`, the atorch driver) write past the queue with their next sample.
* A second `sr_listen_hotplug()` returns `SR_OK` (documented: `SR_ERR`) and drops
  its callback; the device handle of a detach event is not NULL, as documented.
* serial-dmm: a request whose write fails in the poll removes the source without
  `SR_DF_END`, while one that fails after a packet is ignored; `buflen` and
  `req_next_at` are not reset at the start; a scan that fails early returns with the
  port open (`hardware/serial-dmm/api.c:97`, `port = "leaked"`), and so does
  `serial_open()` when the parameters cannot be set (`serial.c:127`).
* SCPI: a block that is cut short by a timeout is returned with `SR_OK`, and the TCP
  transport treats a short read as a whole one.

### Bounds

* *Session:* two devices, one of each kind, up to three sources, two runs, two stop
  calls, one other thread. Two runs are needed for state that survives a run; a
  failed start needs a device that has started before the one that fails.
* *SoftTrigger:* five samples in buffers of up to three, three stages and two
  pre-trigger samples: rewinds within a buffer and past its start, and a ring that
  wraps and is overfilled at once.
* *Fx2lafw:* three transfers (the last one, one in flight and one in the callback),
  frames of three samples in transfers of up to eight, so that a transfer holds two
  frames and a part of a third; two empty transfers in a row; two acquisitions.
* *Hotplug:* two devices and three events; more than one listening period, since
  closing and listening again is not bounded.
* *SwLimits:* words of three bits, reads of up to two, one or four samples in a byte
  (limits of one and three are no multiples of it), up to nine samples or frames,
  so that the counters wrap when no limit is set; the clock stays short of wrapping
  (64-bit microseconds do not wrap).
* *FeedQueue* with *DataFeed:* a queue of two samples, three samples in calls of up
  to two (a call that fills the queue and goes on), three packets (one that is sent
  while the queue keeps its encoding), two transforms, two callbacks; integers of
  four bits, which the products overflow.
* *VirtualSession:* reads of four bytes, bytes of two bits and analog samples of two
  bytes, so that chunks take one or several reads and three channels do not fill
  whole bytes; three replays in a row; chunks and blocks numbered up to three. The
  files are chunked (one chunk empty), unchunked, purely analog, of blocks (one
  channel without its first, one block empty), blocks of analog data only, without
  data, with logic data but no unit size, and of three DSO channels, one of them
  without a chunk and one with a longer one than the first.
* *SerialDmm:* packets of two or three bytes and buffers of five, so that a buffer
  holds two packets and a part of a third; four packets, two losses or noises, two
  acquisitions of two samples; an answer within one tick and a timeout of two.
* *Scpi:* two threads, two channels, four calls, two failures: one to leave
  something behind and one in a call that meets it.

Deadlock checking is off everywhere because every one of these systems may stop: an
application need not start another run, and the bounds end the streams.

### Fairness

* *Session:* a call that was entered returns; a context that is iterated dispatches
  what is pending; an acquisition that was told to abort completes (a driver's
  obligation; for fx2lafw, `AbortEnds` shows it); an application that relies on
  `sr_session_run()` calls it. Nothing makes an acquisition end by itself, and no
  application call is assumed other than that.
* *SoftTrigger:* the function runs.
* *Fx2lafw:* the start and the callback run; every submitted transfer completes,
  because each has a timeout and the session iterates its source.
* *Hotplug:* threads are scheduled and `libusb_handle_events_timeout()` returns
  after 100 ms. Delivery is strongly fair, since waiting without an event alternates
  with the loop's test: an event that is queued is handled when the thread waits
  again and again. Callbacks of the application return.
* *VirtualSession:* the source is dispatched again and again; it is installed
  without a descriptor and with no timeout, so that every iteration of the loop
  finds it due.
* *SerialDmm:* the loop dispatches, time passes, and the meter answers what it has
  received (or keeps sending) within its latency. Nothing is assumed about losses
  except that they are finitely many.
* *Scpi:* a thread that is in a call goes on when it can, and the instrument sends
  what it has to send.

## 4. What is proved

All theorems hold for every value of the constants that satisfies the named
assumption of the module.

`SessionProofs`:

* `SessionTypes`: `Spec => []TypeOK`. `TypeOK` is not inductive: sources are
  attached to `main_context`, which must not be NULL then. The invariant is `TInv ==
  TypeOK /\ RunHasContext`, and each of the operators on the registry
  (`stop_check_later`, `sr_session_source_destroyed`, `sr_dev_acquisition_stop`, the
  unref of a context) has a lemma that says which types it keeps.
* `ContextIsImmutable`: `Spec => MainContextImmutable`, from `TInv`.
* `DrainedRunIsChecked`: `Spec => []StopCheckArmed`, under `LoopMode # "own_context"
  \/ ~StartMayFail`, because a failed start on a context of its own leaves
  `stop_check_id` set without an idle source (section 3). The strengthening `SInv`
  also speaks about the start in progress and about `stop_check_id` implying a
  pending idle source in a live context; the idea `Arms` ("if the step leaves no
  source, it leaves the check armed") is shown once for each operator and used for
  each action.
* `StoppedAreTold`: `Spec => []StoppedDevicesTold`, under the same assumption
  (`Gentle`). The invariant `HeldInv` adds to `SInv` that every source lies in the
  context that will be checked (`SourcesHeld`) and that a device that acquires has a
  source and is one that the start has passed, that the error path is going to stop,
  or that belongs to a running session (`AcqInv`, `MayAcquire`).
* `DestroyedIsForgotten`: `Spec => []NoUseAfterDestroy`, for a context per run
  (`Own`), starts that fail included. `LiveInv` says that every idle source, queued
  stop and event source lies in a context that the session, the loop or a thread in
  `sr_session_stop()` references, and when these references are gone; what happens in
  a context with its last reference is in `UnrefLive`.
* `CallbacksHaveASession`: `Spec => []NoOrphanCallback`, under `RemovesStopped`: the
  application removes no device, or only from a stopped session and, on a default
  context, no start fails. Without failing starts `MemInv` says that attached sources
  belong to members of the session, and that a stopped session has none. On a context
  per run a failed start may leave sources behind (a stopping thread holds the
  context), so that `OwnMem` speaks only about contexts that can be iterated: sources
  there are those of the current run, because contexts are not used again.
* `StartsReturn`: `Spec => [](pc # "deadlock")`, on a default context, if no start
  fails, or if all devices remove their sources when they are told to stop. The
  invariant `UnsetInv` follows the sources of the run that is being started
  (`StartedSources`): each belongs to a device, up to the current one, that acquires,
  so that none is left when all of those have stopped; sources of earlier runs lie in
  other contexts.
* `ImplementsLifecycleSafety`: `Spec => Lifecycle!LifeSafe` in every configuration:
  initial states map to initial states, and each step, action by action, to a step of
  `SessionLifecycle` or to none. That a run is reported once needs `NotifiedInv`: the
  current run, while it lasts, has not been reported.

The assumptions are needed: without any of them TLC finds a counterexample. That of
`StartsReturn` excludes just the deadlock of section 3. Without `Gentle`, a start on its own context fails while another thread holds that
context, the device's source survives there, and the next run ends without it. On a
default context, a stop by another thread that is queued after the run has ended is
still there when the session is destroyed. With failing starts, the application of a
default context sees a stopped session, removes a device, and its left-over source is
dispatched.

`Fx2lafwProofs`, all under `~HotplugPump`: if the hotplug thread handles events, a
transfer can complete between its submission and its accounting, and the counter is
wrong:

* `Invariance`: `Spec => []IInv`, where `IInv` consists of `TypeOK`, `Accounted`
  (which transfers libusb, the callback and the start hold, at every point of the
  start), `Sourced` (the event source is there as long as anything can happen) and
  `Framed` (a frame in progress has fewer samples than the limit; the frame counter
  is below its limit until the acquisition is aborted).
* `Fx2lafwTypes`, `TransfersAreCounted`, `AcquisitionEndsOnce`, `WholeFrames`:
  `TypeOK`, `SubmittedIsInFlight`, `EndsOnce`, `FramesAreWhole`. None of the last
  three is inductive: that the end comes once needs the account of transfers, and
  that frames are whole needs that no frame in progress is full.

`HotplugProofs`, under `~SessionPump` except for the types (section 3 says why):

* `Invariance`: `Spec => []IInv`, where `IInv` adds to `TypeOK` and `NoBadAccess`
  the conjuncts `Phases` (where the application's thread is determines the state and
  the registration), `Threads` (the listener's thread lives between `ListenDone` and
  `Join`, and holds an event exactly while it hands one over) and `Views`: the last
  event about a device in libusb's queue is right, or else the event being handed
  over, or else what the application was told. Each action has its step; the four
  that move events (`Take`, `Call`, `Return`, `Plug`) have a lemma each.
* `HotplugTypes`, `NothingFreedIsUsed`, `ClosedIsQuiet`, `ViewsAreCurrent`:
  `TypeOK`, `NoBadAccess`, `QuietWhenClosed`, `ViewIsCurrent`. `ViewIsCurrent`
  speaks only about the moment when the queue is empty, so that it says nothing
  about the steps that lead there; `Views` is what survives each of them.

`SoftTriggerProofs`:

* `SoftTriggerTypes`: `Spec => []TypeOK`.
* `TailSent`: `Spec => []PreTriggerIsTail`, under `Steady` (samples of one byte, or
  triggers of one stage: otherwise the rewind past the start of a buffer loses the
  sample boundary). `PreTriggerIsTail` speaks of the moment of firing only; what
  holds before is `RingInv`: reading the ring from its oldest byte gives exactly the
  last `Size` bytes of the stream that it was given, or all if there are fewer. The
  core is `AppendHolds`, that appending keeps this for buffers shorter and longer
  than the ring and whether or not the ring wraps, and `Bounds`, that positions are
  whole samples.
* `FiresWhereItMatches` and `NoMatchMissed`: `Sound` and `FirstInBuffer`, under
  `Steady` and `LevelsOrEdge` (all matches are levels, or the trigger has one stage
  whose first match is an edge; section 3 says what happens otherwise). Both speak
  about the end of a call; the invariant is about the place of the loop: the stages
  before the current one match the samples just passed (`Matched`), and no match of
  all stages that lies in this buffer begins before the first of those
  (`NoneBefore`). Going back after a failed stage keeps the second because it goes
  back to the sample behind the first.

`DriverProofs`, about `SwLimits`:

* `LimitTypes` and `QuestionsAgree`: `LimitsSpec => []TypeOK` and `LimitsSpec =>
  []CheckImpliesExceeded`, for integers of every width.
* `LimitsKept` and `StopsJustified`: `Overshoot` and `StopIsJustified`, under
  `Fitting` (a limit plus one read or the samples of one byte, and a limit in
  microseconds, fit the integers), for any number of samples per byte (`TakeBound`).
  The invariant `LimitInv` adds to the types `Counted` (where a limit is set, the
  counter is what was delivered and has not passed it) and `Asked` (the limits are
  those of the user).

`DriverProofs`, about `VirtualSession`, for all files `Regular` (`AllRegular`), with
any number of channels, chunks and blocks of any size, in either format:

* `ReplaysFaithful`: `Spec => []Faithful`. `Faithful` compares what was sent with the
  whole file, which no step knows; the invariant `ReplayInv` says instead what
  has been sent at each place of the reader. In the upstream format (`PlainAt`) that
  is all channels before the current one, its chunks before the open one (`Upto`) and
  the bytes of that up to the position (`OpenAt`); in PXView's (`PxvAt`) the blocks of
  the current phase up to the current one. `ReaderInv` is what holds whatever was
  sent: the base name of the capture file is that of the channel, or that of the first
  one between replays, unless a replay was cut short. The lemmas follow a read
  (`ReadStep`), the end of an entry (`EntryDone`), of a channel (`ChannelDone`) and of
  a replay (`PlainEnd`, `PxvDone`), and show that every place's data begin the file's
  (`PlainBegins`, `PxvBegins`).
* `ReplaysWithinBuffers`: `Spec => []NoOverrun`, whichever entries can be opened and
  read: in a regular file the bitmaps of a block have one size (`BlockSizes`), no DSO
  chunk is shorter than the first, and the units of a sample hold all its channels
  (`UnitFits`).

`Regular` is a condition on files, not on the code, and names what the code takes for
granted; that it can be met is checked by TLC on the files of the run
(`RegularFiles`).

`FeedQueueProofs`, about the queue composed with the bus:

* `SamplesInOrder`, `MeaningsKept`, `TriggersInPlace`: `InOrder`, `MeaningKept`,
  `TriggerInPlace`, from `QueueInv`: besides types and order, a queue is full only
  while its flush is due or under way (`Room`), is empty when a trigger goes out
  (`TriggerAfter`), and holds one quantity (`OneMeaning`).
* `CallbacksAllInStep`: `CallbacksInStep`, from `WalkInv`, which says for every
  callback, before and behind the walk's position, what it has got of the current
  packet.
* `SendsTransform`: `QueueSpec => []SendTransforms`, for integers of every width and
  any number of transforms. `SendTransforms` speaks of the callbacks only; `PassInv`
  says that between two transforms the packet shows the effect of those before its
  place (`Agrees`). A step of it is `ReceivedExactly`: `InvertedExactly` goes through
  the signs of numerator and denominator and uses that the denominator was not refused,
  `ScaledExactly` that the product fits.
* `QueueTypesOK`: `QueueSpec => []QueueTypeOK`, for integers of every width. The
  invariant `FeedInv` adds that a packet under way is one of the three kinds, and an
  analog one if the queue sends analog data (`OwnPacket`), without which the encoding
  that the queue takes back after the call would have no type; scaling and inverting
  stay within the widths because both parts of a product are cut to theirs.

`SerialDmmProofs`:

* `DmmTypes` and `RoomKept`: `TypeOK` and `RoomToRead`, from `DmmInv`: the types,
  `Places` (where the search may stand in which state of the port) and `Carried`
  (every byte under way belongs to a packet that was sent).
* `PacketsInOrder`: `Spec => InOrder`, from `Ordered`: the first bytes of packets in
  the buffer, the port and the line, one behind the other, ascend and are past the
  packet handled last. Losing bytes and inserting noise, moving bytes from one to
  the next, and dropping some at the front each keep this.
* `NoPacketMissed`: `Spec => []NothingMissed`, from `AllWhole` (the bytes of a packet
  that is still coming lie in one piece, and in order, in what is left to search, the
  port and the line together) and `Settled` (where the search has stopped it stands
  at the end or at what may become a longer packet). Every read, every cut by the
  search and every loss keeps this for the packets it does not damage.
* `OneRequestAtATime`: `Spec => []OneRequest`, under `Quiet`: noise and a packet
  together do not fill the buffer of a scan. The invariant `OneInv` says that at most
  one packet has all its bytes on the way, and none while a request is open
  (`Alone`), how much of a scan's buffer can be noise (`Budget`), that a request is
  answered before its timeout (`Timing`), and that a loop of `handle_new_data()`
  that has reached the limit finds no further packet (`Counts`). Without `Quiet` TLC finds a
  counterexample: a scan whose buffer is full of noise gives up although its request
  is still open, and the next scan asks again.

`ScpiProofs`:

* `TypeCorrect` and `ChannelsRight`: `TypeOK` and `RightChannel`, from `ChannelInv`:
  only the owner of the mutex is inside a call (`Exclusive`), the cached channel is
  the instrument's unless the mutex is left behind (`CacheRight`), and what is about
  to be sent is for the cached channel (`SendsToCached`).
* `AnswersOwn`: `Spec => []OwnAnswer`, from `StreamInv`: on a clean stream, what has
  been read, what has arrived and what is to come are together the answer of the
  query under way.

What a recursive function computes for any number of parts (`Effect`, and `Joined` in
`VirtualSession`) is proved from its equation by an induction over the set of numbers
that have the property (`SetInduction`, from the well-foundedness of the naturals);
that the equation has a solution at all is the first such induction (`EffectDef`,
`JoinedDef`).

Only model-checked: all liveness properties and the liveness part of the refinement
of `SessionLifecycle`, which are outside what the provers at hand can do.

## 5. What is not modelled

* GLib, libusb and libzip themselves: contexts, sources, transfers and archives are
  modelled from how the library uses them and marked external in the map.
* The contents of device protocols, meter packets, files and formats: most of the
  repository's lines are some eighty hardware drivers and as many parsers and
  formats, whose control is that of the modelled drivers (a source, a read, a search
  for packets, limits) and whose remainder is data. They are the reason why the
  models stand for a small part of the lines.
* Device instances, channels, triggers and configuration keys (`device.c`,
  `trigger.c`, `hwdriver.c`): lists that are built and tests of one call's
  arguments; a model of them would repeat them.
* Modbus: a request and its reply without state between calls.
* Numbers as such (`analog.c`, `conversion.c`): floating point.
* Failed allocations; Windows-specific code, logging.
* What a modelled component leaves out is said in its note in `PROJECT.json`.

What would be worth adding, in this order:

| Next | Module | What for |
|---|---|---|
| 1 | `DsLogic`, `PxLogic` | transfers and end of acquisition along the lines of `Fx2lafw`, composed with `Session` |
| 2 | `FdSource` | due times and poll sets of event sources (`session.c`, `usb.c`) |
| 3 | `DataFeed` | `sr_transform_free()` and callbacks that remove callbacks, with the memory they free |
| 4 | `Scpi` | the other transports |
