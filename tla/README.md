# CameraTrack: models, checks and proofs

CameraTrack looks at a camera through ffmpeg, finds where in the picture
something moved and turns a servo towards it. This directory holds TLA+ models
of that program, TLC configurations that check them on small instances, and
TLAPS proofs of what matters most for every instance. Sources are named by
file; application files are in `src/src/main/java/net/swansonstuff/cameratest/`.

## The system

```
ffmpeg --frames--> CameraTrack.processImage --position--> ArduinoManager ring
                      ^   (frame thread)                        |
   sliders, buttons --+                                timer thread, 100 ms
   (event thread) --> AppSettings --> camtest.prp               |
                                        ArduinoHandler.sendData -> RXTX write
                                                                | serial line
                                                          Sweep.ino -> servo
```

| part | state | operations | talks to |
|---|---|---|---|
| `CameraTrack` frame loop | `currentRaster`, `lastRaster`, locals of `processImage` | process a frame | calls `ArduinoManager.updatePosition`; shares fields with the event thread |
| `CameraTrack` controls | `bandPos`, `bandHeight`, `bandWidth`, `sensitivitySetting`, `allowedColorVariance`, `autoCalibration`, `adjusting` | listeners of sliders, buttons, mouse | `AppSettings` |
| `AppSettings` | `props`, the file `camtest.prp` | load, `get`, `set`, `save` | the file system |
| `ArduinoManager` | `positions`, `nextPosition`, `enabled`, the `Timer` | constructor, `updatePosition`, the timer task | `ArduinoHandler` |
| `ArduinoHandler` | `serialPort` | `initialize`, `sendData`, `close`, `serialEvent` | RXTX |
| RXTX | port registry, `RXTXPort`, `SerialImp.c` | open, write, read, events, close, lock files | kernel, other processes |
| `Sweep.ino` | `input`, `pos` | `loop` | the serial line, the servo |
| `CameraTrack.run`, `FrameCounter` | transcoder streams, `fps`, `manualFrameDelayMillis` | read frames, count them, slow down | ffmpeg |
| `VideoDeviceManager`, table model | `deviceList`, `currentDevice` | run and parse `v4l2-ctl` | subprocesses |

What is hard to test here: two threads share the ring and only one takes the
monitor; the timer starts before the object it uses exists; the event thread
changes what the frame thread reads in the middle of a comparison; a command
crosses a blocking write, a driver's queue, a line without flow control and a
firmware that collects it byte by byte, and any of them may lose part of it;
settings are truncated and rewritten on every change, and a failed save or load is only
logged; closing the port waits for calls in progress by a counter that other calls
check and raise in two steps, and for a monitor thread that may want what the closer
holds; ffmpeg stops when a pipe is full that nobody reads. `PROJECT.json` lists each hazard at its line with the properties that
cover it.

What makes each part correct:

- *frame loop*: a reported position is the place of a real change, a large
  change is reported, moving the controls never looks like motion, every frame
  ends unless its groups have no columns;
- *settings*: what was last saved is in force after the next start, or, with the file lost,
  every default;
- *manager*: commands are averages of recent positions, an old position has no
  influence, the timer lives, nothing is written to a port that is not ready;
- *line and firmware*: commands are executed whole, once, in order; after a loss
  the servo recovers;
- *registry*: one owner per identifier, one thread with the device, an identifier
  nobody owns is available, a waiting opener stops by its deadline;
- *lock files*: one program at a time uses the port, the lock of a dead one is
  removed, nobody else's is;
- *port*: a call that `close()` waited for has an open descriptor, no event loop outlives
  it, a listener is served as long as it is there, nobody waits for ever;
- *stream loop*: it stops at a pipe of the transcoder only after a flood of messages; the
  delay that holds the frame rate stays small;
- *cameras*: every complete entry of the list is a device with its own location; a
  selection comes back unless v4l2-ctl fills its pipe.

## Modules

| module | what it is |
|---|---|
| `Commands` | the line protocol: decimal digits and a newline |
| `ArduinoManager` | the manager: main thread, timer thread, the blocking write, the port |
| `ArduinoManagerHistory` | the same with a history of the last positions, to state what a scan may return |
| `SlidingAverage` | abstract: "buffering position updates and periodically updating the arduino with a new position" (ArduinoManager.java:2) without ring, timer or port |
| `Sweep` | the firmware and its receive buffer |
| `ServoPipeline` | manager, line and firmware together, with loss and fairness |
| `CommandChannel` | abstract: a queue of whole commands and a servo that executes them |
| `FrameLoop` | frame thread and event thread of `CameraTrack` |
| `FrameLoopHistory` | the same with the reference a frame started from, and its properties |
| `Settings` | `AppSettings`, the listeners that use it, kills and restarts |
| `PortRegistry` | RXTX inside one program: identifiers, their owners, enumeration, open and close by several threads |
| `LockFiles` | RXTX between programs: the lock file of a port, and programs that may die |
| `LockFilesHistory` | the same with a record of whether a lock still in use was ever removed, or an empty one misread |
| `SerialPort` | one open port: writers, readers, the listener and its monitor thread, close |
| `StreamLoop` | `CameraTrack.run` against ffmpeg, `FrameCounter` and the delay |
| `VideoDevices` | `VideoDeviceManager`, the choice of a camera and of a stream, v4l2-ctl |
| `MC...` | the instance of the module for TLC |
| `ServoPipeline_proof` (with `ArduinoManager` and its history), `FrameLoopHistory_proof`, `LockFilesHistory_proof`, `PortRegistry_proof`, `SerialPort_proof`, `Settings_proof`, `StreamLoop_proof`, `VideoDevices_proof` | theorems |

Operators whose comment says "faulty variant" are plausible bugs. They occur in
no specification; put in place of the definition that follows them, they make
a property fail, which shows that the property depends on that code.

### ArduinoManager

`main` follows the main thread through `ArduinoManager()` (`InitTimer`,
`NewHandler`, `OpenPort`/`InitializeFails`, `Enable`) and then the frames
(`UpdatePosition`, one monitor-protected call, `StreamEnds`). `timer` follows
the `TimerTask`: `BeginScan`, one `ReadSlot` per iteration of the loop, which
takes no monitor, then `SkipSend` or `SendData`. `sendData` is a blocking
`write`: the driver takes bytes one at a time while its queue has room
(`TakeByte`), `WriteReturns`, or it is cut short by a signal after the first
byte (`ShortWrite`: `writeArray` loops on `EINTR` only and reports success), or
it fails (`WriteFails`: `sendData` logs and returns). An exception outside
`sendData`'s try block would end the `Timer`: `timer = "dead"`.
`Unplug` and `Transmit` are the environment. The ring's size, the positions and
the queue's length are constants.

A read of `positions[i]` by the timer is atomic and sees the latest value: 32-bit
reads are atomic in Java, and on the hardware the program runs on plain stores
of one thread become visible in order. The Java memory model would allow an older
value to be seen. `int total` cannot overflow: 30 positions of at most 180.

The cap at 180 never applies to positions from `CameraTrack`, which are at most
180 themselves; it is modelled because `updatePosition` is public.

### Sweep, ServoPipeline

`Sweep` takes one byte per step: a digit is collected, a newline makes `pos` the
16-bit value of the digits and clears them. `Receive` drops a byte when the
buffer is full. `ServoPipeline` joins it to the manager by `Deliver`, a `Transmit`
that ends in `Receive`. Three things lose bytes: a write cut short, an overrun,
an unplugged board. `LossLimit` bounds the first two. The newline of the next
command always resynchronises the firmware, but a lost newline merges two
commands into one first (90 and 90 become 9090); the model shows that and the
liveness property allows it.

### FrameLoop, FrameLoopHistory

A frame is a function from columns to shades; every row is alike. `NextFrame`
computes the band's rows, `Grab` takes the raster unless the mouse holds the
position slider (`SkipAdjusting`) or the band has no rows (`EmptyBand`: `getData`
throws), `CompareGroup` is one iteration of the loop over groups of columns,
`Report` the call of `updatePosition`, `EndFrame` the automatic calibration. Locals
read once (rows, group size) are variables; fields read for every group
(`lastRaster`, `sensitivitySetting` in the threshold, `allowedColorVariance`) are
read by `CompareGroup`. The window's actions interleave anywhere.

The model keeps the code's particulars: the last column of every group is not
compared; a change in the first group moves `x` from 0 to 1 and shifts the groups
after it; pixels outside either raster count as unchanged; colour bytes are
signed; the threshold is `|sensitivity - 50|`; position 0 means "no motion" (so a
change in the first hundredth of more than a hundred groups is not reported).
With groups of one column, the slider's most sensitive end, no pixel is compared at all. With
groups of none, which a start may restore, `CompareGroup` repeats for ever; the code counts
`boxCounter` on meanwhile, which nothing reads any more, and the model leaves it alone.

### Settings

`AppSettings.set` puts the value, truncates the file (`OpenFile`/`OpenFails`),
writes it (`StoreProps`/`StoreFails`), and only then the listener sets the field
(`Apply`). `Stop` is a kill or a closed window at any point; `Start` loads,
parses with defaults and saves. `StartUnread` is a start whose load fails: the exception is
logged (AppSettings.java:31), every control has its default, and the save at the end of `init()`
overwrites the file, a good one too. `saved`, `settled` and `kept` are history; `kept` is what
the change that was last written to the file puts in force. `RestartRestores` says that a start brings that back,
and what it may do instead: give *every* control its default, and only if it could not read the file or a save
ended between truncating and writing it. The file is
small enough for `Properties.store` to reach it in one write and for one read to take it, so
a file torn or half read is not modelled. Saves by the constructor's thread and by the event thread do not overlap in
the model: the controls have no size before the window's last layout.

### PortRegistry

One port, several threads of one program. An identifier's fields are functions of
identifier objects; `listed` is the list `CommPortIndex` cut down to the one port.
`EnumBegin` to `EnumEnd` is `getPortIdentifiers`, which holds `Sync` throughout
while `testRead` takes and returns the lock file (`ProbeLock`, `ProbeEnd`);
`Open`, `Wait`, `Deadline` are `open` up to ownership, each a `synchronized (this)`
block, `GetCommPort` is `RXTXPort.open` in C, `Unown` the `finally` block;
`NativeClose`, `Lookup`, `InternalClosePort` are `close`, which looks the identifier
up twice. `getPortIdentifier(String)` of a port that is not listed enumerates first:
here `EnumBegin` and then `GetPortIdentifier`, with room for other threads in
between that the code does not leave.

`owner` is a thread where the code has the string the caller passed. Objects that
nothing refers to are used again, so `Ids` and `Ports` bound how many are in use at once,
not how many are created. Closing (`close`, by the thread that opened) is called
once for each port. Failing to open keeps the lock file (`lock = "leaked"`): every
later open then fails, which the model shows and `ListedIsOwned` allows.

### LockFiles, LockFilesHistory

Each program has one thread. A step is a system call that another program can
notice: `Stat`, `ReadPid`, `Judge` (`kill(pid, 0)`), `Remove` (the `unlink` of a stale
lock), `Create` (`O_EXCL`), `WritePid`; then `OpenPort`/`ClosePort` or
`TestOpen`/`TestDone`, and `CheckPid`, `Unlink`, for `testRead` also `TestClose`.
`Die` is the end of a program anywhere; its file stays. A read of the empty file of
a program that has created and not written it returns 0, which the code takes for
success: what `sscanf` then finds in the buffer is any of `Garbage`. A pid is not
used again by another program, and `kill` answers `EPERM`, not `ESRCH`, for a
program of another user. The code also looks into other lock directories; they hold
nothing for this port here.

`robbed` records that a file whose creator lives was removed as stale. That is
what goes wrong in `locks_exclusion`, and what everything else is proved up to. What leads there
is a death or a misread empty file (`misread`); before either there is one user, whatever the
order of the steps (`OneUserUntilStale`).

### SerialPort

A thread's `frames` are what it still has to do in the call it is in, a stack whose head
is its program counter: `Begin` pushes a call, and `Write`, `Read`, `Size`, `Count`, `Enter` and the
rest replace the head by what follows. A write or read checks `fd` and
`monThreadisInterrupted`, is counted (`Count`: `IOLocked++`), waits for
`MonitorThreadLock` and enters the native code, which reads `fd` again (`Enter`, the
second half of it `waitForTheNativeCodeSilly`). `Close` is the `synchronized` block of
`close()`, `Shutdown`, `NativeClose` and `Closed` what follows it without the monitor.
`RemoveEventListener`, `InterruptEventLoop`, `Join`, `Forgotten` are `removeEventListener()`, which
`close()` calls; `AddEventListener`, `Await`, `Run`, `EventLoop` start a monitor thread, `Loop`,
`SendEvent` serve it. `loops` is `master_index` cut down to this descriptor.
`read_byte_array` clears the data flag of `eis`, the loop begun last, and puts it back:
`borrowed` and `saved`.

The listener is `ArduinoHandler`: `SerialEvent` takes the handler's monitor, asks
`available()` and reads what there is (`Respond`), and `handlerClose` is its `close()` under
the same monitor. `Scripts` are what the threads of a program call; `Disciplined`
singles out those that manage the port from one thread as `ArduinoHandler` does. The others (two
threads that close, that remove the listener twice, that ask for events after removing
it) are in the model too, and `UsesOpenDevice` holds for them; there the search of
`interruptEventLoop` may repeat for ever (`fd` is 0 by then) and an exception may leave
`closeLock` set, so that no later `close()` does anything.

Timeouts are "none", "zero" (never a byte) and "some". A `join` may end before the thread does, at its
three seconds or by `interrupt()`. A read may fail at any time (`ReadFails`, which loses what it had read),
but nothing makes it. Setters, modem lines and other kinds of events set no flag that these
properties see. `late` marks a call that was counted after `close()` had seen `IOLocked`
at 0. The code does not prevent that: `fd` and `monThreadisInterrupted` are checked before the
count and `closeLock` is not checked at all, so such a call may use a closed descriptor;
`UsesOpenDevice` says it is the only one.

### StreamLoop

`Take` is `readMjpegFrame` with a picture or without (`null` for what is not one), `DrainMessages` the
loop over `ready()`, which reads whole lines and so may wait for the end of one,
`ProcessImage` the control of the delay, `ExitValue` the question after a `null`, and
`Retry` the second of sleep after which the streams are wrapped anew and whatever the old
wrapper had read is lost. ffmpeg is `Transcoder`: it writes pictures and messages into two pipes of
limited room and waits when one is full. Messages are read only when
a picture comes, so both processes may come to wait for each other (`Jam`), for instance with ffmpeg at a high log
level and a camera that shows nothing. There is a second form of it: ffmpeg has closed its output and
waits with a last message, and the loop wraps the streams anew every second, for ever. The model
has both; `StreamGoesOn` excepts them and `JamMeansFlood` says what they take: `most`, the history of the most messages said between
two pictures, shared among the pictures that a `null` may have taken along unread, exceeds the pipe.

Time is counted in ticks; it passes while the frame thread waits and a timer that is due
runs first. `frameCounter` is kept as the difference to `lastFrameCount`, so that it stays small;
`fps` is up to a second old when `ProcessImage` uses it. A picture counted between the two
reads of `FrameCounter.update` is in no second. The delay rises by a millisecond a
frame in the code and by a tick here, which is harsher.

### VideoDevices

`ReadEntry` and `ReadBlank` are `readDevices` line by line: a name, a location (the last of several
counts), and the blank line that ends the entry. `Outputs` has whole lists, lists with parts
missing, and one that breaks off before its last blank line, whose last camera is lost.
`SearchDevice` finds a camera by its name or its location; it ignores case, which no two values here differ in.
`Restart` may find the last camera forgotten, with the settings file lost or unread.
`ChooseStream` is the choice of `run()`: the argument, the camera used last, the first one.
`SelectCamera` is the combo box's listener on the event thread; `Query` starts `v4l2-ctl` unless the camera's
controls are kept already, and waits for its end *before* it reads (`ReadDeviceSettings`), once
more if there was nothing (`loadDeviceProperties` asks again). `v4l2-ctl` stops when the pipe is full, so a
camera with more controls than fit keeps the event thread for ever (`PipeFull`); `SelectionEnds` says that it is
the only case. Controls are counted lines. `reinit` asks for the exit value of a
process that may still run; the exception it gets is dropped by `finally { return false; }`, and nobody
looks at the result.

## Runs

| run | configuration | what it shows |
|---|---|---|
| `ring` | 3 slots, positions 0, 2, 7, at most 2 updates during a scan | the timer survives; it writes only when enabled; commands stay within the positions seen; the manager implements `SlidingAverage` |
| `pipeline` | 2 slots, positions 0, 7, 12, one lossy step, unplugging | until the loss the line implements `CommandChannel`; after it and after the stream's end the servo reaches the average left in the ring, or, with nothing left, is left alone |
| `frames` | 6x4 pixels, 3 pictures, bands with 2, 2 overlapping and no rows, groups of 2 and 3 columns, 0 or 2 restored, shades 1 and 100 apart | reports are real, aimed, complete; frames end, unless grabbed with a group size of 0 |
| `settings` | one or two values per slider | a start brings back what was last saved, or every default |
| `registry` | 2 threads, 3 identifiers, 6 port objects | an identifier's owner is the one who holds it; who was given the port has its lock file; no listed identifier stays taken; a waiting opener stops waiting, and every call returns |
| `locks` | 2 programs, 1 death, any garbage | until a living program's lock is removed: one user, a file that names its holder, a lock over every descriptor; one user until somebody dies or an empty file is misread; the lock of a dead program does not outlive an attempt |
| `port` | 2 threads, 6 pairs of scripts, 2 monitor threads, 3 timeouts, 2 thresholds, reads of at most 2 bytes, 1 interrupt | calls that `close()` waited for have an open descriptor; no event loop on a closed one; a listener is served, and keeps its notification across reads; every call returns |
| `stream` | room for 2 pictures and 1 message, 2 messages a picture, 1 null in a row, seconds of 6 ticks, 3 frames wanted | the loop stops at a pipe only in a jam, and a jam means a flood; the delay stays under a second |
| `cameras` | 2 cameras, 4 lists, 2 and 3 controls against a pipe of 2, 3 selections, 2 restarts | the devices are the complete entries in order; a selection ends unless the pipe is full |
| `settings_restart`, `registry_unavailable`, `locks_exclusion` | | disagreements, below |

Why the bounds are enough. The ring's behaviour depends on whether the writer passes
the reader during a scan and on whether the index wraps: three slots and two
overlapping updates do both; the theorem below removes the bound for the safety
property. Two digits are needed for commands to mix (12), one to see lengths
differ (7). Queues of one byte make the timer block at every byte. In `frames` the
groups of two and of three columns divide the width, shifting makes a group
straddle its end, and the three bands cover equal, overlapping and empty rows.
`Sensitivities` is what the slider applies and does not contain 0; `Restored` is what a start
may find in the file and does (how it gets there is the subject of `settings_restart`). The shades 127 and 128
differ by 1 over the edge of a signed byte, 127 and 27 by 100 below it; the variances lie on both
sides of 100. In `registry` two threads make every pair of calls;
three identifiers let both threads hold a dropped one while a third is listed. In
`locks` a lock still in use is removed when an empty file is misread; that a stale one
in dispute leads there too takes three programs, as in `locks_exclusion`. The
theorems below remove these bounds for the safety properties they name.

In `port` two threads are enough for every race between a call and the closer; the
monitor thread is a third. A second monitor thread begins while the first still runs. Two
bytes make a read that gets half of what it wants. In `stream` a wrapper takes two
pictures at once, so a `null` can lose one; and a second message between two pictures does not
fit, so jams happen, with a `null` before them or without. A second of
six ticks lets the delay overshoot and return. In `cameras` the third camera selection finds the first one's
controls kept, and a restart reads another list with the last camera remembered.

Deadlock is not checked in `ring`, `pipeline`, `port`, `stream` and `cameras`: the
constructor may end without a board, the stream may end, a board may be unplugged,
scripts end, and a user need not select a camera.

Fairness. `PFairness`: a `Timer` runs its task every 100 ms, the UART shifts bytes by
itself, and the board calls `loop()` for ever. Nothing is assumed of frames, of
losses or of the user. `FFairSpec`/`HFairSpec`: the thread that holds a frame is
scheduled. `FairSpec` of `PortRegistry`: a thread inside a call is scheduled, and a deadline
that has passed ends the wait, since `open` computes what is left of it before
every `wait`; nothing makes a client close what it opened. `HFairSpec` of
`LockFilesHistory`: a program that has begun to lock goes on until it dies.
`SPFairSpec` of `SerialPort`: strong fairness for a thread inside a call, since the event loop
sleeps between two events (its `select` has a timeout) and who waits for the
handler's monitor or for `IOLocked` finds it free again and again; weak fairness for the
monitor thread. Nothing makes bytes arrive or a read fail, and `CallsReturn` excepts who waits for bytes
without a timeout. `CSpec` of `StreamLoop`: threads and ffmpeg are scheduled and time
passes; nothing ends ffmpeg. `DSpec` of `VideoDevices`: `v4l2-ctl` goes on while there is room, the
event thread takes what it has waited for.
`SlidingAverage`, `CommandChannel` and `Settings` are safety only.

### Disagreements found

- `settings_restart`: three settings do not come back as they were in force. The sensitivity
  listener applies at least 1 but stores 0; a start applies the 0, and the comparison
  loop never ends. The "Band Width" slider sets the band height until the next
  start. The calibration mode is stored as `auto`, read back as a boolean, and lost.
- `registry_unavailable`: enumerating while this program has the port open drops the
  port's identifier (its lock file makes `testRead` fail). The close then releases
  nothing, and whoever kept the identifier never opens it again.
- `locks_exclusion`: a stale lock is judged by its contents and removed by its name.
  Two programs that find it stale may both go on: the second removes what the
  first has put in its place.

Seen in the source and part of a model, but in no run of its own: shades are subtracted as
signed bytes (`Signed` in `FrameLoop`), so 127 and 128 differ by 255, black and white by 1, and the
"Color Variance" slider does not mean what it says (at 120 a change of one shade may be reported as motion; `MotionIsReal`
and `MotionIsSeen` speak of what the code compares, over that edge too); `close()` of a port whose `fd` is
0 leaves `closeLock` set (`Shutdown`); `notifyOnDataAvailable` after the listener's removal leaves
`MonitorThreadLock` set, and everything after it waits (`SetFlag`).

## Proofs

TLAPS proves, for every ring size, every set of positions and every capacity of the queues
(`ServoPipeline_proof`), about the manager:

- `TypeCorrect`: `Spec => []TypeOK`;
- `TimerIsSafe`: `Spec => []TimerSurvives`, and `OnlyReadyPortsAreWritten`:
  `Spec => []WriteOnlyWhenEnabled`. Neither is inductive. The strengthening `SafeInv` says
  that before `Enable` the ring holds zeros only and a scan has summed zeros, that the sum is
  positive only if the count is, and that whoever is enabled has a handler: so the timer, which
  runs before the handler exists, has nothing to send until the port is ready;
- `CommandsFollowMotion`: `HSpec => []CommandWithinSeen`. The invariant ties the ring to the
  history: the slot `k` places behind `nextPosition` holds the entry of that age, so what a
  scan reads at a slot is an entry of a window seen since the scan began (a window is
  recorded for each update). The sum of what was read is then between `count` times the
  smallest and `count` times the largest positive entry seen (`SumBounded`), and
  so the mean is between them;
- `RingIsAnAverage`: `HSpec => ImplementsAverage`, for the refinement mapping that reads the ring from
  `nextPosition` on. Until a second position is recorded during a scan, the scan reads one
  ring: there is a ring `r`, with the sums of the window before or of the one after the update, of
  which it has read the beginning and will read the rest (`ScanReadsOne`; which of the two depends
  on whether the updated slot had been read). The abstract average adds in the order of age and the
  scan in the order of slots; that the sums agree is an invariant too (`RingSums`), since an update
  replaces the oldest entry in both.

About the whole path to the servo, in the same module:

- `PipelineTypeCorrect`: `PSpec => []PTypeOK`, the 16 bits of `pos` included;
- `LineIsAChannel`: `PSpec => ImplementsChannel`: until a byte is lost, each step of manager,
  line and firmware is a step of `CommandChannel` or a stutter, for the refinement
  mapping that reads the bytes in flight as the firmware will read them (`Reading`). `PipeInv`
  adds to `SafeInv` that what a scan has summed is a sum of `count` positions (so every command
  is in `Means`), that nothing is left unsent outside a write, and that without losses the
  bytes in flight are whole commands. The lemmas on `Reading` say what appending a line
  adds, what taking the first byte removes, and that a prefix of the bytes is a prefix
  of the commands (an unplugged board). They are inductions over the length of a
  sequence, done from the least element at which they would fail (`LeastElement`, `Induction`),
  since the library's induction theorems are out of the provers' reach.

For any number of programs, deaths and misread lock files (`LockFilesHistory_proof`):

- `LockTypeCorrect`: `HSpec => []TypeOK`;
- `LockFileNamesHolder`: `HSpec => []HeldMeansFile`, which is inductive: `O_EXCL` makes
  the file the creator's, only `Remove` and `Unlink` take it away, the first
  marks `robbed` if the creator lives, the second is the creator's own;
- `ExclusionUntilRobbed`: two users would both be named by the one file;
- `DescriptorsAreLocked`: `HSpec => []OpenMeansLocked`, inductive with
  `HeldMeansFile` and `DescriptorPlace`. Its exception is `testRead`, which removes
  its lock before it closes the device: for a moment two programs may have a
  descriptor, though not both use it;
- `ExclusionUntilStale`: `HSpec => []OneUserUntilStale`. As long as nobody has died and no empty file
  was taken for a dead program's, every pid that is read is a running program's (`NothingStale`), so nobody
  comes to `Remove` and nobody is robbed; that the dead stay dead (`DeadStayDead`) carries it over a step.

For any number of threads, identifiers and ports (`PortRegistry_proof`):
`RegistryInvariant`, and from it `RegistryTypeCorrect`, `OneOwnerAlways` and `OpenPortExclusive`. The
strengthening adds that a port object is in one identifier and with one thread, that
an available identifier has no port, and that a thread between the two ends of
`open` owns what it refers to, so that neither a deadline, nor a close that finds
the identifier by its port, nor an enumeration gives it to anybody else. `ListedIdentifiersComeBack`
(`[]ListedIsOwned`) adds that an identifier an enumeration has set aside is owned while it
is unavailable: a close cannot look for it meanwhile, because the enumeration has `Sync`.

For every size of frame, every set of scenes and all values of the sliders
(`FrameLoopHistory_proof`):

- `ReportedMotionIsReal`: `HSpec => []MotionIsReal`. While a frame is compared, `lastRaster`
  is the reference it was grabbed with or, once somebody has pressed calibrate, the
  frame's own raster (`Comparing`), which differs from itself nowhere; so an edge is set
  only for a real difference (`EdgesAreReal`);
- `FrameTypeCorrect`: `HSpec => []HTypeOK`. The number of groups
  grows no faster than `x` (`Geometry`), and two truncating divisions of edges within
  it give 0 to 180 (`PositionInRange`). A group of no columns finds no change and moves neither;
- `PositionAimsInsideMotion`: `HSpec => []AimsInsideMotion`. The group in hand begins at
  `boxCounter * group` or, after a change in the first group, one column further right
  (`Boxes`); so the edges lie within a group of a first and a last changed column
  (`Outermost`), and two truncating divisions lose three degrees at most;
- `WideChangeIsSeen`: `HSpec => []MotionIsSeen`. A run of changed columns of twice a group's
  width contains a whole group wherever the groups begin, and while the window is left alone
  the loop does not get past it without moving an edge (`Filled`). Two premises of the property are
  there because the code needs them: a threshold below 100, as no percentage exceeds 100, and a run
  that does not lie in the leftmost fiftieth of the frame. There the percentage of line 350
  may be 0, and a position of 0 means no motion; TLC's frames are too narrow to show it.

For every set of values the sliders may store (`Settings_proof`): `SettingsTypeCorrect`,
`SavedSettingsAreInForce` (`[]SavedIsInForce`, which has no run of its own) and `SettingsSurviveRestart`
(`RestartRestores`). None of it is inductive, since the fields lag behind the properties:
`AgreeBut` says that they agree but for the one setting under way, whether earlier
saves failed or not, `ChangeIsStored` that this one is in the properties already (so that what its listener will
leave in force is what the properties say, `AppliedAgrees`), `Saved` that a saved file is the properties, `Whole` that
the file is empty or says what was in force after the change it was written for, wherever the program stopped.

For any finite number of threads and monitor threads and any scripts of calls
(`SerialPort_proof`): `CountedCallsUseOpenDevice` (`[]UsesOpenDevice`) and
`OneThreadCloses`, and further `PortTypeCorrect`, `ClosedPortHasNoLoop` (`[]LoopOnOpenDevice`),
`ListenerHasItsLoop` (`[]ListenerIsServed`) and `ReadsKeepTheNotification` (`[]NotificationIsKept`).
The invariant `IInv` says that

- the frames of one call to input or output stay together on a thread's stack (`Linked`), also
  where a listener reads, writes or closes from within its callback;
- `IOLocked` is the number of threads between its two updates (`CountsOK`: this is where
  finitely many threads are needed, as it is a cardinality);
- one thread at a time is past the synchronized block of `close()`, with `closeLock`
  set (`OneCloser`);
- a call that was counted in time keeps the closer out of the native close (`InTime`): so
  the descriptor it uses is open until it returns. The calls counted too late are
  in `late`; for them the theorem claims nothing, which is the hazard of
  RXTXPort.java:1058.

The others need more. `PartsOK` orders what may lie below what on a thread's stack (`Rank`),
says which loops are listed and which read has borrowed a loop's flag, and what a thread
still has to do of its script. `Agreement` holds while one thread manages the port
and no wait for the monitor thread was given up: between the manager's calls the port is
`Serving` (one monitor thread, in its loop, listed alone, not told to end) or `Stopped` (none
listed, nothing left of one), `Starting` inside `addEventListener`, and for each frame the manager
may be in it says which. Other threads, which only read and write, change none of it. `Noted` adds that
the loop has its flag for data, or a read that will put it back does.

For every room in the pipes, whatever the transcoder says and however many of its pictures are none
(`StreamLoop_proof`): `StreamTypeCorrect` and `JamsOnlyAfterFlood` (`[]JamMeansFlood`), the safety
half of `StreamGoesOn`. What may be unread is bounded by the pictures that may have come since
the messages were drained: those that wait, and a pipe full for each null, because
wrapping the streams anew loses what the old wrapper had (`MessagesOK`). So the pipe of messages is full only
if one of these pictures came with more than its share.

`DelayStaysShort` (`[]DelayIsBounded`), for every frame rate: frames that were counted have
taken the time they slept (`FramesTakeTime`), so a rate that raises the delay was one of three
frames within a second, none of which slept for more than about half of it; the delay then rises at
most twice before the rate is measured again (`DelayFollowsRate`). The argument needs a second of at least
six ticks, and the code's has 1000; TLC also finds shorter ones bounded.

For every output of `v4l2-ctl` made of names, locations and blank lines, whole, cut off or
damaged (`VideoDevices_proof`): `DevicesTypeCorrect` and `DevicesAreAsPrinted` (`[]ListedAsPrinted`). While a
list is read, the two local variables are the last name and the last location of the entry under way,
or null where it had none (`EntryOK`), so a blank line adds a device just when it ends a complete entry.

The assumptions are the named `ASSUME`s of the modules: a positive number of slots, positions
that are natural numbers, a positive queue length, special values that differ from
the sets they are special in, a parent that is not one of the programs, finitely many threads
at a port, pipes with some room.

Model-checked only: all liveness (`ServoSettles`, `QuietHolds`, `FrameEnds`, `StaleIsRemoved`, `WaitEnds`,
`CallsReturn`, `StreamGoesOn`, `SelectionEnds`), which is out of the prover's reach. Every invariant and
both refinements of the passing runs are proved, one of them under the condition stated above (`DelayIsBounded`).
`RestartRestores`, the one action property of a passing run, is proved too.

## Plan

Done: the path from the frame to the servo, the settings, the port's ownership inside
a program and between programs, an open port and its threads, the stream loop, the cameras.
Next, in this order:

1. `SerialPort` composed with `PortRegistry`'s `NativeClose`: a port that one thread of a program
   closes while another opens it by its identifier.
2. An abstract lock (`PortLock`: at most one holder, a dead holder's lock passes on)
   that `LockFiles` implements while nobody is robbed.
3. `read()` of one byte and `readTerminatedArray`, which differ from `read(byte[])` in
   what they count and when.

## Not modelled

Drawing, face detection, image conversion, the layout of the window, `ImageStreamReader`
(nothing starts it) and the experiments `usbcamtest` and `delete`: no protocol state. `FfmpegHelper`
builds one command line. Most lines of this repository are RXTX for systems and
devices that CameraTrack does not run on: its port to `gcj` (`CNI`), its emulation of termios on
Windows (`termios.c`, `SerialImp.cpp`, `WinCE`), parallel, RS485, I2C and raw ports (copies of the
serial code with other names), `Rewrite2010`, and trees of contributed copies. They
would repeat `SerialPort` and `LockFiles` or be about hardware that nothing here opens, and
are why the models map to a small share of all lines. Of `SerialImp.c` itself, the setters and
getters of line parameters, the other lock schemes and the `#ifdef`s of other systems are left out.
