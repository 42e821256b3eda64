----------------------------- MODULE SerialPort -----------------------------
(***************************************************************************)
(* One open serial port of RXTX (RXTXPort.java, with the event loop and    *)
(* the reads of SerialImp.c): the threads of a program that write, read,   *)
(* manage the listener and close, and the port's own monitor thread, which *)
(* calls the listener.  The listener is ArduinoHandler, whose close() and  *)
(* serialEvent() take its monitor.                                         *)
(*                                                                         *)
(* A thread's frames are what it still has to do in the call it is in, a   *)
(* stack whose first element is its program counter.  Fields are read and  *)
(* written without locks in the code; a step is a stretch of it in which   *)
(* no other thread's step makes a difference the properties see.           *)
(***************************************************************************)
EXTENDS Naturals, Sequences, FiniteSets, SequencesExt

CONSTANTS
  Threads,       \* the program's threads
  Monitors,      \* monitor threads, recycled once nothing refers to them
  None,
  Scripts,       \* what each thread may call, in order
  Timeouts,      \* receive timeouts: "none", "zero" or "some"
  Thresholds,    \* receive thresholds, 0 if disabled
  Length,        \* bytes asked for by a read
  MaxPending,    \* bound: bytes that wait to be read
  MaxInterrupts  \* bound: how often Thread.interrupt() cuts a wait short

Calls  == {"write", "read", "notify", "add", "remove", "close", "handlerClose"}
Actors == Threads \cup Monitors

ASSUME ActorsAssumption ==
  /\ Threads \cap Monitors = {} /\ None \notin Actors
  /\ Monitors # {} /\ IsFiniteSet(Actors)
ASSUME ScriptsAssumption == Scripts \subseteq [Threads -> Seq(Calls)]
ASSUME TimeoutsAssumption ==
  Timeouts \subseteq {"none", "zero", "some"} /\ Thresholds \subseteq Nat
ASSUME BytesAssumption ==
  Length \in Nat \ {0} /\ MaxPending \in Nat \ {0} /\ MaxInterrupts \in Nat

VARIABLES
  script, calls,              \* the scripts followed, the calls begun so far
  timeout, threshold,         \* RXTXPort.timeout, threshold, set before
  frames,                     \* what each thread is doing
  fd, device,                 \* RXTXPort.fd is set; the descriptor is open
  ioLocked, closeLock,        \* RXTXPort.IOLocked, closeLock
  isInterrupted, alive,       \* monThreadisInterrupted, MonitorThreadAlive
  threadLock,                 \* MonitorThreadLock
  listener, monThread, data,  \* SPEventListener # null, monThread, its Data
  handler, stream,            \* who has the monitor of ArduinoHandler, of the input stream
  loops,                      \* master_index: the event loops of this descriptor
  closing, flags,             \* those with eis.closing, with eventflags[SPE_DATA_AVAILABLE]
  eis,                        \* RXTXPort.eis: the loop that was begun last
  pending,                    \* bytes that wait to be read
  wanted, got,                \* of the read in progress: bytes to read, bytes read
  borrowed, saved,            \* the loop whose flag it has cleared, and what the flag was
  entered,                    \* whether the device was open when a native call began
  late,                       \* history: counted in IOLocked after close() had seen 0
  gaveUp,                     \* history: a join ended before the monitor thread did
  overlap,                    \* history: a flag was set during a read
  interrupts

client == <<script, calls, timeout, threshold>>
ports  == <<fd, device, closeLock>>
fields == <<isInterrupted, alive, threadLock, listener, monThread, data>>
locks  == <<handler, stream>>
native == <<loops, closing, flags, eis>>
read   == <<wanted, got, borrowed, saved>>
io     == <<ioLocked, entered, late, read>>
past   == <<gaveUp, overlap, interrupts>>
vars == <<client, frames, ports, fields, locks, native, io, pending, past>>

Frame == {"write", "read", "size", "count", "settle", "enter", "native", "reading",
          "notify", "flag", "add", "await", "remove", "stop", "join", "close",
          "shutdown", "nativeClose", "closed", "synchronize", "release",
          "run", "eventLoop", "loop", "sendEvent", "serialEvent", "available", "respond"}

STypeOK ==
  /\ script \in Scripts
  /\ calls \in [Threads -> Nat]
  /\ timeout \in Timeouts /\ threshold \in Thresholds
  /\ frames \in [Actors -> Seq(Frame)]
  /\ fd \in BOOLEAN /\ device \in {"open", "closed"}
  /\ ioLocked \in Nat /\ closeLock \in BOOLEAN
  /\ isInterrupted \in BOOLEAN /\ alive \in BOOLEAN /\ threadLock \in BOOLEAN
  /\ listener \in BOOLEAN /\ monThread \in Monitors \cup {None} /\ data \subseteq Monitors
  /\ handler \in Actors \cup {None} /\ stream \in Actors \cup {None}
  /\ loops \in Seq(Monitors) /\ closing \subseteq Monitors /\ flags \subseteq Monitors
  /\ eis \in Monitors
  /\ pending \in 0 .. MaxPending
  /\ wanted \in 0 .. Length /\ got \in 0 .. wanted
  /\ borrowed \in Monitors \cup {None} /\ saved \in BOOLEAN
  /\ entered \in [Actors -> {"open", "closed"}]
  /\ late \subseteq Actors
  /\ gaveUp \in BOOLEAN /\ overlap \in BOOLEAN /\ interrupts \in 0 .. MaxInterrupts
  /\ \A m \in Monitors : (m \in ToSet(loops)) => frames[m] # << >>

First == CHOOSE m \in Monitors : TRUE

(* The port as its constructor leaves it: open, with a monitor thread in   *)
(* its event loop and nobody listening.                                    *)
SPInit ==
  /\ script \in Scripts
  /\ calls = [t \in Threads |-> 0]
  /\ timeout \in Timeouts /\ threshold \in Thresholds
  /\ frames = [a \in Actors |-> IF a = First THEN <<"loop">> ELSE << >>]
  /\ fd = TRUE /\ device = "open" /\ closeLock = FALSE
  /\ ioLocked = 0 /\ late = {}
  /\ isInterrupted = FALSE /\ alive = TRUE /\ threadLock = FALSE
  /\ listener = FALSE /\ monThread = First /\ data = {}
  /\ handler = None /\ stream = None
  /\ loops = <<First>> /\ closing = {} /\ flags = {} /\ eis = First
  /\ pending = 0 /\ wanted = 0 /\ got = 0 /\ borrowed = None /\ saved = FALSE
  /\ entered = [a \in Actors |-> "closed"]
  /\ gaveUp = FALSE /\ overlap = FALSE /\ interrupts = 0

(* a is about to do f; it goes on with the frames of s instead. *)
At(a, f)   == frames[a] # << >> /\ Head(frames[a]) = f
Goto(a, s) == frames' = [frames EXCEPT ![a] = s \o Tail(@)]
Return(a)  == Goto(a, << >>)

(* The call t begins next: ArduinoHandler.close() is both of RXTXPort's,   *)
(* under the handler's monitor.                                            *)
Body(c) == IF c = "handlerClose" THEN <<"synchronize", "remove", "close", "release">>
                                 ELSE <<c>>

Begin(t) ==
  /\ frames[t] = << >> /\ calls[t] < Len(script[t])
  /\ calls' = [calls EXCEPT ![t] = @ + 1]
  /\ frames' = [frames EXCEPT ![t] = Body(script[t][calls'[t]])]
  /\ UNCHANGED <<script, timeout, threshold, ports, fields, locks, native, io, pending, past>>

Synchronize(t) ==
  /\ At(t, "synchronize") /\ handler = None
  /\ handler' = t
  /\ Return(t)
  /\ UNCHANGED <<client, ports, fields, stream, native, io, pending, past>>

Release(a) ==
  /\ At(a, "release")
  /\ handler' = None
  /\ Return(a)
  /\ UNCHANGED <<client, ports, fields, stream, native, io, pending, past>>

-----------------------------------------------------------------------------
(* Input and output: fd and monThreadisInterrupted are checked, the call   *)
(* is counted in IOLocked, it waits until nobody has MonitorThreadLock,    *)
(* and the native code reads fd again.                                     *)

Write(t) ==
  /\ At(t, "write")
  /\ IF isInterrupted \/ ~fd THEN Return(t)
                             ELSE Goto(t, <<"count", "settle", "native">>)
  /\ UNCHANGED <<client, ports, fields, locks, native, io, pending, past>>

(* read(byte[], int, int) is synchronized on the stream. *)
Read(a) ==
  /\ At(a, "read") /\ stream = None
  /\ \/ /\ fd
        /\ Goto(a, <<"size", "count", "settle", "reading">>)
        /\ stream' = a
     \/ /\ ~fd
        /\ Return(a)
        /\ UNCHANGED stream
  /\ UNCHANGED <<client, ports, fields, handler, native, io, pending, past>>

Least(m, n) == IF m <= n THEN m ELSE n

(* How many bytes to read: with the threshold disabled as many as          *)
(* nativeavailable says, which is not counted in IOLocked, or one.         *)
Size(a) ==
  /\ At(a, "size")
  /\ \/ /\ ~isInterrupted
        /\ wanted' = IF threshold > 0 THEN Least(Length, threshold)
                     ELSE IF pending > 0 THEN Least(Length, pending) ELSE 1
        /\ Return(a)
        /\ UNCHANGED stream
     \/ /\ isInterrupted \/ (threshold = 0 /\ device = "closed")  \* 0, or the ioctl fails
        /\ frames' = [frames EXCEPT ![a] = SubSeq(@, 5, Len(@))]
        /\ stream' = None
        /\ UNCHANGED wanted
  /\ UNCHANGED <<client, ports, fields, handler, native, ioLocked, entered, late,
                 got, borrowed, saved, pending, past>>

Count(a) ==
  /\ At(a, "count")
  /\ ioLocked' = ioLocked + 1
  /\ late' = IF closeLock \/ ~fd THEN late \cup {a} ELSE late
  /\ Return(a)
  /\ UNCHANGED <<client, ports, fields, locks, native, entered, read, pending, past>>

(* The native code begins; "settle" is waitForTheNativeCodeSilly before it. *)
(* read_byte_array clears the event loop's flag while it reads.             *)
Enter(a) ==
  /\ At(a, "enter") \/ (At(a, "settle") /\ ~threadLock)
  /\ entered' = [entered EXCEPT ![a] = IF fd THEN device ELSE "closed"]
  /\ IF frames[a][2] = "reading"
       THEN borrowed' = eis /\ saved' = (eis \in flags) /\ flags' = flags \ {eis}
       ELSE UNCHANGED <<borrowed, saved, flags>>
  /\ Return(a)
  /\ UNCHANGED <<client, ports, fields, locks, loops, closing, eis, ioLocked, late,
                 wanted, got, pending, past>>

Uncount(a) ==
  /\ ioLocked' = ioLocked - 1
  /\ late' = late \ {a}
  /\ entered' = [entered EXCEPT ![a] = "closed"]
  /\ stream' = IF stream = a THEN None ELSE stream
  /\ Return(a)

(* The write or the poll ends, in success or not. *)
NativeEnds(a) ==
  /\ At(a, "native")
  /\ Uncount(a)
  /\ UNCHANGED <<client, ports, fields, handler, native, read, pending, past>>

(* Every return of read_byte_array puts the flag back. *)
FinishRead(a) ==
  /\ Uncount(a)
  /\ flags' = IF saved THEN flags \cup {borrowed} ELSE flags \ {borrowed}
  /\ wanted' = 0 /\ got' = 0 /\ borrowed' = None /\ saved' = FALSE
  /\ UNCHANGED <<client, ports, fields, handler, loops, closing, eis, past>>

(* It reads until it has what it wants; another descriptor than the port's *)
(* is not waited for.                                                      *)
TakeBytes(a) ==
  /\ At(a, "reading") /\ timeout # "zero" /\ pending > 0
  /\ LET n == Least(pending, wanted - got)
     IN  /\ pending' = pending - n
         /\ IF got + n = wanted
              THEN FinishRead(a)
              ELSE /\ got' = got + n
                   /\ UNCHANGED <<client, frames, ports, fields, locks, native, ioLocked,
                                  entered, late, wanted, borrowed, saved, past>>

(* Faulty variant of TimesOut: this return leaves the flag cleared. *)
TimesOutQuietly(a) ==
  /\ At(a, "reading") /\ (timeout # "none" \/ entered[a] = "closed")
  /\ Uncount(a)
  /\ wanted' = 0 /\ got' = 0 /\ borrowed' = None /\ saved' = FALSE
  /\ UNCHANGED <<client, ports, fields, handler, native, pending, past>>

TimesOut(a) ==
  /\ At(a, "reading") /\ (timeout # "none" \/ entered[a] = "closed")
  /\ FinishRead(a)
  /\ UNCHANGED pending

(* select or read fails, and what was read is lost; or read gives 20 times *)
(* nothing, after a hang-up.                                               *)
ReadFails(a) ==
  /\ At(a, "reading")
  /\ FinishRead(a)
  /\ UNCHANGED pending

Arrive ==
  /\ pending < MaxPending /\ device = "open"
  /\ pending' = pending + 1
  /\ UNCHANGED <<client, frames, ports, fields, locks, native, io, past>>

-----------------------------------------------------------------------------
(* The listener and the monitor thread that serves it.                     *)

(* notifyOnDataAvailable(true). *)
Notify(t) ==
  /\ At(t, "notify") /\ ~threadLock
  /\ threadLock' = TRUE
  /\ Goto(t, <<"flag">>)
  /\ UNCHANGED <<client, ports, isInterrupted, alive, listener, monThread, data, locks,
                 native, io, pending, past>>

(* Without a monThread the exception leaves MonitorThreadLock set. *)
SetFlag(t) ==
  /\ At(t, "flag")
  /\ flags' = IF fd /\ loops # << >> THEN flags \cup {Head(loops)} ELSE flags
  /\ IF monThread = None THEN UNCHANGED <<threadLock, data>>
                         ELSE threadLock' = FALSE /\ data' = data \cup {monThread}
  /\ overlap' = (overlap \/ borrowed # None)
  /\ Return(t)
  /\ UNCHANGED <<client, ports, isInterrupted, alive, listener, monThread, locks,
                 loops, closing, eis, io, pending, gaveUp, interrupts>>

Unused(m) == frames[m] = << >> /\ m \notin {monThread, borrowed}

(* addEventListener, of an open port.  A second listener is refused.  *)
(* Bound: Monitors must have one that is not in use.                  *)
AddEventListener(t) ==
  /\ At(t, "add")
  /\ \/ /\ listener \/ ~fd
        /\ Return(t)
        /\ UNCHANGED fields
     \/ /\ ~listener /\ fd /\ alive
        /\ listener' = TRUE
        /\ Return(t)
        /\ UNCHANGED <<isInterrupted, alive, threadLock, monThread, data>>
     \/ /\ ~listener /\ fd /\ ~alive
        /\ \E m \in Monitors :
             /\ Unused(m)
             /\ monThread' = m
             /\ data' = data \ {m}
             /\ frames' = [frames EXCEPT ![t] = <<"await">> \o Tail(@), ![m] = <<"run">>]
        /\ listener' = TRUE
        /\ threadLock' = TRUE
        /\ UNCHANGED <<isInterrupted, alive>>
  /\ UNCHANGED <<client, ports, locks, native, io, pending, past>>

Await(t) ==
  /\ At(t, "await") /\ ~threadLock
  /\ alive' = TRUE
  /\ Return(t)
  /\ UNCHANGED <<client, ports, isInterrupted, threadLock, listener, monThread, data,
                 locks, native, io, pending, past>>

(* Faulty variant of Forgotten: MonitorThreadAlive is not reset. *)
ForgottenAlive ==
  /\ monThread' = None /\ listener' = FALSE
  /\ threadLock' = FALSE /\ isInterrupted' = TRUE
  /\ UNCHANGED <<alive, data>>

Forgotten ==
  /\ monThread' = None /\ listener' = FALSE
  /\ threadLock' = FALSE /\ alive' = FALSE /\ isInterrupted' = TRUE
  /\ UNCHANGED data

RemoveEventListener(t) ==
  /\ At(t, "remove") /\ ~threadLock
  /\ \/ /\ isInterrupted
        /\ monThread' = None /\ listener' = FALSE
        /\ Return(t)
        /\ UNCHANGED <<isInterrupted, alive, threadLock, data>>
     \/ /\ ~isInterrupted
        /\ IF monThread # None /\ frames[monThread] # << >>
             THEN /\ isInterrupted' = TRUE
                  /\ Goto(t, <<"stop", "join">>)
                  /\ UNCHANGED <<alive, threadLock, listener, monThread, data>>
             ELSE Forgotten /\ Return(t)
  /\ UNCHANGED <<client, ports, locks, native, io, pending, past>>

(* The first loop of this descriptor is told to end.  The search repeats   *)
(* until there is one: for ever if fd is 0 by now.                         *)
InterruptEventLoop(t) ==
  /\ At(t, "stop") /\ fd /\ loops # << >>
  /\ closing' = closing \cup {Head(loops)}
  /\ Return(t)
  /\ UNCHANGED <<client, ports, fields, locks, loops, flags, eis, io, pending, past>>

(* Faulty variant of Join: join() without a limit. *)
JoinForever(t) ==
  /\ At(t, "join") /\ monThread # None /\ frames[monThread] = << >>
  /\ Forgotten
  /\ Return(t)
  /\ UNCHANGED <<client, ports, locks, native, io, pending, past>>

(* join(3000): the thread ends, or the time is up, or the caller is        *)
(* interrupted and changes nothing more; if another thread has removed     *)
(* monThread meanwhile, an exception ends the whole call.                  *)
Join(t) ==
  /\ At(t, "join")
  /\ \/ /\ monThread # None
        /\ gaveUp' = (gaveUp \/ frames[monThread] # << >>)
        /\ Forgotten
        /\ Return(t)
        /\ UNCHANGED <<handler, interrupts>>
     \/ /\ monThread # None /\ interrupts < MaxInterrupts
        /\ gaveUp' = TRUE
        /\ interrupts' = interrupts + 1
        /\ Return(t)
        /\ UNCHANGED <<fields, handler>>
     \/ /\ monThread = None
        /\ frames' = [frames EXCEPT ![t] = << >>]
        /\ handler' = IF handler = t THEN None ELSE handler
        /\ gaveUp' = TRUE
        /\ UNCHANGED <<fields, interrupts>>
  /\ UNCHANGED <<client, ports, stream, native, io, pending, overlap>>

-----------------------------------------------------------------------------
(* Faulty variant of Close: without the wait for IOLocked. *)
CloseAtOnce(t) ==
  /\ At(t, "close")
  /\ IF closeLock THEN Return(t) ELSE Goto(t, <<"shutdown">>)
  /\ closeLock' = TRUE
  /\ UNCHANGED <<client, fd, device, fields, locks, native, io, pending, past>>

(* close().  The wait for IOLocked and the test of closeLock are under the *)
(* port's monitor, what follows is not.                                    *)
Close(t) ==
  /\ At(t, "close") /\ ioLocked = 0
  /\ IF closeLock THEN Return(t) ELSE Goto(t, <<"shutdown">>)
  /\ closeLock' = TRUE
  /\ UNCHANGED <<client, fd, device, fields, locks, native, io, pending, past>>

CloseInterrupted(t) ==
  /\ At(t, "close") /\ ioLocked > 0 /\ interrupts < MaxInterrupts
  /\ interrupts' = interrupts + 1
  /\ Return(t)
  /\ UNCHANGED <<client, ports, fields, locks, native, io, pending, gaveUp, overlap>>

(* Faulty variant of Shutdown: the monitor thread is left alone. *)
ShutdownKeepsLoop(t) ==
  /\ At(t, "shutdown")
  /\ IF ~fd THEN Return(t) ELSE Goto(t, <<"nativeClose", "closed">>)
  /\ UNCHANGED <<client, ports, fields, locks, native, io, pending, past>>

Shutdown(t) ==
  /\ At(t, "shutdown")
  /\ IF ~fd THEN Return(t)
            ELSE Goto(t, IF isInterrupted THEN <<"nativeClose", "closed">>
                                          ELSE <<"remove", "nativeClose", "closed">>)
  /\ UNCHANGED <<client, ports, fields, locks, native, io, pending, past>>

NativeClose(t) ==
  /\ At(t, "nativeClose")
  /\ device' = "closed" /\ pending' = 0
  /\ Return(t)
  /\ UNCHANGED <<client, fd, closeLock, fields, locks, native, io, past>>

Closed(t) ==
  /\ At(t, "closed")
  /\ fd' = FALSE /\ closeLock' = FALSE
  /\ Return(t)
  /\ UNCHANGED <<client, device, fields, locks, native, io, pending, past>>

-----------------------------------------------------------------------------
(* The monitor thread: MonitorThread.run, eventLoop, sendEvent, and        *)
(* serialEvent of the listener.                                            *)
Run(m) ==
  /\ At(m, "run")
  /\ isInterrupted' = FALSE
  /\ Goto(m, <<"eventLoop">>)
  /\ UNCHANGED <<client, ports, alive, threadLock, listener, monThread, data, locks,
                 native, io, pending, past>>

EventLoop(m) ==
  /\ At(m, "eventLoop")
  /\ loops' = Append(loops, m) /\ eis' = m
  /\ closing' = closing \ {m} /\ flags' = flags \ {m}
  /\ threadLock' = FALSE
  /\ Goto(m, <<"loop">>)
  /\ UNCHANGED <<client, ports, isInterrupted, alive, listener, monThread, data, locks,
                 io, pending, past>>

(* Faulty variant of Loop: it ends without finalize_event_info_struct. *)
LoopLeavesEntry(m) ==
  /\ At(m, "loop")
  /\ \/ m \in closing /\ Return(m)
     \/ m \notin closing /\ pending > 0 /\ m \in flags /\ Goto(m, <<"sendEvent", "loop">>)
  /\ UNCHANGED <<client, ports, fields, locks, native, io, pending, past>>

Loop(m) ==
  /\ At(m, "loop")
  /\ \/ /\ m \in closing
        /\ \E i \in 1 .. Len(loops) : loops[i] = m /\ loops' = RemoveAt(loops, i)
        /\ Return(m)
     \/ /\ m \notin closing /\ pending > 0 /\ m \in flags
        /\ Goto(m, <<"sendEvent", "loop">>)
        /\ UNCHANGED loops
  /\ UNCHANGED <<client, ports, fields, locks, closing, flags, eis, io, pending, past>>

SendEvent(m) ==
  /\ At(m, "sendEvent")
  /\ IF ~fd \/ ~listener \/ monThread \notin data \/ isInterrupted
       THEN Return(m)
       ELSE Goto(m, <<"serialEvent", "available", "respond", "release">>)
  /\ UNCHANGED <<client, ports, fields, locks, native, io, pending, past>>

SerialEvent(m) ==
  /\ At(m, "serialEvent") /\ handler = None
  /\ handler' = m
  /\ Return(m)
  /\ UNCHANGED <<client, ports, fields, stream, native, io, pending, past>>

(* available() is synchronized on the stream and does not settle. *)
Available(m) ==
  /\ At(m, "available") /\ stream = None
  /\ \/ /\ isInterrupted
        /\ frames' = [frames EXCEPT ![m] = SubSeq(@, 3, Len(@))]
        /\ UNCHANGED stream
     \/ /\ ~isInterrupted
        /\ Goto(m, <<"count", "enter", "native">>)
        /\ stream' = m
  /\ UNCHANGED <<client, ports, fields, handler, native, io, pending, past>>

(* serialEvent reads what is available, if anything is. *)
Respond(m) ==
  /\ At(m, "respond")
  /\ Return(m) \/ Goto(m, <<"read">>)
  /\ UNCHANGED <<client, ports, fields, locks, native, io, pending, past>>

-----------------------------------------------------------------------------
InputOutput(a) == Read(a) \/ Size(a) \/ Count(a) \/ Enter(a) \/ NativeEnds(a) \/ TakeBytes(a) \/ TimesOut(a)

Client(t) ==
  \/ Write(t) \/ InputOutput(t)
  \/ Notify(t) \/ SetFlag(t) \/ AddEventListener(t) \/ Await(t)
  \/ RemoveEventListener(t) \/ InterruptEventLoop(t) \/ Join(t)
  \/ Close(t) \/ Shutdown(t) \/ NativeClose(t) \/ Closed(t)
  \/ Synchronize(t) \/ Release(t)

Monitor(m) ==
  \/ Run(m) \/ EventLoop(m) \/ Loop(m) \/ SendEvent(m)
  \/ SerialEvent(m) \/ Available(m) \/ Respond(m) \/ Release(m)
  \/ InputOutput(m)

SPNext ==
  \/ Arrive
  \/ \E t \in Threads : Begin(t) \/ Client(t) \/ CloseInterrupted(t)
  \/ \E m \in Monitors : Monitor(m)
  \/ \E a \in Actors : ReadFails(a)

SPSpec == SPInit /\ [][SPNext]_vars

(* A thread inside a call is scheduled, and so is the monitor thread.  The *)
(* event loop sleeps 20 ms between two events, so who waits for a monitor  *)
(* or for IOLocked in turns with it gets there (strong fairness).  Nothing *)
(* makes bytes arrive.                                                     *)
SPFairSpec ==
  /\ SPSpec
  /\ \A t \in Threads : SF_vars(Client(t))
  /\ \A m \in Monitors : WF_vars(Monitor(m))

-----------------------------------------------------------------------------
Managing == Calls \ {"write", "read"}
Manager(t) == ToSet(script[t]) \cap Managing # {}

(* The port is managed as ArduinoHandler does it: one thread adds the      *)
(* listener, asks for events at once, and closes at last.                  *)
Disciplined ==
  /\ \A t, u \in Threads : Manager(t) /\ Manager(u) => t = u
  /\ \A t \in Threads : \A i \in 1 .. Len(script[t]) :
       /\ script[t][i] = "notify" => i > 1 /\ script[t][i-1] = "add"
       /\ script[t][i] \in {"close", "handlerClose"} => i = Len(script[t])

(* Whoever may call what: a native read or write that was counted before   *)
(* close() saw IOLocked at 0 has an open descriptor until it returns.  One *)
(* that passed its checks before and is counted after (RXTXPort.java, line *)
(* 1134 against 1058) may not.                                             *)
UsesOpenDevice ==
  \A a \in Actors :
    (At(a, "native") \/ At(a, "reading")) /\ a \notin late
      => entered[a] = "open" /\ device = "open"

(* No event loop selects on a closed descriptor, unless a wait for the     *)
(* monitor thread's end was given up (removeEventListener, line 858).      *)
LoopOnOpenDevice == Disciplined /\ ~gaveUp /\ device = "closed" => loops = << >>

(* Between calls a port with a listener has a monitor thread that runs, is *)
(* not told to end, and sends events: monThreadisInterrupted,              *)
(* MonitorThreadAlive, monThread and the native list agree.                *)
ListenerIsServed ==
  (Disciplined /\ ~gaveUp /\ listener /\ \A t \in Threads : Manager(t) => frames[t] = << >>)
    => /\ alive /\ ~isInterrupted /\ monThread # None
       /\ frames[monThread] # << >>
       /\ loops = <<monThread>> /\ monThread \notin closing

(* Between calls a loop whose listener asked for data events looks for     *)
(* data: each return of a read puts the flag back (lines 3022-3114 of      *)
(* SerialImp.c).  Who asks during a read is not heard, whatever the read   *)
(* puts back.                                                              *)
NotificationIsKept ==
  (/\ Disciplined /\ ~gaveUp /\ ~overlap /\ borrowed = None
   /\ listener /\ monThread \in data
   /\ \A t \in Threads : Manager(t) => frames[t] = << >>)
    => monThread \in flags

(* Every call returns, ArduinoHandler.close() among them, though it has    *)
(* the handler's monitor while the monitor thread may want it (line 116),  *)
(* unless somebody waits for bytes that do not come: close() waits for it. *)
Starved == \E a \in Actors : At(a, "reading") /\ entered[a] = "open" /\ timeout = "none" /\ pending = 0

CallsReturn ==
  \A t \in Threads : (Disciplined /\ frames[t] # << >>) ~> (frames[t] = << >> \/ Starved)
=============================================================================
