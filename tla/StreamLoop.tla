----------------------------- MODULE StreamLoop -----------------------------
(***************************************************************************)
(* CameraTrack.run, once it has chosen a stream: the loop takes pictures   *)
(* from the transcoder (ffmpeg, another process) and drains its messages,  *)
(* the wait for its end, and the control of the frame rate by fpsMonitor's *)
(* timer thread and the frame thread.                                      *)
(*                                                                         *)
(* Time is counted in ticks, of which a second has Second.  Time passes    *)
(* while the frame thread sleeps or waits; a frame takes Work ticks.       *)
(***************************************************************************)
EXTENDS Naturals

CONSTANTS
  StdoutRoom,        \* pictures the transcoder's standard output takes
  StderrRoom,        \* messages its standard error takes
  MaxMessages,       \* bound: messages between two pictures
  MaxNulls,          \* bound: pictures in a row that are not one
  Second, Work,      \* ticks of a second, and of a frame
  desiredFrameRate

ASSUME RoomAssumption ==
  /\ StdoutRoom \in Nat \ {0} /\ StderrRoom \in Nat \ {0}
  /\ MaxMessages \in Nat /\ MaxNulls \in Nat
ASSUME TimeAssumption ==
  /\ Second \in Nat \ {0} /\ Work \in 1 .. Second
  /\ desiredFrameRate \in 1 .. Second

VARIABLES
  loop,                  \* what the frame thread does
  transcoder,            \* "running", "closing" (no more pictures) or "exited"
  stdout, wrapped,       \* pictures in the pipe, and in the stream's wrapper
  nulls,                 \* pictures in a row that were not one
  stderr, midline,       \* whole messages in the pipe; one of which a part is written
  messages,              \* messages since the last picture
  most,                  \* history: the most messages between two pictures
  sleeping,              \* ticks the frame thread sleeps or works
  clock,                 \* ticks of this second gone
  timer,                 \* FrameCounter.update: "idle", "due" or "between" its two steps
  frameCounter,          \* frames since FrameCounter read it: less lastFrameCount
  fps, manualFrameDelayMillis

process == <<transcoder, stdout, stderr, midline, messages, most>>
taken   == <<wrapped, nulls>>
time    == <<sleeping, clock>>
rate    == <<timer, frameCounter, fps, manualFrameDelayMillis>>
svars == <<loop, process, taken, time, rate>>

CTypeOK ==
  /\ loop \in {"read", "drain", "image", "frame", "exitValue", "retry", "ended"}
  /\ transcoder \in {"running", "closing", "exited"}
  /\ stdout \in 0 .. StdoutRoom /\ wrapped \in 0 .. StdoutRoom /\ nulls \in 0 .. MaxNulls
  /\ stderr \in 0 .. StderrRoom /\ midline \in BOOLEAN
  /\ messages \in 0 .. MaxMessages /\ most \in 0 .. MaxMessages
  /\ sleeping \in Nat /\ clock \in 0 .. Second - 1
  /\ timer \in {"idle", "due", "between"}
  /\ frameCounter \in Nat /\ fps \in Nat /\ manualFrameDelayMillis \in Nat

CInit ==
  /\ loop = "read"
  /\ transcoder = "running" /\ stdout = 0 /\ stderr = 0 /\ midline = FALSE
  /\ messages = 0 /\ most = 0
  /\ wrapped = 0 /\ nulls = 0
  /\ sleeping = 0 /\ clock = 0
  /\ timer = "idle" /\ frameCounter = 0
  /\ fps = 0 /\ manualFrameDelayMillis = 0

-----------------------------------------------------------------------------
(* readMjpegFrame: an empty wrapper takes all that is in the pipe.  null   *)
(* is returned for what is not a picture.                                  *)
Take ==
  /\ loop = "read" /\ wrapped + stdout > 0
  /\ IF wrapped > 0 THEN wrapped' = wrapped - 1 /\ UNCHANGED stdout
                    ELSE wrapped' = stdout - 1  /\ stdout' = 0
  /\ \/ loop' = "drain" /\ nulls' = 0
     \/ loop' = "exitValue" /\ nulls < MaxNulls /\ nulls' = nulls + 1
  /\ UNCHANGED <<transcoder, stderr, midline, messages, most, time, rate>>

(* No picture is left: null, or an EOFException. *)
EndOfStream ==
  /\ loop = "read" /\ wrapped + stdout = 0 /\ transcoder \in {"closing", "exited"}
  /\ loop' \in {"exitValue", "ended"}
  /\ UNCHANGED <<process, taken, time, rate>>

(* Faulty variant of DrainMessages: they are left in the pipe. *)
DrainMessagesNot ==
  /\ loop = "drain"
  /\ loop' = "image"
  /\ UNCHANGED <<process, taken, time, rate>>

(* While a message is ready it is read; readLine waits for its end. *)
DrainMessages ==
  /\ loop = "drain"
  /\ \/ stderr > 0 /\ stderr' = 0 /\ UNCHANGED <<loop, midline>>
     \/ stderr = 0 /\ midline /\ transcoder = "exited"
        /\ midline' = FALSE /\ UNCHANGED <<loop, stderr>>
     \/ stderr = 0 /\ ~midline /\ loop' = "image" /\ UNCHANGED <<stderr, midline>>
  /\ UNCHANGED <<transcoder, stdout, messages, most, taken, time, rate>>

(* Faulty variant of ProcessImage: the delay is lowered below 0. *)
ProcessImageBelowZero ==
  /\ loop = "image"
  /\ frameCounter' = frameCounter + 1
  /\ manualFrameDelayMillis' =
       IF fps > desiredFrameRate + 1 THEN manualFrameDelayMillis + 1
       ELSE IF fps < desiredFrameRate - 1 THEN manualFrameDelayMillis - 1
       ELSE manualFrameDelayMillis
  /\ sleeping' = manualFrameDelayMillis' + Work
  /\ loop' = "frame"
  /\ UNCHANGED <<process, taken, clock, timer, fps>>

(* processFrame, processImage: the frame is counted, the delay follows the *)
(* frame rate measured last, the thread sleeps, and compares the picture.  *)
ProcessImage ==
  /\ loop = "image"
  /\ frameCounter' = frameCounter + 1
  /\ manualFrameDelayMillis' =
       IF fps > desiredFrameRate + 1 THEN manualFrameDelayMillis + 1
       ELSE IF fps < desiredFrameRate - 1 /\ manualFrameDelayMillis >= 1
         THEN manualFrameDelayMillis - 1
       ELSE manualFrameDelayMillis
  /\ sleeping' = manualFrameDelayMillis' + Work
  /\ loop' = "frame"
  /\ UNCHANGED <<process, taken, clock, timer, fps>>

(* processFrame: not a picture after all. *)
SkipImage ==
  /\ loop = "image"
  /\ loop' = "read"
  /\ UNCHANGED <<process, taken, time, rate>>

FrameDone ==
  /\ loop = "frame" /\ sleeping = 0
  /\ loop' = "read"
  /\ UNCHANGED <<process, taken, time, rate>>

(* Faulty variant of ExitValue: it always waits a second and tries again. *)
ExitValueUnasked ==
  /\ loop = "exitValue"
  /\ loop' = "retry" /\ sleeping' = Second
  /\ UNCHANGED <<process, taken, clock, rate>>

ExitValue ==
  /\ loop = "exitValue"
  /\ IF transcoder = "exited" THEN loop' = "ended" /\ UNCHANGED sleeping
                              ELSE loop' = "retry" /\ sleeping' = Second
  /\ UNCHANGED <<process, taken, clock, rate>>

(* The streams are wrapped anew: what the old wrapper had is lost. *)
Retry ==
  /\ loop = "retry" /\ sleeping = 0
  /\ loop' = "read" /\ wrapped' = 0
  /\ UNCHANGED <<process, nulls, time, rate>>

FrameThread ==
  \/ Take \/ EndOfStream \/ DrainMessages
  \/ ProcessImage \/ SkipImage \/ FrameDone \/ ExitValue \/ Retry

-----------------------------------------------------------------------------
(* Faulty variant of UpdateLast: the count of the last second is kept. *)
UpdateLastNot ==
  /\ timer = "between"
  /\ timer' = "idle"
  /\ UNCHANGED <<loop, process, taken, time, frameCounter, fps,
                 manualFrameDelayMillis>>

(* FrameCounter.update reads frameCounter twice: the rate, and where the   *)
(* next second begins.  A frame between the two is in no second.           *)
UpdateFps ==
  /\ timer = "due"
  /\ fps' = frameCounter
  /\ timer' = "between"
  /\ UNCHANGED <<loop, process, taken, time, frameCounter,
                 manualFrameDelayMillis>>

UpdateLast ==
  /\ timer = "between"
  /\ frameCounter' = 0
  /\ timer' = "idle"
  /\ UNCHANGED <<loop, process, taken, time, fps, manualFrameDelayMillis>>

Waiting ==
  \/ loop \in {"frame", "retry"} /\ sleeping > 0
  \/ loop = "read" /\ wrapped + stdout = 0 /\ transcoder = "running"
  \/ loop = "drain" /\ stderr = 0 /\ midline /\ transcoder # "exited"

Tick ==
  /\ Waiting /\ timer = "idle"
  /\ sleeping' = IF sleeping > 0 THEN sleeping - 1 ELSE 0
  /\ clock' = (clock + 1) % Second
  /\ timer' = IF clock' = 0 THEN "due" ELSE "idle"
  /\ UNCHANGED <<loop, process, taken, frameCounter, fps,
                 manualFrameDelayMillis>>

-----------------------------------------------------------------------------
(* The transcoder writes pictures and messages, each when there is room.   *)
(* A message is written in parts, of one line, without a picture between.  *)
Emit ==
  /\ transcoder = "running" /\ ~midline /\ stdout < StdoutRoom
  /\ stdout' = stdout + 1 /\ messages' = 0
  /\ UNCHANGED <<loop, transcoder, stderr, midline, most, taken, time, rate>>

BeginMessage ==
  /\ transcoder \in {"running", "closing"} /\ ~midline /\ messages < MaxMessages
  /\ midline' = TRUE /\ messages' = messages + 1
  /\ most' = IF messages' > most THEN messages' ELSE most
  /\ UNCHANGED <<loop, transcoder, stdout, stderr, taken, time, rate>>

EndMessage ==
  /\ transcoder \in {"running", "closing"} /\ midline /\ stderr < StderrRoom
  /\ stderr' = stderr + 1 /\ midline' = FALSE
  /\ UNCHANGED <<loop, transcoder, stdout, messages, most, taken, time, rate>>

CloseOutput ==
  /\ transcoder = "running" /\ ~midline
  /\ transcoder' = "closing"
  /\ UNCHANGED <<loop, stdout, stderr, midline, messages, most, taken, time, rate>>

Exit ==
  /\ transcoder = "closing" /\ ~midline
  /\ transcoder' = "exited"
  /\ UNCHANGED <<loop, stdout, stderr, midline, messages, most, taken, time, rate>>

Killed ==
  /\ transcoder \in {"running", "closing"}
  /\ transcoder' = "exited"
  /\ UNCHANGED <<loop, stdout, stderr, midline, messages, most, taken, time, rate>>

Transcoder == Emit \/ BeginMessage \/ EndMessage \/ CloseOutput \/ Exit

CNext == FrameThread \/ UpdateFps \/ UpdateLast \/ Tick \/ Transcoder \/ Killed

(* Every thread and process is scheduled, and time passes; nobody has to   *)
(* kill the transcoder.                                                    *)
CSpec ==
  /\ CInit /\ [][CNext]_svars
  /\ WF_svars(FrameThread) /\ WF_svars(UpdateFps \/ UpdateLast) /\ WF_svars(Tick)
  /\ WF_svars(Transcoder)

-----------------------------------------------------------------------------
(* The loop finds no picture, the transcoder no room for its message.  If  *)
(* it has closed its output already, the loop tries again every second.    *)
Jam ==
  /\ loop = "read" /\ wrapped + stdout = 0 /\ transcoder \in {"running", "closing"}
  /\ midline /\ stderr = StderrRoom

(* A read ends with a picture, with a null while the transcoder still      *)
(* runs, or with the end of the loop, unless loop and transcoder wait for  *)
(* each other (CameraTrack.run, lines 213 and 224-231).                    *)
StreamGoesOn ==
  loop = "read" ~> \/ loop \in {"drain", "ended"}
                   \/ loop = "exitValue" /\ transcoder = "running"
                   \/ Jam

(* They do only if the transcoder once said more between two pictures than *)
(* its pipe takes, shared among the pictures that may have gone by unread: *)
(* the one it waits with, and for each null in a row a pipe full that the  *)
(* old wrapper took with it.  A stream without nulls thus jams only on a   *)
(* flood of more than StderrRoom messages, whatever pictures are under way *)
(* (lines 206, 211-219 and 233).                                           *)
JamMeansFlood == Jam => (nulls * StdoutRoom + 1) * most > StderrRoom

(* The delay follows a frame rate up to a second old, a step per frame;    *)
(* still the frame thread never sleeps a whole second (lines 89-98 and     *)
(* 261-275).                                                               *)
DelayIsBounded == manualFrameDelayMillis < Second
=============================================================================
