-------------------------- MODULE StreamLoop_proof --------------------------
(***************************************************************************)
(* For any room in the transcoder's pipes, whatever it says and however    *)
(* many of its pictures are none: the loop and the transcoder wait for     *)
(* each other only after a flood of messages.  The argument counts the     *)
(* pictures that may have come since the messages were last drained.       *)
(***************************************************************************)
EXTENDS StreamLoop, TLAPS

(* Pictures that may have come since the messages were drained: those that *)
(* wait, and for each null a pipe full that it may have lost.  What the    *)
(* wrapper has is lost already once a null was read.                       *)
Pictures ==
  nulls * StdoutRoom + stdout + (IF loop \in {"exitValue", "retry"} THEN 0 ELSE wrapped)

Unread == stderr + (IF midline THEN 1 ELSE 0)

(* What has been said since is no more than the pictures allow. *)
MessagesOK ==
  /\ loop \notin {"drain", "ended"} => Unread <= Pictures * most + messages
  /\ messages <= most

JInv == CTypeOK /\ MessagesOK

-----------------------------------------------------------------------------
(* The delay.  Ticks since FrameCounter began to count, the sleep of the   *)
(* frame at work included.                                                 *)
Elapsed ==
  clock + (IF timer = "due" THEN Second ELSE 0) + (IF loop = "frame" THEN sleeping ELSE 0)

ClockOK ==
  /\ timer # "idle" => clock = 0
  /\ loop = "frame" => sleeping <= manualFrameDelayMillis + Work

(* Frames that were counted took the time to sleep, and the delay changes  *)
(* by one from a frame to the next.                                        *)
FramesTakeTime ==
  timer # "between" =>
    /\ frameCounter >= 1 => Elapsed >= manualFrameDelayMillis + Work
    /\ frameCounter >= 2 => Elapsed + 1 >= 2 * manualFrameDelayMillis + 2 * Work
    /\ frameCounter >= 3 => Elapsed + 3 >= 3 * manualFrameDelayMillis + 3 * Work

(* A rate that raises the delay was one of three frames: none of them      *)
(* slept for more than half a second.  Above that the delay rises at most  *)
(* twice, because the second frame ends when the rate is measured again.   *)
Risen(n) ==
  CASE n = 0 -> 2 * manualFrameDelayMillis <= Second + 1
    [] n = 1 -> /\ 2 * manualFrameDelayMillis <= Second + 3
                /\ Elapsed >= manualFrameDelayMillis + Work
    [] n = 2 -> /\ 2 * manualFrameDelayMillis \in Second + 4 .. Second + 5
                /\ Elapsed + 1 >= 2 * manualFrameDelayMillis + 2 * Work

Raising == fps > desiredFrameRate + 1

DelayFollowsRate ==
  /\ 2 * manualFrameDelayMillis <= Second + 5
  /\ Raising => Risen(0) \/ Risen(1) \/ Risen(2)

DelayInv == CTypeOK /\ ClockOK /\ FramesTakeTime /\ DelayFollowsRate

-----------------------------------------------------------------------------
(* Arithmetic the provers need in pieces: products grow with their factors. *)
LEMMA ProductIsNat ==
  ASSUME NEW m \in Nat, NEW n \in Nat
  PROVE  m * n \in Nat
  OBVIOUS

LEMMA ProductGrows ==
  ASSUME NEW p \in Nat, NEW q \in Nat, NEW m \in Nat, p <= q
  PROVE  p * m <= q * m
<1>1. PICK d \in Nat : q = p + d
  <2>1. q - p \in Nat /\ q = p + (q - p)  OBVIOUS
  <2> QED BY <2>1
<1>2. q * m = p * m + d * m  BY <1>1
<1>3. p * m \in Nat /\ d * m \in Nat /\ q * m \in Nat
  BY <1>1, ProductIsNat
<1> QED BY <1>2, <1>3

LEMMA SumIsNat ==
  ASSUME NEW m \in Nat, NEW n \in Nat
  PROVE  0 <= m + n
  OBVIOUS

LEMMA OneMore ==
  ASSUME NEW p \in Nat, NEW m \in Nat
  PROVE  (p + 1) * m = p * m + m
  OBVIOUS

LEMMA EqualIsAtMost ==
  ASSUME NEW u \in Nat, NEW v \in Nat, NEW b \in Nat, NEW c \in Nat, v + b = u + c
  PROVE  v + b <= u + c
  OBVIOUS

LEMMA SumsCompare ==
  ASSUME NEW x \in Nat, NEW u \in Nat, NEW v \in Nat, NEW b \in Nat, NEW c \in Nat,
         u + v <= b + c
  PROVE  x + v + u <= x + b + c
  OBVIOUS

LEMMA BoundArithmetic ==
  ASSUME NEW u \in Nat, NEW v \in Nat, NEW p \in Nat, NEW q \in Nat,
         NEW b \in Nat, NEW c \in Nat, NEW m \in Nat, NEW n \in Nat,
         u <= p * m + b, v + b <= u + c, p <= q, m <= n
  PROVE  v <= q * n + c
<1> DEFINE x == p * m
           y == q * n
<1>1. x \in Nat /\ y \in Nat /\ x <= y
  <2>1. p * m \in Nat /\ q * m \in Nat /\ q * n \in Nat /\ p * m <= q * m
    BY ProductIsNat, ProductGrows
  <2>2. m * q <= n * q /\ m * q = q * m /\ n * q = q * n
    <3>1. m * q <= n * q
      BY ProductGrows
    <3>2. \A i, j \in Nat : i * j = j * i
      OBVIOUS
    <3> QED BY <3>1, <3>2
  <2> DEFINE w == q * m
  <2>3. w \in Nat /\ x <= w /\ w <= y /\ x \in Nat /\ y \in Nat
    BY <2>1, <2>2
  <2> HIDE DEF w, x, y
  <2> QED BY <2>3
<1>2. u <= x + b
  OBVIOUS
<1> HIDE DEF x, y
<1>3. v <= y + c
  BY <1>1, <1>2
<1> QED BY <1>3 DEF y

LEMMA PicturesType == CTypeOK => Pictures \in Nat /\ Unread \in Nat
<1> SUFFICES ASSUME CTypeOK PROVE Pictures \in Nat /\ Unread \in Nat
  OBVIOUS
<1>1. nulls \in Nat /\ StdoutRoom \in Nat /\ stdout \in Nat /\ wrapped \in Nat
  BY RoomAssumption DEF CTypeOK
<1>2. nulls * StdoutRoom \in Nat
  BY <1>1, ProductIsNat
<1>3. Pictures \in Nat
  BY <1>1, <1>2 DEF Pictures
<1>4. Unread \in Nat
  BY RoomAssumption DEF Unread, CTypeOK
<1> QED BY <1>3, <1>4

LEMMA PicturesTypeNext == (CTypeOK => Pictures \in Nat /\ Unread \in Nat)'
  BY PicturesType, PTL

(* As long as there are no fewer pictures and no fewer messages since the  *)
(* last one, nothing more can be unread than before.                       *)
LEMMA BoundGrows ==
  ASSUME CTypeOK, CTypeOK', MessagesOK, loop \notin {"drain", "ended"},
         Unread' + messages <= Unread + messages', Pictures <= Pictures',
         most <= most', messages' <= most'
  PROVE  MessagesOK'
<1>1. Pictures \in Nat /\ Pictures' \in Nat /\ Unread \in Nat /\ Unread' \in Nat
  BY PicturesType, PicturesTypeNext
<1>2. /\ messages \in Nat /\ messages' \in Nat
      /\ most \in Nat /\ most' \in Nat
  BY RoomAssumption DEF CTypeOK
<1>3. Unread <= Pictures * most + messages
  BY DEF MessagesOK
<1>4. Unread' <= Pictures' * most' + messages'
  BY <1>1, <1>2, <1>3, BoundArithmetic
<1> QED BY <1>4 DEF MessagesOK

-----------------------------------------------------------------------------
LEMMA InitSettled == CInit => JInv
<1> SUFFICES ASSUME CInit PROVE JInv
  OBVIOUS
<1>1. CTypeOK
  <2>1. midline \in BOOLEAN  BY DEF CInit
  <2>2. clock \in 0 .. Second - 1  BY TimeAssumption DEF CInit
  <2> QED BY <2>1, <2>2, RoomAssumption DEF CInit, CTypeOK
<1>2. Unread = 0
  BY DEF CInit, Unread
<1>3. Pictures * most \in Nat
  <2>1. most \in Nat /\ Pictures \in Nat
    BY <1>1, PicturesType, RoomAssumption DEF CTypeOK
  <2> QED BY <2>1, ProductIsNat
<1> QED BY <1>1, <1>2, <1>3 DEF JInv, MessagesOK, CInit

LEMMA TypesKept == CTypeOK /\ [CNext]_svars => CTypeOK'
<1> SUFFICES ASSUME CTypeOK, [CNext]_svars PROVE CTypeOK'
  OBVIOUS
<1> USE RoomAssumption, TimeAssumption DEF CTypeOK, process, taken, time, rate
<1>1. CASE Take
  BY <1>1 DEF Take
<1>2. CASE EndOfStream
  BY <1>2 DEF EndOfStream
<1>3. CASE DrainMessages
  <2>1. midline' \in BOOLEAN  BY <1>3 DEF DrainMessages
  <2>2. stderr' \in 0 .. StderrRoom  BY <1>3 DEF DrainMessages
  <2> QED BY <1>3, <2>1, <2>2 DEF DrainMessages
<1>4. CASE ProcessImage
  <2>1. manualFrameDelayMillis' \in Nat
    BY <1>4 DEF ProcessImage
  <2>2. sleeping' \in Nat
    BY <1>4, <2>1 DEF ProcessImage
  <2> QED BY <1>4, <2>1, <2>2 DEF ProcessImage
<1>5. CASE SkipImage
  BY <1>5 DEF SkipImage
<1>6. CASE FrameDone
  BY <1>6 DEF FrameDone
<1>7. CASE ExitValue
  BY <1>7 DEF ExitValue
<1>8. CASE Retry
  BY <1>8 DEF Retry
<1>9. CASE UpdateFps \/ UpdateLast
  BY <1>9 DEF UpdateFps, UpdateLast
<1>10. CASE Tick
  <2>1. (clock + 1) % Second \in 0 .. Second - 1
    OBVIOUS
  <2> QED BY <1>10, <2>1 DEF Tick
<1>11. CASE Emit
  BY <1>11 DEF Emit
<1>12. CASE BeginMessage \/ EndMessage
  <2>1. midline' \in BOOLEAN  BY <1>12 DEF BeginMessage, EndMessage
  <2>2. stderr' \in 0 .. StderrRoom  BY <1>12 DEF BeginMessage, EndMessage
  <2>3. messages' \in 0 .. MaxMessages /\ most' \in 0 .. MaxMessages
    BY <1>12 DEF BeginMessage, EndMessage
  <2> QED BY <1>12, <2>1, <2>2, <2>3 DEF BeginMessage, EndMessage
<1>13. CASE CloseOutput \/ Exit \/ Killed
  BY <1>13 DEF CloseOutput, Exit, Killed
<1>14. CASE UNCHANGED svars
  BY <1>14 DEF svars
<1> QED BY <1>1, <1>2, <1>3, <1>4, <1>5, <1>6, <1>7, <1>8, <1>9, <1>10,
           <1>11, <1>12, <1>13, <1>14 DEF CNext, FrameThread, Transcoder

LEMMA NextSettled == JInv /\ [CNext]_svars => JInv'
<1> SUFFICES ASSUME JInv, [CNext]_svars PROVE JInv'
  OBVIOUS
<1>1. CTypeOK /\ CTypeOK' /\ MessagesOK
  BY TypesKept DEF JInv
<1>2. /\ wrapped \in 0 .. StdoutRoom /\ stdout \in 0 .. StdoutRoom /\ nulls \in Nat
      /\ StdoutRoom \in Nat /\ messages \in Nat /\ nulls * StdoutRoom \in Nat
      /\ most \in Nat /\ most' \in Nat /\ messages <= most
  BY <1>1, RoomAssumption, ProductIsNat DEF CTypeOK, MessagesOK
<1>3. Pictures \in Nat /\ Unread \in Nat
  BY <1>1, PicturesType
<1> SUFFICES MessagesOK'
  BY <1>1 DEF JInv
<1> USE DEF process, taken, time, rate
<1>4. CASE Take
  <2>1. CASE loop' = "drain"
    BY <1>2, <1>4, <2>1 DEF MessagesOK, Take
  <2>2. CASE loop' = "exitValue"
    <3>1. loop = "read" /\ nulls' = nulls + 1
      BY <1>4, <2>2 DEF Take
    <3>2. nulls' * StdoutRoom = nulls * StdoutRoom + StdoutRoom
      BY <1>2, <3>1, OneMore
    <3>3. Pictures' = nulls * StdoutRoom + StdoutRoom + stdout'
      <4>1. Pictures' = nulls' * StdoutRoom + stdout' + 0
        BY <2>2 DEF Pictures
      <4>2. stdout' \in Nat
        BY <1>1, RoomAssumption DEF CTypeOK
      <4> DEFINE lost == nulls * StdoutRoom
      <4>3. Pictures' = lost + StdoutRoom + stdout' + 0 /\ lost \in Nat
        BY <1>2, <3>2, <4>1
      <4> HIDE DEF lost
      <4>4. Pictures' = lost + StdoutRoom + stdout'
        BY RoomAssumption, <4>2, <4>3
      <4> QED BY <4>4 DEF lost
    <3>4. Pictures = nulls * StdoutRoom + stdout + wrapped
      BY <3>1 DEF Pictures
    <3>5. wrapped + stdout <= StdoutRoom + stdout' /\ stdout' \in Nat
      BY <1>2, <1>4 DEF Take
    <3>6. Pictures <= Pictures'
      <4> DEFINE lost == nulls * StdoutRoom
      <4>1. Pictures' = lost + StdoutRoom + stdout' /\ Pictures = lost + stdout + wrapped
            /\ lost \in Nat
        BY <1>2, <3>3, <3>4
      <4>2. StdoutRoom \in Nat /\ stdout \in Nat /\ wrapped \in Nat
        BY <1>2
      <4> HIDE DEF lost
      <4>3. lost + stdout + wrapped <= lost + StdoutRoom + stdout'
        BY <3>5, <4>1, <4>2, SumsCompare
      <4> QED BY <4>1, <4>3
    <3>7. Unread' = Unread /\ messages' = messages /\ most' = most
      BY <1>4 DEF Take, Unread
    <3> QED BY <1>1, <1>2, <1>3, <3>1, <3>6, <3>7, BoundGrows
  <2> QED BY <1>4, <2>1, <2>2 DEF Take
<1>5. CASE EndOfStream
  <2>1. CASE loop' = "ended"
    BY <1>2, <1>5, <2>1 DEF MessagesOK, EndOfStream
  <2>2. CASE loop' = "exitValue"
    <3>1. loop = "read" /\ wrapped = 0
      BY <1>2, <1>5 DEF EndOfStream
    <3>2. UNCHANGED <<stdout, nulls, stderr, midline, messages, most>>
      BY <1>5 DEF EndOfStream
    <3>3. Pictures' = Pictures /\ Unread' = Unread
      BY <1>2, <2>2, <3>1, <3>2 DEF Pictures, Unread
    <3> QED BY <1>1, <1>2, <1>3, <3>1, <3>2, <3>3, BoundGrows
  <2> QED BY <1>5, <2>1, <2>2 DEF EndOfStream
<1>6. CASE DrainMessages
  <2>1. CASE loop' = loop
    BY <1>2, <1>6, <2>1 DEF DrainMessages, MessagesOK
  <2>2. CASE loop' # loop
    <3>1. Unread' = 0
      BY <1>6, <2>2 DEF DrainMessages, Unread
    <3>2. Pictures' \in Nat /\ messages' = messages /\ most' = most
      BY <1>1, <1>6, PicturesTypeNext DEF DrainMessages
    <3>3. Pictures' * most' \in Nat
      BY <1>2, <3>2, ProductIsNat
    <3>4. Unread' <= Pictures' * most' + messages' /\ messages' <= most'
      <4> DEFINE said == Pictures' * most'
      <4>1. said \in Nat /\ messages' \in Nat /\ Unread' = 0 /\ messages' <= most'
        BY <1>2, <3>1, <3>2, <3>3
      <4> HIDE DEF said
      <4>2. 0 <= said + messages'
        BY <4>1, SumIsNat
      <4>3. Unread' <= said + messages'
        BY <4>1, <4>2
      <4> QED BY <4>1, <4>3 DEF said
    <3> QED BY <3>4 DEF MessagesOK
  <2> QED BY <2>1, <2>2
<1>7. CASE ProcessImage \/ SkipImage \/ FrameDone
  <2>1. loop \in {"image", "frame"} /\ loop' \in {"frame", "read"}
    BY <1>7 DEF ProcessImage, SkipImage, FrameDone
  <2>2. UNCHANGED <<stdout, wrapped, nulls, stderr, midline, messages, most>>
    BY <1>7 DEF ProcessImage, SkipImage, FrameDone
  <2>3. Pictures' = Pictures /\ Unread' = Unread
    BY <2>1, <2>2 DEF Pictures, Unread
  <2> QED BY <1>1, <1>2, <1>3, <2>1, <2>2, <2>3, BoundGrows
<1>8. CASE ExitValue
  <2>1. CASE loop' = "ended"
    BY <1>2, <1>8, <2>1 DEF MessagesOK, ExitValue
  <2>2. CASE loop' = "retry"
    <3>1. loop = "exitValue"
      BY <1>8 DEF ExitValue
    <3>2. UNCHANGED <<stdout, wrapped, nulls, stderr, midline, messages, most>>
      BY <1>8 DEF ExitValue
    <3>3. Pictures' = Pictures /\ Unread' = Unread
      BY <2>2, <3>1, <3>2 DEF Pictures, Unread
    <3> QED BY <1>1, <1>2, <1>3, <3>1, <3>2, <3>3, BoundGrows
  <2> QED BY <1>8, <2>1, <2>2 DEF ExitValue
<1>9. CASE Retry
  <2>1. loop = "retry" /\ loop' = "read" /\ wrapped' = 0
    BY <1>9 DEF Retry
  <2>2. UNCHANGED <<stdout, nulls, stderr, midline, messages, most>>
    BY <1>9 DEF Retry
  <2>3. Pictures' = Pictures /\ Unread' = Unread
    BY <2>1, <2>2 DEF Pictures, Unread
  <2> QED BY <1>1, <1>2, <1>3, <2>1, <2>2, <2>3, BoundGrows
<1>10. CASE Emit
  <2>1. UNCHANGED <<loop, wrapped, nulls, stderr, midline>>
        /\ stdout' = stdout + 1 /\ messages' = 0 /\ most' = most
    BY <1>10 DEF Emit
  <2>2. CASE loop \in {"drain", "ended"}
    BY <1>2, <2>1, <2>2 DEF MessagesOK
  <2>3. CASE loop \notin {"drain", "ended"}
    <3>1. Pictures' = Pictures + 1 /\ Unread' = Unread
      BY <1>2, <1>3, <2>1 DEF Pictures, Unread
    <3>2. Pictures' * most = Pictures * most + most
      BY <1>2, <1>3, <3>1, OneMore
    <3>3. Pictures * most \in Nat
      BY <1>2, <1>3, ProductIsNat
    <3>4. Unread <= Pictures * most + messages
      BY <1>1, <2>3 DEF MessagesOK
    <3> DEFINE said == Pictures * most
    <3>5. Unread' = Unread /\ Unread <= said + messages /\ Pictures' * most' = said + most
          /\ said \in Nat
      BY <2>1, <3>1, <3>2, <3>3, <3>4
    <3>6. Unread' <= Pictures' * most' + messages' /\ messages' <= most'
      <4> HIDE DEF said
      <4> QED BY <1>2, <1>3, <2>1, <3>5
    <3> QED BY <3>6 DEF MessagesOK
  <2> QED BY <2>2, <2>3
<1>11. CASE BeginMessage \/ EndMessage
  <2>1. UNCHANGED <<loop, wrapped, stdout, nulls>>
    BY <1>11 DEF BeginMessage, EndMessage
  <2>2. Unread' + messages = Unread + messages'
    BY <1>1, <1>11, RoomAssumption DEF BeginMessage, EndMessage, Unread, CTypeOK
  <2>6. most <= most' /\ messages' <= most' /\ messages' \in Nat
    BY <1>2, <1>11 DEF BeginMessage, EndMessage
  <2>3. Pictures' = Pictures
    BY <2>1 DEF Pictures
  <2>4. CASE loop \in {"drain", "ended"}
    BY <2>1, <2>4, <2>6 DEF MessagesOK
  <2>5. CASE loop \notin {"drain", "ended"}
    <3>1. messages \in Nat /\ messages' \in Nat /\ Unread' \in Nat
      BY <1>1, PicturesTypeNext DEF CTypeOK
    <3>2. Unread' + messages <= Unread + messages' /\ Pictures <= Pictures'
      <4>1. Unread' + messages <= Unread + messages'
        BY <1>3, <2>2, <3>1, EqualIsAtMost
      <4>2. Pictures <= Pictures'
        BY <1>3, <2>3
      <4> QED BY <4>1, <4>2
    <3> QED BY <1>1, <2>5, <2>6, <3>2, BoundGrows
  <2> QED BY <2>4, <2>5
<1>12. CASE UpdateFps \/ UpdateLast \/ Tick \/ CloseOutput \/ Exit \/ Killed \/ UNCHANGED svars
  <2>1. UNCHANGED <<loop, wrapped, stdout, nulls, stderr, midline, messages, most>>
    BY <1>12 DEF UpdateFps, UpdateLast, Tick, CloseOutput, Exit, Killed, svars
  <2> QED BY <1>1, <2>1 DEF MessagesOK, Unread, Pictures
<1> QED
  BY <1>4, <1>5, <1>6, <1>7, <1>8, <1>9, <1>10, <1>11, <1>12
     DEF CNext, FrameThread, Transcoder

LEMMA SettledIsFree == JInv => JamMeansFlood
<1> SUFFICES ASSUME JInv, Jam PROVE (nulls * StdoutRoom + 1) * most > StderrRoom
  BY DEF JamMeansFlood
<1>1. /\ wrapped = 0 /\ stdout = 0 /\ nulls \in Nat /\ StdoutRoom \in Nat /\ StderrRoom \in Nat
      /\ messages \in Nat /\ most \in Nat /\ messages <= most
  BY RoomAssumption DEF JInv, CTypeOK, MessagesOK, Jam
<1> DEFINE lost == nulls * StdoutRoom
           said == lost * most
<1>2. lost \in Nat /\ said \in Nat
  BY <1>1, ProductIsNat
<1>3. Pictures = lost /\ Unread = StderrRoom + 1
  BY <1>1, <1>2 DEF Pictures, Unread, Jam
<1>4. Unread <= Pictures * most + messages
  BY DEF JInv, MessagesOK, Jam
<1>5. (lost + 1) * most = said + most
  <2> HIDE DEF lost
  <2> QED BY <1>1, <1>2, OneMore
<1>6. StderrRoom + 1 <= said + messages
  BY <1>3, <1>4
<1>7. said + most > StderrRoom
  <2> HIDE DEF said
  <2> QED BY <1>1, <1>2, <1>6
<1> QED BY <1>5, <1>7

-----------------------------------------------------------------------------
LEMMA LaterStill ==
  ASSUME NEW t \in Nat, NEW u \in Nat, NEW d \in Nat, NEW w \in Nat, u >= t
  PROVE  /\ t >= d + w => u >= d + w
         /\ t + 1 >= 2 * d + 2 * w => u + 1 >= 2 * d + 2 * w
         /\ t + 3 >= 3 * d + 3 * w => u + 3 >= 3 * d + 3 * w
  OBVIOUS

(* A frame begins at t and sleeps e + w; the one before slept d + w. *)
LEMMA FrameSums ==
  ASSUME NEW t \in Nat, NEW d \in Nat, NEW e \in Nat, NEW w \in Nat, e <= d + 1
  PROVE  /\ t + e + w >= e + w
         /\ t >= d + w => (t + e + w) + 1 >= 2 * e + 2 * w
         /\ t + 1 >= 2 * d + 2 * w => (t + e + w) + 3 >= 3 * e + 3 * w
  OBVIOUS

LEMMA LessDelay ==
  ASSUME NEW d \in Nat, NEW e \in Nat, NEW s \in Nat, e <= d, 2 * d <= s + 5
  PROVE  2 * e <= s + 5
  OBVIOUS

LEMMA TickSums ==
  ASSUME NEW c \in Nat, NEW s \in Nat, NEW b \in Nat, NEW k \in Nat, NEW z \in Nat,
         \/ b = c + 1 /\ k = 0
         \/ b = 0 /\ k = c + 1,
         \/ s > 0 /\ z = s - 1
         \/ s = 0 /\ z = 0
  PROVE  b + k + z >= c + 0 + s
  OBVIOUS

(* A step that counts no frame, leaves rate and delay alone and does not   *)
(* take back time leaves what was said of the delay true.                  *)
LEMMA ElapsedType == CTypeOK => Elapsed \in Nat
<1> SUFFICES ASSUME CTypeOK PROVE Elapsed \in Nat
  OBVIOUS
<1>1. clock \in Nat /\ sleeping \in Nat /\ Second \in Nat
  BY TimeAssumption DEF CTypeOK
<1> QED BY <1>1 DEF Elapsed

LEMMA ElapsedTypeNext == (CTypeOK => Elapsed \in Nat)'
BY ElapsedType, PTL

LEMMA TimeOnlyGrows ==
  ASSUME DelayInv, CTypeOK', ClockOK', Elapsed' >= Elapsed,
         timer' = "between" <=> timer = "between",
         UNCHANGED <<frameCounter, fps, manualFrameDelayMillis>>
  PROVE  DelayInv'
<1>1. /\ Elapsed \in Nat /\ Elapsed' \in Nat /\ Elapsed' >= Elapsed
      /\ manualFrameDelayMillis \in Nat /\ Second \in Nat /\ Work \in Nat
      /\ frameCounter \in Nat
  BY ElapsedType, ElapsedTypeNext, TimeAssumption DEF DelayInv, CTypeOK
<1>2. FramesTakeTime'
  <2>1. SUFFICES ASSUME timer' # "between" PROVE FramesTakeTime'
    BY DEF FramesTakeTime
  <2>2. FramesTakeTime /\ timer # "between"
    BY <2>1 DEF DelayInv
  <2>3. /\ frameCounter >= 1 => Elapsed >= manualFrameDelayMillis + Work
        /\ frameCounter >= 2 => Elapsed + 1 >= 2 * manualFrameDelayMillis + 2 * Work
        /\ frameCounter >= 3 => Elapsed + 3 >= 3 * manualFrameDelayMillis + 3 * Work
    BY <2>2 DEF FramesTakeTime
  <2>4. /\ frameCounter >= 1 => Elapsed' >= manualFrameDelayMillis + Work
        /\ frameCounter >= 2 => Elapsed' + 1 >= 2 * manualFrameDelayMillis + 2 * Work
        /\ frameCounter >= 3 => Elapsed' + 3 >= 3 * manualFrameDelayMillis + 3 * Work
    BY <1>1, <2>3, LaterStill
  <2> QED BY <2>4 DEF FramesTakeTime
<1>3. DelayFollowsRate'
  BY <1>1 DEF DelayInv, DelayFollowsRate, Raising, Risen
<1> QED BY <1>2, <1>3 DEF DelayInv

LEMMA InitDelay == CInit => DelayInv
<1> SUFFICES ASSUME CInit PROVE DelayInv
  OBVIOUS
<1>1. CTypeOK
  BY InitSettled DEF JInv
<1>2. ClockOK /\ FramesTakeTime
  BY <1>1, TimeAssumption DEF CInit, CTypeOK, ClockOK, FramesTakeTime
<1>3. DelayFollowsRate
  BY <1>1, TimeAssumption DEF CInit, CTypeOK, DelayFollowsRate, Raising
<1> QED BY <1>1, <1>2, <1>3 DEF DelayInv

(* A frame begins: nobody sleeps before it, and less than a second has     *)
(* gone, or just one.                                                      *)
LEMMA ImageKeepsDelay ==
  ASSUME DelayInv, CTypeOK', ProcessImage
  PROVE  DelayInv'
<1>1. /\ manualFrameDelayMillis \in Nat /\ manualFrameDelayMillis' \in Nat /\ Work \in Nat /\ Second \in Nat /\ Work >= 1
      /\ frameCounter \in Nat /\ frameCounter' = frameCounter + 1 /\ timer' = timer
      /\ fps \in Nat /\ fps' = fps /\ sleeping' = manualFrameDelayMillis' + Work /\ loop' = "frame"
  BY TimeAssumption DEF DelayInv, CTypeOK, ProcessImage
<1>2. Elapsed \in Nat /\ Elapsed <= Second /\ Elapsed' = Elapsed + manualFrameDelayMillis' + Work
  BY <1>1, TimeAssumption DEF DelayInv, CTypeOK, ClockOK, ProcessImage, Elapsed
<1>3. manualFrameDelayMillis' <= manualFrameDelayMillis + 1 /\ (manualFrameDelayMillis' > manualFrameDelayMillis => Raising /\ manualFrameDelayMillis' = manualFrameDelayMillis + 1)
  <2>1. desiredFrameRate \in Nat /\ desiredFrameRate >= 1
    BY TimeAssumption
  <2> QED BY <1>1, <2>1 DEF ProcessImage, Raising
<1>4. ClockOK'
  BY <1>1 DEF DelayInv, ClockOK, ProcessImage
<1>5. FramesTakeTime'
  <2>1. SUFFICES ASSUME timer # "between" PROVE FramesTakeTime'
    BY <1>1 DEF FramesTakeTime
  <2>2. /\ frameCounter >= 1 => Elapsed >= manualFrameDelayMillis + Work
        /\ frameCounter >= 2 => Elapsed + 1 >= 2 * manualFrameDelayMillis + 2 * Work
    BY <2>1 DEF DelayInv, FramesTakeTime
  <2>6. /\ frameCounter' >= 2 => frameCounter >= 1
        /\ frameCounter' >= 3 => frameCounter >= 2
    BY <1>1
  <2>7. /\ Elapsed' >= manualFrameDelayMillis' + Work
        /\ Elapsed >= manualFrameDelayMillis + Work
             => Elapsed' + 1 >= 2 * manualFrameDelayMillis' + 2 * Work
        /\ Elapsed + 1 >= 2 * manualFrameDelayMillis + 2 * Work
             => Elapsed' + 3 >= 3 * manualFrameDelayMillis' + 3 * Work
    BY <1>1, <1>2, <1>3, FrameSums
  <2>3. Elapsed' >= manualFrameDelayMillis' + Work
    BY <2>7
  <2>4. frameCounter' >= 2 => Elapsed' + 1 >= 2 * manualFrameDelayMillis' + 2 * Work
    BY <2>2, <2>6, <2>7
  <2>5. frameCounter' >= 3 => Elapsed' + 3 >= 3 * manualFrameDelayMillis' + 3 * Work
    BY <2>2, <2>6, <2>7
  <2> QED BY <2>3, <2>4, <2>5 DEF FramesTakeTime
<1>6. DelayFollowsRate'
  <2>1. CASE ~Raising
    <3>1. ~Raising'
      BY <1>1, <2>1 DEF Raising
    <3>2. manualFrameDelayMillis' <= manualFrameDelayMillis
      BY <1>1, <1>3, <2>1
    <3>3. 2 * manualFrameDelayMillis <= Second + 5
      BY DEF DelayInv, DelayFollowsRate
    <3>4. 2 * manualFrameDelayMillis' <= Second + 5
      BY <1>1, <3>2, <3>3, LessDelay
    <3> QED BY <3>1, <3>4 DEF DelayFollowsRate
  <2>2. CASE Raising
    <3>0. manualFrameDelayMillis' = manualFrameDelayMillis + 1 /\ Raising'
      BY <1>1, <2>2, TimeAssumption DEF ProcessImage, Raising
    <3>1. CASE Risen(0)
      BY <1>1, <1>2, <3>0, <3>1 DEF Risen, DelayFollowsRate
    <3>2. CASE Risen(1)
      BY <1>1, <1>2, <3>0, <3>2 DEF Risen, DelayFollowsRate
    <3>3. CASE Risen(2)
      BY <1>1, <1>2, <3>3 DEF Risen
    <3> QED BY <2>2, <3>1, <3>2, <3>3 DEF DelayInv, DelayFollowsRate
  <2> QED BY <2>1, <2>2
<1> QED BY <1>4, <1>5, <1>6 DEF DelayInv

(* The rate is measured: a second has gone, and what the frame at work     *)
(* still sleeps.                                                           *)
LEMMA MeasuringKeepsDelay ==
  ASSUME DelayInv, CTypeOK', UpdateFps
  PROVE  DelayInv'
<1>1. /\ manualFrameDelayMillis \in Nat /\ manualFrameDelayMillis' = manualFrameDelayMillis /\ Work \in Nat /\ Second \in Nat /\ Work >= 1
      /\ frameCounter \in Nat /\ fps' = frameCounter /\ desiredFrameRate \in Nat
      /\ desiredFrameRate >= 1 /\ sleeping \in Nat /\ timer = "due" /\ timer' = "between"
  BY TimeAssumption DEF DelayInv, CTypeOK, UpdateFps
<1>2. Elapsed \in Nat /\ Elapsed <= Second + manualFrameDelayMillis + Work
  BY <1>1 DEF DelayInv, ClockOK, Elapsed
<1>3. ClockOK' /\ FramesTakeTime'
  BY <1>1 DEF DelayInv, ClockOK, FramesTakeTime, UpdateFps, taken, process, time
<1>4. ASSUME Raising' PROVE Risen(0)'
  <2>1. frameCounter >= 3
    BY <1>1, <1>4 DEF Raising
  <2>2. Elapsed + 3 >= 3 * manualFrameDelayMillis + 3 * Work
    BY <1>1, <2>1 DEF DelayInv, FramesTakeTime
  <2> QED BY <1>1, <1>2, <2>2 DEF Risen
<1>5. DelayFollowsRate'
  BY <1>1, <1>4 DEF DelayInv, DelayFollowsRate
<1> QED BY <1>3, <1>5 DEF DelayInv

LEMMA NextDelay == DelayInv /\ [CNext]_svars => DelayInv'
<1> SUFFICES ASSUME DelayInv, [CNext]_svars PROVE DelayInv'
  OBVIOUS
<1>0. CTypeOK /\ CTypeOK'
  BY TypesKept DEF DelayInv
<1> USE TimeAssumption DEF process, taken, time, rate
<1>1. CASE Take
  <2>1. ClockOK' /\ Elapsed' >= Elapsed
    BY <1>0, <1>1 DEF Take, CTypeOK, DelayInv, ClockOK, Elapsed
  <2> QED BY <1>0, <1>1, <2>1, TimeOnlyGrows DEF Take
<1>2. CASE EndOfStream
  <2>1. ClockOK' /\ Elapsed' >= Elapsed
    BY <1>0, <1>2 DEF EndOfStream, CTypeOK, DelayInv, ClockOK, Elapsed
  <2> QED BY <1>0, <1>2, <2>1, TimeOnlyGrows DEF EndOfStream
<1>3. CASE DrainMessages
  <2>1. ClockOK' /\ Elapsed' >= Elapsed
    BY <1>0, <1>3 DEF DrainMessages, CTypeOK, DelayInv, ClockOK, Elapsed
  <2> QED BY <1>0, <1>3, <2>1, TimeOnlyGrows DEF DrainMessages
<1>4. CASE ProcessImage
  BY <1>0, <1>4, ImageKeepsDelay
<1>5. CASE SkipImage \/ FrameDone \/ ExitValue \/ Retry
  <2>0. /\ UNCHANGED <<clock, timer, manualFrameDelayMillis>>
        /\ loop' # "frame" /\ (loop = "frame" => sleeping = 0)
    BY <1>5 DEF SkipImage, FrameDone, ExitValue, Retry
  <2>1. ClockOK' /\ Elapsed' >= Elapsed
    <3>1. ClockOK'
      BY <2>0 DEF DelayInv, ClockOK
    <3>2. clock \in Nat /\ Second \in Nat /\ sleeping \in Nat
      BY <1>0 DEF CTypeOK
    <3>3. Elapsed' = Elapsed
      BY <2>0, <3>2 DEF Elapsed
    <3> QED BY <1>0, <3>1, <3>3, ElapsedType
  <2> QED BY <1>0, <1>5, <2>1, TimeOnlyGrows DEF SkipImage, FrameDone, ExitValue, Retry
<1>6. CASE UpdateFps
  BY <1>0, <1>6, MeasuringKeepsDelay
<1>7. CASE UpdateLast
  <2>1. Elapsed' = Elapsed /\ ClockOK'
    BY <1>7 DEF UpdateLast, DelayInv, ClockOK, Elapsed
  <2>2. FramesTakeTime'
    BY <1>7 DEF UpdateLast, FramesTakeTime
  <2>3. DelayFollowsRate'
    BY <1>7, <2>1 DEF UpdateLast, DelayInv, DelayFollowsRate, Raising, Risen
  <2> QED BY <1>0, <2>1, <2>2, <2>3 DEF DelayInv
<1>8. CASE Tick
  <2>1. clock \in Nat /\ clock' \in Nat /\ clock + 1 <= Second /\ sleeping \in Nat
        /\ timer = "idle" /\ loop' = loop /\ (loop = "frame" => sleeping > 0)
        /\ sleeping' = IF sleeping > 0 THEN sleeping - 1 ELSE 0
    BY <1>0, <1>8 DEF Tick, CTypeOK, Waiting
  <2>2. \/ clock' = clock + 1 /\ timer' = "idle"
        \/ clock' = 0 /\ clock + 1 = Second /\ timer' = "due"
    BY <1>0, <1>8, <2>1 DEF Tick
  <2>3. ClockOK'
    BY <1>0, <1>8, <2>1, <2>2 DEF Tick, CTypeOK, DelayInv, ClockOK
  <2>4. Elapsed' >= Elapsed
    <3> DEFINE late  == IF timer' = "due" THEN Second ELSE 0
               sleep == IF loop = "frame" THEN sleeping ELSE 0
               rest  == IF loop = "frame" THEN sleeping' ELSE 0
    <3>1. late \in Nat /\ sleep \in Nat /\ rest \in Nat
      BY <2>1
    <3>2. \/ clock' = clock + 1 /\ late = 0
          \/ clock' = 0 /\ late = clock + 1
      BY <2>1, <2>2
    <3>3. \/ sleep > 0 /\ rest = sleep - 1
          \/ sleep = 0 /\ rest = 0
      BY <2>1
    <3>4. Elapsed = clock + 0 + sleep /\ Elapsed' = clock' + late + rest
      BY <2>1 DEF Elapsed
    <3> HIDE DEF late, sleep, rest
    <3> QED BY <2>1, <3>1, <3>2, <3>3, <3>4, TickSums
  <2> QED BY <1>0, <1>8, <2>2, <2>3, <2>4, TimeOnlyGrows DEF Tick
<1>9. CASE Transcoder \/ Killed
  <2>0. UNCHANGED <<loop, sleeping, clock, timer, manualFrameDelayMillis>>
    BY <1>9 DEF Transcoder, Emit, BeginMessage, EndMessage, CloseOutput, Exit, Killed
  <2>1. ClockOK' /\ Elapsed' >= Elapsed
    BY <1>0, <2>0, ElapsedType DEF DelayInv, ClockOK, Elapsed
  <2> QED BY <1>0, <1>9, <2>1, TimeOnlyGrows
         DEF Transcoder, Emit, BeginMessage, EndMessage, CloseOutput, Exit, Killed
<1>10. CASE UNCHANGED svars
  <2>1. ClockOK' /\ Elapsed' >= Elapsed
    BY <1>0, <1>10 DEF svars, CTypeOK, DelayInv, ClockOK, Elapsed
  <2> QED BY <1>0, <1>10, <2>1, TimeOnlyGrows DEF svars
<1> QED BY <1>1, <1>2, <1>3, <1>4, <1>5, <1>6, <1>7, <1>8, <1>9, <1>10
       DEF CNext, FrameThread

-----------------------------------------------------------------------------
(* The variables of the stream loop keep their types: the delay never goes *)
(* below 0, no pipe takes more than it has room for (CameraTrack.run and   *)
(* processImage).                                                          *)
THEOREM StreamTypeCorrect == CSpec => []CTypeOK
<1>1. CInit => CTypeOK
  BY InitSettled DEF JInv
<1>2. CTypeOK /\ [CNext]_svars => CTypeOK'
  BY TypesKept
<1> QED BY <1>1, <1>2, PTL DEF CSpec

(* For every room of the pipes and however pictures, nulls and streams     *)
(* wrapped anew come together: the loop waits for a picture and the        *)
(* transcoder for room for its messages only after more of them between    *)
(* two pictures than the pipe takes, shared among the pictures that went   *)
(* by unread (CameraTrack.run, lines 206, 211-219 and 224-233).            *)
THEOREM JamsOnlyAfterFlood == CSpec => []JamMeansFlood
<1>1. CInit => JInv
  BY InitSettled
<1>2. JInv /\ [CNext]_svars => JInv'
  BY NextSettled
<1>3. JInv => JamMeansFlood
  BY SettledIsFree
<1> QED BY <1>1, <1>2, <1>3, PTL DEF CSpec

(* The delay stays below a second, although it follows a frame rate that   *)
(* is up to a second old, and although FrameCounter reads its counter      *)
(* twice (CameraTrack.processImage, lines 261-275, and FrameCounter, lines *)
(* 89-98).  The code's second has 1000 ticks, in which it sleeps; six are  *)
(* enough for the argument.                                                *)
THEOREM DelayStaysShort == ASSUME Second >= 6 PROVE CSpec => []DelayIsBounded
<1>1. CInit => DelayInv
  BY InitDelay
<1>2. DelayInv /\ [CNext]_svars => DelayInv'
  BY NextDelay
<1>3. DelayInv => DelayIsBounded
  BY TimeAssumption DEF DelayInv, CTypeOK, DelayFollowsRate, DelayIsBounded
<1> QED BY <1>1, <1>2, <1>3, PTL DEF CSpec
=============================================================================
