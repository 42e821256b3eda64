---------------------------- MODULE VideoDevices ----------------------------
(***************************************************************************)
(* The cameras CameraTrack offers: VideoDeviceManager, which reads them    *)
(* from v4l2-ctl's output when the program starts and asks v4l2-ctl for    *)
(* the controls of the one the user selects, the table that shows them     *)
(* (CameraSettingsTabelModel), and the choice of the stream by             *)
(* CameraTrack.run.  A program is killed and starts again at any time.     *)
(*                                                                         *)
(* A line of the list of devices is a name, a location (it begins with     *)
(* white space) or Blank.  Controls are counted: what v4l2-ctl prints for  *)
(* a camera is that many lines.                                            *)
(***************************************************************************)
EXTENDS Naturals, Sequences, FiniteSets, SequencesExt

CONSTANTS
  Names, Locations, Blank, None,
  Outputs,       \* what v4l2-ctl --list-devices may print, cut short or not
  Controls,      \* how many lines v4l2-ctl -l prints for a location
  PipeLines,     \* how many lines a pipe takes before its writer waits
  Arguments,     \* streams that may be named on the command line, or None
  MaxSelections, \* bound: how often the user selects a camera
  MaxStarts      \* bound: how often the program is started again

ASSUME LinesAssumption ==
  /\ Names \cap Locations = {} /\ Blank \notin Names \cup Locations
  /\ None \notin Names \cup Locations
ASSUME OutputsAssumption == Outputs \subseteq Seq(Names \cup Locations \cup {Blank})
ASSUME ControlsAssumption == Controls \in [Locations -> Nat \ {0}]
ASSUME LimitsAssumption ==
  PipeLines \in Nat \ {0} /\ MaxSelections \in Nat /\ MaxStarts \in Nat

VARIABLES
  output, read,           \* v4l2-ctl's list, and the lines of it read so far
  deviceName, deviceLocation, deviceList,
  lastUsed,               \* the setting LAST_VIDEO_DEVICE, or None
  currentDevice,
  selection,              \* the event thread: "idle", or its "first" or "second" query
  v4l2,                   \* the process it waits for: "running" or "ended"
  printed,                \* lines of it in the pipe
  settings,               \* lines kept for each device's location
  table,                  \* the location whose settings the table shows, or None
  stream,                 \* what run() has chosen to play, or None
  selections, starts

list    == <<output, read, deviceName, deviceLocation, deviceList>>
choice  == <<lastUsed, currentDevice, selections>>
query   == <<selection, v4l2, printed, settings, table>>
begun   == <<stream, starts>>
devices == <<list, choice, query, begun>>

VideoDevice == Names \X Locations
Name(d)     == d[1]
Location(d) == d[2]

DTypeOK ==
  /\ output \in Outputs /\ read \in 0 .. Len(output)
  /\ deviceName \in Names \cup {None} /\ deviceLocation \in Locations \cup {None}
  /\ deviceList \in Seq(VideoDevice)
  /\ lastUsed \in Names \cup {None}
  /\ currentDevice \in VideoDevice \cup {None}
  /\ selection \in {"idle", "first", "second"} /\ v4l2 \in {"running", "ended"}
  /\ printed \in 0 .. PipeLines
  /\ settings \in [Locations -> Nat] /\ table \in Locations \cup {None}
  /\ stream \in Locations \cup Arguments \cup {None}
  /\ selections \in 0 .. MaxSelections /\ starts \in 0 .. MaxStarts
  /\ \A l \in Locations : settings[l] <= Controls[l]

DInit ==
  /\ output \in Outputs
  /\ lastUsed = None
  /\ read = 0 /\ deviceName = None /\ deviceLocation = None /\ deviceList = << >>
  /\ currentDevice = None
  /\ selection = "idle" /\ v4l2 = "ended" /\ printed = 0
  /\ settings = [l \in Locations |-> 0] /\ table = None
  /\ stream = None
  /\ selections = 0 /\ starts = 0

-----------------------------------------------------------------------------
Listed == read = Len(output)

ReadEntry ==
  /\ ~Listed /\ output[read + 1] # Blank
  /\ read' = read + 1
  /\ IF output[read + 1] \in Names
       THEN deviceName' = output[read + 1] /\ UNCHANGED deviceLocation
       ELSE deviceLocation' = output[read + 1] /\ UNCHANGED deviceName
  /\ UNCHANGED <<output, deviceList, choice, query, begun>>

(* Faulty variant of ReadBlank: an entry without a location is not forgotten. *)
ReadBlankKeeps ==
  /\ ~Listed /\ output[read + 1] = Blank
  /\ read' = read + 1
  /\ IF deviceName = None \/ deviceLocation = None
       THEN UNCHANGED <<deviceName, deviceLocation, deviceList>>
       ELSE /\ deviceList' = Append(deviceList, <<deviceName, deviceLocation>>)
            /\ deviceName' = None /\ deviceLocation' = None
  /\ UNCHANGED <<output, choice, query, begun>>

(* Faulty variant of ReadBlank: an entry need not have both parts. *)
ReadBlankAny ==
  /\ ~Listed /\ output[read + 1] = Blank
  /\ read' = read + 1
  /\ deviceList' = Append(deviceList, <<deviceName, deviceLocation>>)
  /\ deviceName' = None /\ deviceLocation' = None
  /\ UNCHANGED <<output, choice, query, begun>>

(* The blank line ends an entry: it is a device if it has both parts. *)
ReadBlank ==
  /\ ~Listed /\ output[read + 1] = Blank
  /\ read' = read + 1
  /\ deviceList' = IF deviceName = None \/ deviceLocation = None THEN deviceList
                   ELSE Append(deviceList, <<deviceName, deviceLocation>>)
  /\ deviceName' = None /\ deviceLocation' = None
  /\ UNCHANGED <<output, choice, query, begun>>

(* The device that searchDevice finds: the first with that name or that    *)
(* location, if any.  It ignores case; two values of Names or Locations    *)
(* stand for strings that differ in more than case.                        *)
SearchDevice(n) ==
  LET found == {i \in 1 .. Len(deviceList) :
                  n \in {Name(deviceList[i]), Location(deviceList[i])}}
  IN  {deviceList[i] : i \in {i \in found : \A j \in found : i <= j}}

(* The stream is the argument, else the camera used last, else the first;  *)
(* without any, or if ffmpeg cannot be started, run() ends with an         *)
(* exception and no stream.                                                *)
DefaultStream ==
  IF SearchDevice(lastUsed) # {} THEN {Location(d) : d \in SearchDevice(lastUsed)}
  ELSE IF deviceList # << >>     THEN {Location(Head(deviceList))}
  ELSE {}

ChooseStream ==
  /\ Listed /\ stream = None
  /\ \E a \in Arguments : stream' \in IF a = None THEN DefaultStream ELSE {a}
  /\ UNCHANGED <<list, choice, query, starts>>

(* loadDeviceSettings starts v4l2-ctl -l and waits for its end, in the     *)
(* query q; with settings kept the table is filled from them.              *)
Query(q, d) ==
  IF settings[Location(d)] = 0
    THEN /\ selection' = q /\ v4l2' = "running" /\ printed' = 0
         /\ UNCHANGED table
    ELSE /\ selection' = "idle" /\ table' = Location(d)
         /\ UNCHANGED <<v4l2, printed>>

(* The combo box: setting, current device, its settings, and the table.    *)
SelectCamera(d) ==
  /\ Listed /\ selection = "idle" /\ selections < MaxSelections
  /\ selections' = selections + 1
  /\ lastUsed' = Name(d) /\ currentDevice' = d
  /\ Query("first", d)
  /\ UNCHANGED <<list, settings, begun>>

PrintLine ==
  /\ v4l2 = "running" /\ printed < PipeLines /\ printed < Controls[Location(currentDevice)]
  /\ printed' = printed + 1
  /\ UNCHANGED <<list, choice, selection, v4l2, settings, table, begun>>

(* v4l2-ctl has printed everything, or fails. *)
V4l2Ends ==
  /\ v4l2 = "running"
  /\ printed = Controls[Location(currentDevice)] \/ printed = 0
  /\ v4l2' = "ended"
  /\ UNCHANGED <<list, choice, selection, printed, settings, table, begun>>

(* Faulty variant of ReadDeviceSettings: a query that found nothing is repeated. *)
ReadDeviceSettingsUntilFound ==
  /\ selection # "idle" /\ v4l2 = "ended"
  /\ settings' = [settings EXCEPT ![Location(currentDevice)] = printed]
  /\ IF printed > 0
       THEN /\ selection' = "idle" /\ table' = Location(currentDevice)
            /\ UNCHANGED <<v4l2, printed>>
       ELSE /\ selection' = "second" /\ v4l2' = "running" /\ printed' = 0
            /\ UNCHANGED table
  /\ UNCHANGED <<list, choice, begun>>

(* waitFor returns, the lines are read.  With none, loadDeviceProperties   *)
(* asks once more; then the table stays empty.                             *)
ReadDeviceSettings ==
  /\ selection # "idle" /\ v4l2 = "ended"
  /\ settings' = [settings EXCEPT ![Location(currentDevice)] = printed]
  /\ IF printed > 0 \/ selection = "second"
       THEN /\ selection' = "idle"
            /\ table' = IF printed > 0 THEN Location(currentDevice) ELSE None
            /\ UNCHANGED <<v4l2, printed>>
       ELSE /\ selection' = "second" /\ v4l2' = "running" /\ printed' = 0
            /\ table' = None
  /\ UNCHANGED <<list, choice, begun>>

ListDevices == ReadEntry \/ ReadBlank
V4l2        == PrintLine \/ V4l2Ends
EventThread == (\E d \in ToSet(deviceList) : SelectCamera(d)) \/ ReadDeviceSettings

(* The program is killed and starts again, with other cameras plugged in; *)
(* a v4l2-ctl it waited for is no longer its own.  The settings file may   *)
(* have been lost or may not be readable.                                  *)
Restart ==
  /\ starts < MaxStarts
  /\ starts' = starts + 1
  /\ output' \in Outputs
  /\ read' = 0 /\ deviceName' = None /\ deviceLocation' = None /\ deviceList' = << >>
  /\ currentDevice' = None
  /\ selection' = "idle" /\ v4l2' = "ended" /\ printed' = 0
  /\ settings' = [l \in Locations |-> 0] /\ table' = None
  /\ stream' = None
  /\ lastUsed' \in {lastUsed, None}
  /\ UNCHANGED selections

DNext == ListDevices \/ ChooseStream \/ V4l2 \/ EventThread \/ Restart

(* Every thread and process is scheduled; nobody has to select a camera.   *)
DSpec ==
  /\ DInit /\ [][DNext]_devices
  /\ WF_devices(V4l2) /\ WF_devices(ReadDeviceSettings)

-----------------------------------------------------------------------------
(* The entry that ends with line i, and its last line that is in S. *)
Entry(i) == {j \in 1 .. i - 1 : \A k \in j .. i - 1 : output[k] # Blank}
LastOf(S, i) ==
  output[CHOOSE j \in Entry(i) : /\ output[j] \in S
                                 /\ \A k \in Entry(i) : output[k] \in S => k <= j]
Complete(i) ==
  /\ output[i] = Blank
  /\ \E j, k \in Entry(i) : output[j] \in Names /\ output[k] \in Locations

(* The blank lines that end a complete entry, up to line i. *)
Ends(i) == {j \in 1 .. i : Complete(j)}

(* The devices are the complete entries of what has been read, in order:   *)
(* no device gets another's location, none is listed twice, and one is     *)
(* missed only where v4l2-ctl's output breaks off before its blank line    *)
(* (VideoDeviceManager.readDevices, line 225).                             *)
ListedAsPrinted ==
  /\ Len(deviceList) = Cardinality(Ends(read))
  /\ \A i \in Ends(read) :
       deviceList[Cardinality(Ends(i))] = <<LastOf(Names, i), LastOf(Locations, i)>>

(* v4l2-ctl waits for room in the pipe, and the program, which reads only  *)
(* when v4l2-ctl has ended, for its end.                                   *)
PipeFull ==
  /\ v4l2 = "running" /\ printed = PipeLines
  /\ printed < Controls[Location(currentDevice)]

(* The event thread comes back from every selection, after two queries at  *)
(* most, unless v4l2-ctl fills the pipe: the code waits for the process    *)
(* before it reads (line 305), and then both wait for ever.                *)
SelectionEnds == selection # "idle" ~> (selection = "idle" \/ PipeFull)
=============================================================================
