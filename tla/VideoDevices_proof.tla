------------------------- MODULE VideoDevices_proof -------------------------
(***************************************************************************)
(* For every output of v4l2-ctl, cut short or not, every number of         *)
(* controls and every size of the pipe: the cameras the program lists are  *)
(* the complete entries of what it has read, in order, and every variable  *)
(* keeps its type.  The argument: deviceName and deviceLocation are always *)
(* the last name and the last location of the entry under way.             *)
(***************************************************************************)
EXTENDS VideoDevices, FiniteSetTheorems, TLAPS

Line == Names \cup Locations \cup {Blank}

(* x is the last line of an entry that is in S, or None. *)
Under(S, x, i) ==
  IF \E j \in Entry(i) : output[j] \in S
    THEN \E j \in Entry(i) : /\ output[j] = x /\ x \in S
                            /\ \A k \in Entry(i) : output[k] \in S => k <= j
    ELSE x = None

EntryOK == Under(Names, deviceName, read + 1) /\ Under(Locations, deviceLocation, read + 1)

(* The query that runs is for the current device, and has not printed more *)
(* than it has to.                                                         *)
QueryOK ==
  /\ v4l2 = "running" => selection # "idle"
  /\ selection # "idle" =>
       /\ currentDevice \in VideoDevice
       /\ printed <= Controls[Location(currentDevice)]

DInv == DTypeOK /\ EntryOK /\ ListedAsPrinted /\ QueryOK

LEMMA OutputsAreLines ==
  ASSUME DTypeOK
  PROVE  output \in Seq(Line) /\ Len(output) \in Nat /\ read \in Nat /\ read <= Len(output)
BY OutputsAssumption DEF DTypeOK, Line

-----------------------------------------------------------------------------
(* The entry under way after one more line. *)
LEMMA EntryGrows ==
  ASSUME NEW i \in Nat \ {0}
  PROVE  /\ output[i] = Blank => Entry(i + 1) = {}
         /\ output[i] # Blank => Entry(i + 1) = Entry(i) \cup {i}
         /\ \A k \in Entry(i) : k \in Nat /\ k < i
<1>1. ASSUME output[i] = Blank PROVE Entry(i + 1) = {}
  BY <1>1 DEF Entry
<1>2. ASSUME output[i] # Blank PROVE Entry(i + 1) = Entry(i) \cup {i}
  <2>1. ASSUME NEW j \in Entry(i + 1) PROVE j \in Entry(i) \cup {i}
    BY <2>1 DEF Entry
  <2>2. i \in Entry(i + 1)
    BY <1>2 DEF Entry
  <2>3. ASSUME NEW j \in Entry(i) PROVE j \in Entry(i + 1)
    <3>1. \A k \in j .. (i + 1) - 1 : k \in j .. i - 1 \/ k = i
      BY <2>3 DEF Entry
    <3> QED BY <1>2, <2>3, <3>1 DEF Entry
  <2> QED BY <2>1, <2>2, <2>3
<1> QED BY <1>1, <1>2 DEF Entry

LEMMA LastLine ==
  ASSUME NEW S, NEW i \in Nat, NEW j \in Entry(i), output[j] \in S,
         \A k \in Entry(i) : output[k] \in S => k <= j
  PROVE  LastOf(S, i) = output[j]
<1> DEFINE P(l) == output[l] \in S /\ \A k \in Entry(i) : output[k] \in S => k <= l
<1>1. P(CHOOSE l \in Entry(i) : P(l)) /\ (CHOOSE l \in Entry(i) : P(l)) \in Entry(i)
  OBVIOUS
<1>2. \A l \in Entry(i) : P(l) => l = j
  BY DEF Entry
<1>3. (CHOOSE l \in Entry(i) : P(l)) = j
  BY <1>1, <1>2
<1> QED BY <1>3 DEF LastOf

(* A line of one kind takes the place of the last one of its kind; of the  *)
(* other kind it changes nothing.                                          *)
LEMMA UnderGrows ==
  ASSUME NEW S, NEW x, NEW i \in Nat \ {0}, Under(S, x, i), output[i] # Blank
  PROVE  /\ output[i] \in S => Under(S, output[i], i + 1)
         /\ output[i] \notin S => Under(S, x, i + 1)
<1>1. /\ Entry(i + 1) = Entry(i) \cup {i}
      /\ \A k \in Entry(i) : k \in Nat /\ k < i
  BY EntryGrows
<1>2. i \in Entry(i + 1) /\ i + 1 \in Nat
  BY <1>1
<1>3. ASSUME output[i] \in S PROVE Under(S, output[i], i + 1)
  <2>1. \A k \in Entry(i + 1) : k <= i
    BY <1>1
  <2> QED BY <1>2, <1>3, <2>1 DEF Under
<1>4. ASSUME output[i] \notin S PROVE Under(S, x, i + 1)
  <2>1. \A j \in Entry(i + 1) : output[j] \in S => j \in Entry(i)
    BY <1>1, <1>4
  <2>2. \A j \in Entry(i) : j \in Entry(i + 1)
    BY <1>1
  <2> QED BY <2>1, <2>2 DEF Under
<1> QED BY <1>3, <1>4

-----------------------------------------------------------------------------
LEMMA LineTaken ==
  ASSUME DTypeOK, ReadEntry \/ ReadBlank
  PROVE  /\ read + 1 \in Nat \ {0} /\ read' = read + 1 /\ read' \in 0 .. Len(output)
         /\ output[read + 1] \in Line /\ output' = output
<1>1. read + 1 \in 1 .. Len(output) /\ read' = read + 1 /\ output' = output
  BY OutputsAreLines DEF ReadEntry, ReadBlank, Listed, list
<1> QED BY <1>1, OutputsAreLines

LEMMA DeviceParts ==
  ASSUME NEW d \in VideoDevice
  PROVE  Name(d) \in Names /\ Location(d) \in Locations
BY DEF VideoDevice, Name, Location

LEMMA FoundDevices ==
  ASSUME DTypeOK, NEW n
  PROVE  /\ SearchDevice(n) \subseteq VideoDevice
         /\ DefaultStream \subseteq Locations
<1>1. \A i \in 1 .. Len(deviceList) : deviceList[i] \in VideoDevice
  BY DEF DTypeOK
<1>2. \A m : SearchDevice(m) \subseteq VideoDevice
  BY <1>1 DEF SearchDevice
<1>3. deviceList # << >> => Head(deviceList) \in VideoDevice
  BY DEF DTypeOK
<1> QED BY <1>2, <1>3, DeviceParts DEF DefaultStream

LEMMA StartTyped == DInit => DInv
<1> SUFFICES ASSUME DInit PROVE DInv
  OBVIOUS
<1>0. Len(output) \in Nat /\ MaxSelections \in Nat /\ MaxStarts \in Nat /\ PipeLines \in Nat
  BY OutputsAssumption, LimitsAssumption DEF DInit
<1>1. \A l \in Locations : 0 <= Controls[l]
  BY ControlsAssumption
<1>2. DTypeOK
  BY <1>0, <1>1 DEF DInit, DTypeOK
<1>3. Entry(read + 1) = {} /\ Ends(read) = {}
  BY DEF DInit, Entry, Ends
<1>4. EntryOK
  BY <1>3 DEF DInit, EntryOK, Under
<1>5. ListedAsPrinted
  BY <1>3, FS_EmptySet DEF DInit, ListedAsPrinted
<1> QED BY <1>2, <1>4, <1>5 DEF DInv, QueryOK, DInit

(* What is said of the output stays true while it does. *)
LEMMA OutputSame ==
  ASSUME output' = output
  PROVE  /\ \A i : Entry(i)' = Entry(i) /\ (Complete(i)' <=> Complete(i)) /\ Ends(i)' = Ends(i)
         /\ \A S, i : LastOf(S, i)' = LastOf(S, i)
         /\ \A S, x, i : Under(S, x, i)' <=> Under(S, x, i)
<1>1. \A i : Entry(i)' = Entry(i)
  BY DEF Entry
<1>2. \A i : Complete(i)' <=> Complete(i)
  BY <1>1 DEF Complete
<1>3. \A i : Ends(i)' = Ends(i)
  BY <1>2 DEF Ends
<1>4. \A S, i : LastOf(S, i)' = LastOf(S, i)
  BY <1>1 DEF LastOf
<1>5. \A S, x, i : Under(S, x, i)' <=> Under(S, x, i)
  BY <1>1 DEF Under
<1> QED BY <1>1, <1>2, <1>3, <1>4, <1>5

LEMMA ListSame ==
  ASSUME EntryOK, ListedAsPrinted, UNCHANGED list
  PROVE  EntryOK' /\ ListedAsPrinted'
<1>1. /\ output' = output /\ read' = read /\ deviceList' = deviceList
      /\ deviceName' = deviceName /\ deviceLocation' = deviceLocation
  BY DEF list
<1>2. EntryOK'
  BY <1>1, OutputSame DEF EntryOK
<1>3. ListedAsPrinted'
  BY <1>1, OutputSame DEF ListedAsPrinted
<1> QED BY <1>2, <1>3

LEMMA EndsGrow ==
  ASSUME NEW i \in Nat
  PROVE  /\ IsFiniteSet(Ends(i)) /\ Cardinality(Ends(i)) \in Nat /\ i + 1 \notin Ends(i)
         /\ Complete(i + 1) => Ends(i + 1) = Ends(i) \cup {i + 1}
         /\ ~Complete(i + 1) => Ends(i + 1) = Ends(i)
         /\ \A j \in Ends(i) : Cardinality(Ends(j)) \in 1 .. Cardinality(Ends(i))
<1>1. \A j \in Nat : IsFiniteSet(Ends(j)) /\ Cardinality(Ends(j)) \in Nat
  <2> TAKE j \in Nat
  <2>1. IsFiniteSet(1 .. j) /\ Ends(j) \in SUBSET (1 .. j)
    BY FS_Interval DEF Ends
  <2> QED BY <2>1, FS_Subset, FS_CardinalityType
<1>2. \A j \in Ends(i) : Cardinality(Ends(j)) \in 1 .. Cardinality(Ends(i))
  <2> TAKE j \in Ends(i)
  <2>1. j \in Nat /\ j \in Ends(j) /\ Ends(j) \in SUBSET Ends(i)
    BY DEF Ends
  <2>2. Cardinality(Ends(j)) # 0
    BY <1>1, <2>1, FS_EmptySet
  <2>3. Cardinality(Ends(j)) <= Cardinality(Ends(i))
    BY <1>1, <2>1, FS_Subset
  <2> QED BY <1>1, <2>1, <2>2, <2>3
<1> QED BY <1>1, <1>2 DEF Ends

LEMMA EntryStep ==
  ASSUME DInv, ReadEntry
  PROVE  DInv'
<1> DEFINE i == read + 1
<1>0. /\ i \in Nat \ {0} /\ read \in Nat /\ read' = i /\ read' \in 0 .. Len(output)
      /\ output[i] \in Line /\ output' = output /\ output[i] # Blank
      /\ UNCHANGED <<deviceList, choice, query, begun>>
  BY LineTaken, OutputsAreLines DEF DInv, ReadEntry
<1>1. Under(Names, deviceName, i) /\ Under(Locations, deviceLocation, i)
  BY DEF DInv, EntryOK
<1>2. \/ /\ output[i] \in Names /\ output[i] \notin Locations
         /\ deviceName' = output[i] /\ deviceLocation' = deviceLocation
      \/ /\ output[i] \in Locations /\ output[i] \notin Names
         /\ deviceName' = deviceName /\ deviceLocation' = output[i]
  BY <1>0, LinesAssumption DEF ReadEntry, Line
<1>3. Under(Names, deviceName', i + 1) /\ Under(Locations, deviceLocation', i + 1)
  BY <1>0, <1>1, <1>2, UnderGrows
<1>4. EntryOK'
  BY <1>0, <1>3, OutputSame DEF EntryOK
<1>5. DTypeOK'
  BY <1>0, <1>2 DEF DInv, DTypeOK, choice, query, begun
<1>6. ListedAsPrinted'
  <2>1. ~Complete(i)
    BY <1>0 DEF Complete
  <2>2. Ends(i) = Ends(read)
    BY <1>0, <2>1, EndsGrow
  <2> QED BY <1>0, <2>2, OutputSame DEF DInv, ListedAsPrinted
<1>7. QueryOK'
  BY <1>0 DEF DInv, QueryOK, query, choice
<1> QED BY <1>4, <1>5, <1>6, <1>7 DEF DInv

LEMMA BlankStep ==
  ASSUME DInv, ReadBlank
  PROVE  DInv'
<1> DEFINE i == read + 1
<1>0. /\ i \in Nat \ {0} /\ read \in Nat /\ read' = i /\ read' \in 0 .. Len(output)
      /\ output' = output /\ output[i] = Blank
      /\ deviceName' = None /\ deviceLocation' = None
      /\ UNCHANGED <<choice, query, begun>>
  BY LineTaken, OutputsAreLines DEF DInv, ReadBlank
<1>1. Under(Names, deviceName, i) /\ Under(Locations, deviceLocation, i)
  BY DEF DInv, EntryOK
<1>2. Entry(i + 1) = {}
  BY <1>0, EntryGrows
<1>3. EntryOK'
  BY <1>0, <1>2, OutputSame DEF EntryOK, Under
<1>4. DTypeOK'
  <2>1. deviceList' \in Seq(VideoDevice)
    BY DEF DInv, DTypeOK, ReadBlank, VideoDevice
  <2> QED BY <1>0, <2>1 DEF DInv, DTypeOK, choice, query, begun
<1>5. ASSUME Complete(i)
      PROVE  /\ deviceName = LastOf(Names, i) /\ deviceName # None
             /\ deviceLocation = LastOf(Locations, i) /\ deviceLocation # None
  <2>1. PICK j \in Entry(i) : /\ output[j] = deviceName /\ deviceName \in Names
                              /\ \A k \in Entry(i) : output[k] \in Names => k <= j
    BY <1>1, <1>5 DEF Complete, Under
  <2>2. PICK l \in Entry(i) : /\ output[l] = deviceLocation /\ deviceLocation \in Locations
                              /\ \A k \in Entry(i) : output[k] \in Locations => k <= l
    BY <1>1, <1>5 DEF Complete, Under
  <2>3. LastOf(Names, i) = deviceName
    BY <1>0, <2>1, LastLine
  <2>4. LastOf(Locations, i) = deviceLocation
    BY <1>0, <2>2, LastLine
  <2> QED BY <2>1, <2>2, <2>3, <2>4, LinesAssumption
<1>6. ASSUME ~Complete(i) PROVE deviceName = None \/ deviceLocation = None
  BY <1>0, <1>1, <1>6 DEF Complete, Under
<1>7. ListedAsPrinted'
  <2>0. /\ deviceList \in Seq(VideoDevice) /\ Len(deviceList) = Cardinality(Ends(read))
        /\ \A j \in Ends(read) :
             deviceList[Cardinality(Ends(j))] = <<LastOf(Names, j), LastOf(Locations, j)>>
    BY DEF DInv, DTypeOK, ListedAsPrinted
  <2>1. CASE Complete(i)
    <3>1. deviceList' = Append(deviceList, <<deviceName, deviceLocation>>)
      BY <1>5, <2>1 DEF ReadBlank
    <3>2. /\ Ends(i) = Ends(read) \cup {i} /\ i \notin Ends(read) /\ IsFiniteSet(Ends(read))
          /\ \A j \in Ends(read) : Cardinality(Ends(j)) \in 1 .. Cardinality(Ends(read))
      BY <1>0, <2>1, EndsGrow
    <3>3. Cardinality(Ends(i)) = Cardinality(Ends(read)) + 1
      BY <3>2, FS_AddElement
    <3>4. Len(deviceList') = Cardinality(Ends(i))
      BY <2>0, <3>1, <3>3
    <3>5. deviceList'[Cardinality(Ends(i))] = <<LastOf(Names, i), LastOf(Locations, i)>>
      <4>1. deviceList'[Len(deviceList) + 1] = <<deviceName, deviceLocation>>
        BY <2>0, <3>1
      <4> QED BY <1>5, <2>0, <2>1, <3>3, <4>1
    <3>6. ASSUME NEW j \in Ends(read)
          PROVE  deviceList'[Cardinality(Ends(j))] = <<LastOf(Names, j), LastOf(Locations, j)>>
      <4>1. Cardinality(Ends(j)) \in 1 .. Len(deviceList)
        BY <2>0, <3>2
      <4>2. deviceList'[Cardinality(Ends(j))] = deviceList[Cardinality(Ends(j))]
        BY <2>0, <3>1, <4>1
      <4> QED BY <2>0, <4>2
    <3> QED BY <1>0, <3>2, <3>4, <3>5, <3>6, OutputSame DEF ListedAsPrinted
  <2>2. CASE ~Complete(i)
    <3>1. deviceList' = deviceList
      BY <1>6, <2>2 DEF ReadBlank
    <3>2. Ends(i) = Ends(read)
      BY <1>0, <2>2, EndsGrow
    <3> QED BY <1>0, <2>0, <3>1, <3>2, OutputSame DEF ListedAsPrinted
  <2> QED BY <2>1, <2>2
<1>8. QueryOK'
  BY <1>0 DEF DInv, QueryOK, query, choice
<1> QED BY <1>3, <1>4, <1>7, <1>8 DEF DInv

-----------------------------------------------------------------------------
(* The steps after the list has been read. *)
LEMMA SelectionStep ==
  ASSUME DInv, NEW d \in ToSet(deviceList), SelectCamera(d)
  PROVE  DTypeOK' /\ QueryOK'
<1>1. d \in VideoDevice
  BY DEF DInv, DTypeOK, ToSet
<1>2. Name(d) \in Names /\ Location(d) \in Locations
  BY <1>1, DeviceParts
<1>3. selections' \in 0 .. MaxSelections
  BY LimitsAssumption DEF SelectCamera, DInv, DTypeOK
<1>4. Controls[Location(d)] \in Nat /\ PipeLines \in Nat
  BY <1>2, ControlsAssumption, LimitsAssumption
<1>5. UNCHANGED <<output, read, deviceName, deviceLocation, deviceList, settings, stream, starts>>
  BY DEF SelectCamera, list, begun
<1>6. CASE settings[Location(d)] = 0
  <2>1. /\ selection' = "first" /\ v4l2' = "running" /\ printed' = 0 /\ table' = table
        /\ lastUsed' = Name(d) /\ currentDevice' = d
    BY <1>6 DEF SelectCamera, Query
  <2>2. DTypeOK'
    BY <1>1, <1>2, <1>3, <1>4, <1>5, <2>1 DEF DInv, DTypeOK
  <2> QED BY <1>1, <1>4, <2>1, <2>2 DEF QueryOK
<1>7. CASE settings[Location(d)] # 0
  <2>1. /\ selection' = "idle" /\ table' = Location(d) /\ v4l2' = v4l2 /\ printed' = printed
        /\ lastUsed' = Name(d) /\ currentDevice' = d
    BY <1>7 DEF SelectCamera, Query
  <2>2. v4l2 # "running"
    BY DEF DInv, QueryOK, SelectCamera
  <2>3. DTypeOK'
    BY <1>1, <1>2, <1>3, <1>5, <2>1 DEF DInv, DTypeOK
  <2> QED BY <2>1, <2>2, <2>3 DEF QueryOK
<1> QED BY <1>6, <1>7

LEMMA SettingsStep ==
  ASSUME DInv, ReadDeviceSettings
  PROVE  DTypeOK' /\ QueryOK'
<1>1. currentDevice \in VideoDevice /\ printed <= Controls[Location(currentDevice)]
  BY DEF DInv, QueryOK, ReadDeviceSettings
<1>2. Location(currentDevice) \in Locations
  BY <1>1, DeviceParts
<1>3. printed \in Nat /\ PipeLines \in Nat /\ Controls[Location(currentDevice)] \in Nat
  BY <1>2, LimitsAssumption, ControlsAssumption DEF DInv, DTypeOK
<1>4. settings' = [settings EXCEPT ![Location(currentDevice)] = printed]
  BY DEF ReadDeviceSettings
<1>5. /\ settings' \in [Locations -> Nat]
      /\ \A l \in Locations : settings'[l] <= Controls[l]
  BY <1>1, <1>2, <1>3, <1>4 DEF DInv, DTypeOK
<1>6. UNCHANGED <<output, read, deviceName, deviceLocation, deviceList, lastUsed, currentDevice,
                  selections, stream, starts>>
  BY DEF ReadDeviceSettings, list, choice, begun
<1>7. /\ selection' \in {"idle", "second"} /\ v4l2' \in {"running", "ended"}
      /\ printed' \in {0, printed} /\ table' \in {Location(currentDevice), None}
  BY DEF ReadDeviceSettings
<1>8. DTypeOK'
  BY <1>2, <1>3, <1>5, <1>6, <1>7 DEF DInv, DTypeOK
<1>9. v4l2' = "running" => selection' # "idle"
  BY DEF ReadDeviceSettings
<1>10. printed' <= Controls[Location(currentDevice)]
  BY <1>1, <1>3, <1>7
<1> QED BY <1>1, <1>6, <1>8, <1>9, <1>10 DEF QueryOK

LEMMA V4l2Step ==
  ASSUME DInv, V4l2
  PROVE  DTypeOK' /\ QueryOK'
<1>1. currentDevice \in VideoDevice /\ v4l2 = "running"
  BY DEF DInv, QueryOK, V4l2, PrintLine, V4l2Ends
<1>2. Controls[Location(currentDevice)] \in Nat /\ PipeLines \in Nat
  BY <1>1, DeviceParts, ControlsAssumption, LimitsAssumption
<1>3. UNCHANGED <<list, choice, selection, settings, table, begun>>
  BY DEF V4l2, PrintLine, V4l2Ends
<1>4. /\ printed' \in 0 .. PipeLines /\ printed' <= Controls[Location(currentDevice)]
      /\ v4l2' \in {"running", "ended"}
  BY <1>1, <1>2 DEF V4l2, PrintLine, V4l2Ends, DInv, DTypeOK, QueryOK
<1>5. DTypeOK'
  BY <1>3, <1>4 DEF DInv, DTypeOK, list, choice, begun
<1>6. QueryOK'
  BY <1>1, <1>3, <1>4 DEF DInv, QueryOK, choice
<1> QED BY <1>5, <1>6

LEMMA RestartStep ==
  ASSUME DInv, Restart
  PROVE  DInv'
<1>1. /\ output' \in Outputs /\ read' = 0 /\ deviceName' = None /\ deviceLocation' = None
      /\ deviceList' = << >> /\ selection' = "idle" /\ v4l2' = "ended"
  BY DEF Restart
<1>2. DTypeOK'
  <2>1. Len(output') \in Nat /\ PipeLines \in Nat
    BY <1>1, OutputsAssumption, LimitsAssumption
  <2>2. starts' \in 0 .. MaxStarts
    BY LimitsAssumption DEF Restart, DInv, DTypeOK
  <2>3. \A l \in Locations : 0 <= Controls[l]
    BY ControlsAssumption
  <2> QED BY <2>1, <2>2, <2>3 DEF Restart, DInv, DTypeOK
<1>3. Entry(read + 1)' = {} /\ Ends(read)' = {}
  BY <1>1 DEF Entry, Ends
<1>4. EntryOK'
  BY <1>1, <1>3 DEF EntryOK, Under
<1>5. ListedAsPrinted'
  BY <1>1, <1>3, FS_EmptySet DEF ListedAsPrinted
<1> QED BY <1>1, <1>2, <1>4, <1>5 DEF DInv, QueryOK

LEMMA DevicesStep ==
  ASSUME DInv, [DNext]_devices
  PROVE  DInv'
<1>s. ASSUME UNCHANGED list, DTypeOK', QueryOK' PROVE DInv'
  BY <1>s, ListSame DEF DInv
<1>1. CASE ReadEntry
  BY <1>1, EntryStep
<1>2. CASE ReadBlank
  BY <1>2, BlankStep
<1>3. CASE ChooseStream
  <2>1. stream' \in Locations \cup Arguments
    BY <1>3, FoundDevices DEF ChooseStream, DInv
  <2>2. UNCHANGED <<list, choice, query, starts>>
    BY <1>3 DEF ChooseStream
  <2>3. DTypeOK'
    BY <2>1, <2>2 DEF DInv, DTypeOK, list, choice, query
  <2>4. QueryOK'
    BY <2>2 DEF DInv, QueryOK, choice, query
  <2> QED BY <1>s, <2>2, <2>3, <2>4
<1>4. CASE V4l2
  BY <1>s, <1>4, V4l2Step DEF V4l2, PrintLine, V4l2Ends
<1>5. ASSUME NEW d \in ToSet(deviceList), SelectCamera(d) PROVE DInv'
  BY <1>s, <1>5, SelectionStep DEF SelectCamera
<1>6. CASE ReadDeviceSettings
  BY <1>s, <1>6, SettingsStep DEF ReadDeviceSettings
<1>7. CASE Restart
  BY <1>7, RestartStep
<1>8. CASE UNCHANGED devices
  <2>1. UNCHANGED <<list, choice, query, begun>>
    BY <1>8 DEF devices
  <2>2. DTypeOK' /\ QueryOK'
    BY <2>1 DEF DInv, DTypeOK, QueryOK, list, choice, query, begun
  <2> QED BY <1>s, <2>1, <2>2
<1> QED BY <1>1, <1>2, <1>3, <1>4, <1>5, <1>6, <1>7, <1>8 DEF DNext, ListDevices, EventThread

LEMMA DevicesInvariant == DSpec => []DInv
  BY StartTyped, DevicesStep, PTL DEF DSpec

(* Every variable keeps its type, whatever v4l2-ctl prints and however its *)
(* queries fail; no device has more settings than were printed for it.     *)
THEOREM DevicesTypeCorrect == DSpec => []DTypeOK
<1>1. DInv => DTypeOK
  BY DEF DInv
<1> QED BY <1>1, DevicesInvariant, PTL

(* For every output, whole or cut short anywhere: the list of devices is   *)
(* that of the complete entries read so far, in order, each with its own   *)
(* last name and location (VideoDeviceManager.readDevices).                *)
THEOREM DevicesAreAsPrinted == DSpec => []ListedAsPrinted
<1>1. DInv => ListedAsPrinted
  BY DEF DInv
<1> QED BY <1>1, DevicesInvariant, PTL
=============================================================================
