-------------------------- MODULE SerialPort_proof --------------------------
(***************************************************************************)
(* For any number of threads, monitor threads and scripts: a native call   *)
(* that was counted before close() saw IOLocked at 0 has an open           *)
(* descriptor.  The argument: IOLocked is the number of calls between its  *)
(* two updates; one thread at a time is past the synchronized block of     *)
(* close(), and closeLock is set while it is; so a call that was counted   *)
(* in time keeps everybody from getting there until it returns.            *)
(*                                                                         *)
(* And, with one thread that manages the port: between its calls the       *)
(* listener has a monitor thread that serves it, or there is none; no loop *)
(* is left on a closed descriptor; no read loses the flag for data.  The   *)
(* argument: what a thread has on its stack is of the call it is in, in an *)
(* order that a rank of the frames gives; so the manager's stack says how  *)
(* far it is, and for each such place the fields, the frames of the        *)
(* monitor threads and the list of loops agree in one way (Agrees).        *)
(***************************************************************************)
EXTENDS SerialPort, FiniteSetTheorems, TLAPS

Inside  == {"settle", "enter", "native", "reading"}   \* frames of a counted call
Closers == {"shutdown", "nativeClose", "closed"}      \* frames of the closing thread
Special == Inside \cup Closers \cup {"count", "size", "available"}

Counted(s) == s # << >> /\ s[1] \in Inside
Closing(s) == \E i \in 1 .. Len(s) : s[i] \in Closers

(* The frames of one call to input or output stay together on a stack. *)
LinkedAt(s, i) ==
  /\ s[i] = "count" => i < Len(s) /\ s[i+1] \in {"settle", "enter"}
  /\ s[i] \in {"settle", "enter"} => i < Len(s) /\ s[i+1] \in {"native", "reading"}
  /\ s[i] \in {"settle", "enter"} /\ i > 1 => s[i-1] = "count"
  /\ s[i] \in {"native", "reading"} /\ i > 1 => s[i-1] \in {"settle", "enter"}
  /\ s[i] = "size" => i < Len(s) /\ s[i+1] = "count"
  /\ s[i] = "available" => i < Len(s) /\ s[i+1] = "respond"

Linked(s) == \A i \in 1 .. Len(s) : LinkedAt(s, i)

(* A stack closes the port once. *)
Ordered(s) ==
  \A i, j \in 1 .. Len(s) :
    i < j /\ s[i] \in Closers /\ s[j] \in Closers => s[i] = "nativeClose" /\ s[j] = "closed"

Counting == {a \in Actors : Counted(frames[a])}

StacksOK ==
  /\ frames \in [Actors -> Seq(Frame)]
  /\ \A a \in Actors : Linked(frames[a]) /\ Ordered(frames[a])

OneCloser ==
  /\ \A a, b \in Actors : Closing(frames[a]) /\ Closing(frames[b]) => a = b
  /\ \A a \in Actors : Closing(frames[a]) => closeLock

CountsOK == ioLocked = Cardinality(Counting)

DeviceOK ==
  /\ fd \in BOOLEAN /\ closeLock \in BOOLEAN
  /\ fd /\ ~closeLock => device = "open"

InTime ==
  /\ entered \in [Actors -> {"open", "closed"}]
  /\ device \in {"open", "closed"}
  /\ \A a \in Counting \ late :
       /\ fd /\ ~closeLock
       /\ frames[a][1] \in {"native", "reading"} => entered[a] = "open"

ScriptsOK == script \in Scripts /\ calls \in [Threads -> Nat]

IInv == StacksOK /\ OneCloser /\ CountsOK /\ DeviceOK /\ InTime /\ ScriptsOK

-----------------------------------------------------------------------------
(* Stacks: what is left after the head is taken, and what is put before it. *)
LEMMA Suffix ==
  ASSUME NEW s \in Seq(Frame), NEW n \in Nat, n <= Len(s), Linked(s), Ordered(s),
         NEW r \in Seq(Frame), Len(r) = Len(s) - n,
         \A i \in 1 .. Len(r) : r[i] = s[i + n]
  PROVE  Linked(r) /\ Ordered(r) /\ (Closing(r) => Closing(s))
<1>1. Linked(r)
  <2> SUFFICES ASSUME NEW i \in 1 .. Len(r)
               PROVE  LinkedAt(r, i)
    BY DEF Linked
  <2> DEFINE k == i + n
  <2>1. k \in 1 .. Len(s) /\ r[i] = s[k]  OBVIOUS
  <2>2. k < Len(s) => i < Len(r) /\ r[i+1] = s[k+1]
    <3> SUFFICES ASSUME k < Len(s) PROVE i < Len(r) /\ r[i+1] = s[k+1]  OBVIOUS
    <3>1. i + 1 \in 1 .. Len(r) /\ (i + 1) + n = k + 1  OBVIOUS
    <3> QED BY <3>1
  <2>3. i > 1 => k > 1 /\ r[i-1] = s[k-1]
    <3> SUFFICES ASSUME i > 1 PROVE k > 1 /\ r[i-1] = s[k-1]  OBVIOUS
    <3>1. i - 1 \in 1 .. Len(r) /\ (i - 1) + n = k - 1  OBVIOUS
    <3> QED BY <3>1
  <2> HIDE DEF k
  <2> QED BY <2>1, <2>2, <2>3 DEF Linked, LinkedAt
<1>2. Ordered(r)
  <2> SUFFICES ASSUME NEW i \in 1 .. Len(r), NEW j \in 1 .. Len(r),
                      i < j, r[i] \in Closers, r[j] \in Closers
               PROVE  r[i] = "nativeClose" /\ r[j] = "closed"
    BY DEF Ordered
  <2>1. i + n \in 1 .. Len(s) /\ j + n \in 1 .. Len(s) /\ i + n < j + n  OBVIOUS
  <2> QED BY <2>1 DEF Ordered
<1>3. Closing(r) => Closing(s)
  <2> SUFFICES ASSUME NEW i \in 1 .. Len(r), r[i] \in Closers PROVE Closing(s)
    BY DEF Closing
  <2>1. i + n \in 1 .. Len(s) /\ s[i + n] \in Closers  OBVIOUS
  <2> QED BY <2>1 DEF Closing
<1> QED BY <1>1, <1>2, <1>3

LEMMA Pop ==
  ASSUME NEW s \in Seq(Frame), s # << >>, Linked(s), Ordered(s)
  PROVE  /\ Tail(s) \in Seq(Frame) /\ Linked(Tail(s)) /\ Ordered(Tail(s))
         /\ Closing(Tail(s)) => Closing(s)
         /\ s[1] \notin {"count", "settle", "enter"} => ~Counted(Tail(s))
         /\ s[1] = "count" => Counted(Tail(s)) /\ Tail(s)[1] \in {"settle", "enter"}
         /\ s[1] \in {"settle", "enter"} => Counted(Tail(s)) /\ Tail(s)[1] \in {"native", "reading"}
         /\ s[1] \in Closers \ {"nativeClose"} => ~Closing(Tail(s))
<1>1. /\ Tail(s) \in Seq(Frame) /\ Len(s) \in Nat \ {0} /\ Len(Tail(s)) = Len(s) - 1
      /\ \A i \in 1 .. Len(Tail(s)) : Tail(s)[i] = s[i + 1]
  OBVIOUS
<1>2. Linked(Tail(s)) /\ Ordered(Tail(s)) /\ (Closing(Tail(s)) => Closing(s))
  <2>1. 1 \in Nat /\ 1 <= Len(s)  BY <1>1
  <2> QED BY <1>1, <2>1, Suffix
<1>3. s[1] \notin {"count", "settle", "enter"} => ~Counted(Tail(s))
  <2> SUFFICES ASSUME Counted(Tail(s)) PROVE s[1] \in {"count", "settle", "enter"}
    OBVIOUS
  <2>1. 2 \in 1 .. Len(s) /\ s[2] \in Inside  BY <1>1 DEF Counted
  <2> QED BY <2>1 DEF Linked, LinkedAt, Inside
<1>4. s[1] = "count" => Counted(Tail(s)) /\ Tail(s)[1] \in {"settle", "enter"}
  <2> SUFFICES ASSUME s[1] = "count" PROVE Counted(Tail(s)) /\ Tail(s)[1] \in {"settle", "enter"}
    OBVIOUS
  <2>1. 1 < Len(s) /\ s[2] \in {"settle", "enter"}  BY <1>1 DEF Linked, LinkedAt
  <2>2. Tail(s) # << >> /\ Tail(s)[1] = s[2]
    <3>1. 1 \in 1 .. Len(Tail(s)) /\ 1 + 1 = 2  BY <1>1, <2>1
    <3>2. Tail(s)[1] = s[2]  BY <1>1, <3>1
    <3>3. Len(Tail(s)) # 0  BY <1>1, <2>1
    <3>4. Tail(s) # << >>  BY <3>3, Len(<< >>) = 0
    <3> QED BY <3>2, <3>4
  <2> QED BY <2>1, <2>2 DEF Counted, Inside
<1>5. s[1] \in {"settle", "enter"} => Counted(Tail(s)) /\ Tail(s)[1] \in {"native", "reading"}
  <2> SUFFICES ASSUME s[1] \in {"settle", "enter"}
               PROVE  Counted(Tail(s)) /\ Tail(s)[1] \in {"native", "reading"}
    OBVIOUS
  <2>1. 1 < Len(s) /\ s[2] \in {"native", "reading"}  BY <1>1 DEF Linked, LinkedAt
  <2>2. Tail(s) # << >> /\ Tail(s)[1] = s[2]
    <3>1. 1 \in 1 .. Len(Tail(s)) /\ 1 + 1 = 2  BY <1>1, <2>1
    <3>2. Tail(s)[1] = s[2]  BY <1>1, <3>1
    <3>3. Len(Tail(s)) # 0  BY <1>1, <2>1
    <3>4. Tail(s) # << >>  BY <3>3, Len(<< >>) = 0
    <3> QED BY <3>2, <3>4
  <2> QED BY <2>1, <2>2 DEF Counted, Inside
<1>6. s[1] \in Closers \ {"nativeClose"} => ~Closing(Tail(s))
  <2> SUFFICES ASSUME s[1] \in Closers \ {"nativeClose"}, NEW i \in 1 .. Len(Tail(s)),
                      Tail(s)[i] \in Closers
               PROVE  FALSE
    BY DEF Closing
  <2>1. 1 \in 1 .. Len(s) /\ i + 1 \in 1 .. Len(s) /\ 1 < i + 1 /\ s[i + 1] \in Closers  BY <1>1
  <2> QED BY <2>1 DEF Ordered
<1> QED BY <1>1, <1>2, <1>3, <1>4, <1>5, <1>6

LEMMA Push ==
  ASSUME NEW p \in Seq(Frame), Linked(p), Ordered(p),
         NEW r \in Seq(Frame), Linked(r), Ordered(r),
         ~Counted(r), ~Closing(p) \/ ~Closing(r)
  PROVE  /\ p \o r \in Seq(Frame) /\ Linked(p \o r) /\ Ordered(p \o r)
         /\ Closing(p \o r) => Closing(p) \/ Closing(r)
         /\ ~Counted(p) => ~Counted(p \o r)
<1> DEFINE s == p \o r
<1>1. /\ s \in Seq(Frame) /\ Len(p) \in Nat /\ Len(r) \in Nat /\ Len(s) = Len(p) + Len(r)
      /\ \A i \in 1 .. Len(p) : s[i] = p[i]
      /\ \A i \in 1 .. Len(s) : i > Len(p) => i - Len(p) \in 1 .. Len(r) /\ s[i] = r[i - Len(p)]
  OBVIOUS
<1>2. Linked(s)
  <2> SUFFICES ASSUME NEW i \in 1 .. Len(s)
               PROVE  LinkedAt(s, i)
    BY DEF Linked
  <2>1. CASE i <= Len(p)
    <3>1. i \in 1 .. Len(p) /\ s[i] = p[i]  BY <1>1, <2>1
    <3>2. i < Len(p) => i < Len(s) /\ s[i+1] = p[i+1]  BY <1>1, <2>1
    <3>3. i > 1 => s[i-1] = p[i-1]  BY <1>1, <2>1
    <3> HIDE DEF s
    <3> QED BY <3>1, <3>2, <3>3 DEF Linked, LinkedAt
  <2>2. CASE i > Len(p)
    <3> DEFINE j == i - Len(p)
    <3>1. j \in 1 .. Len(r) /\ s[i] = r[j]  BY <1>1, <2>2
    <3>2. j < Len(r) => i < Len(s) /\ s[i+1] = r[j+1]
      <4> SUFFICES ASSUME j < Len(r) PROVE i < Len(s) /\ s[i+1] = r[j+1]  OBVIOUS
      <4>1. i + 1 \in 1 .. Len(s) /\ i + 1 > Len(p) /\ (i + 1) - Len(p) = j + 1  BY <1>1, <2>2
      <4> QED BY <1>1, <4>1
    <3>3. j > 1 => s[i-1] = r[j-1]
      <4> SUFFICES ASSUME j > 1 PROVE s[i-1] = r[j-1]  OBVIOUS
      <4>1. i - 1 \in 1 .. Len(s) /\ i - 1 > Len(p) /\ (i - 1) - Len(p) = j - 1  BY <1>1, <2>2
      <4> QED BY <1>1, <4>1
    <3>4. j = 1 => s[i] \notin Inside  BY <1>1, <3>1 DEF Counted
    <3>5. j = 1 \/ j > 1  BY <3>1
    <3> HIDE DEF s, j
    <3> QED BY <3>1, <3>2, <3>3, <3>4, <3>5 DEF Linked, LinkedAt, Inside
  <2> QED BY <1>1, <2>1, <2>2
<1>3. Ordered(s)
  <2> SUFFICES ASSUME NEW i \in 1 .. Len(s), NEW j \in 1 .. Len(s),
                      i < j, s[i] \in Closers, s[j] \in Closers
               PROVE  s[i] = "nativeClose" /\ s[j] = "closed"
    BY DEF Ordered
  <2>1. CASE j <= Len(p)
    <3>1. i \in 1 .. Len(p) /\ j \in 1 .. Len(p) /\ s[i] = p[i] /\ s[j] = p[j]  BY <1>1, <2>1
    <3> QED BY <3>1 DEF Ordered
  <2>2. CASE i > Len(p)
    <3>1. /\ i - Len(p) \in 1 .. Len(r) /\ j - Len(p) \in 1 .. Len(r)
          /\ i - Len(p) < j - Len(p)
          /\ s[i] = r[i - Len(p)] /\ s[j] = r[j - Len(p)]
      BY <1>1, <2>2
    <3> QED BY <3>1 DEF Ordered
  <2>3. CASE i <= Len(p) /\ j > Len(p)
    <3>1. i \in 1 .. Len(p) /\ p[i] \in Closers  BY <1>1, <2>3
    <3>2. j - Len(p) \in 1 .. Len(r) /\ r[j - Len(p)] \in Closers  BY <1>1, <2>3
    <3> QED BY <3>1, <3>2 DEF Closing
  <2> QED BY <1>1, <2>1, <2>2, <2>3
<1>4. Closing(s) => Closing(p) \/ Closing(r)
  <2> SUFFICES ASSUME NEW i \in 1 .. Len(s), s[i] \in Closers PROVE Closing(p) \/ Closing(r)
    BY DEF Closing
  <2>1. CASE i <= Len(p)
    <3>1. i \in 1 .. Len(p) /\ p[i] \in Closers  BY <1>1, <2>1
    <3> QED BY <3>1 DEF Closing
  <2>2. CASE i > Len(p)
    <3>1. i - Len(p) \in 1 .. Len(r) /\ r[i - Len(p)] \in Closers  BY <1>1, <2>2
    <3> QED BY <3>1 DEF Closing
  <2> QED BY <1>1, <2>1, <2>2
<1>5. ~Counted(p) => ~Counted(s)
  <2> SUFFICES ASSUME ~Counted(p), s # << >> PROVE s[1] \notin Inside
    BY DEF Counted
  <2>1. CASE p = << >>
    <3>1. s = r  BY <2>1
    <3> QED BY <3>1 DEF Counted
  <2>2. CASE p # << >>
    <3>1. s[1] = p[1]  BY <1>1, <2>2
    <3> QED BY <2>2, <3>1 DEF Counted
  <2> QED BY <2>1, <2>2
<1> QED BY <1>1, <1>2, <1>3, <1>4, <1>5

(* Frames that are of no call to input or output and of no closing. *)
LEMMA Plain ==
  ASSUME NEW s \in Seq(Frame), \A i \in 1 .. Len(s) : s[i] \notin Special
  PROVE  Linked(s) /\ Ordered(s) /\ ~Closing(s) /\ ~Counted(s)
<1>1. Linked(s)  BY DEF Linked, LinkedAt, Special, Inside
<1>2. Ordered(s) /\ ~Closing(s)  BY DEF Ordered, Closing, Special
<1>3. ~Counted(s)
  <2>1. s # << >> => 1 \in 1 .. Len(s)  OBVIOUS
  <2> QED BY <2>1 DEF Counted, Special
<1> QED BY <1>1, <1>2, <1>3

-----------------------------------------------------------------------------
(* One actor's stack is replaced; who closes the port does not change, or  *)
(* becomes a.                                                              *)
LEMMA Replace ==
  ASSUME StacksOK, OneCloser, NEW a \in Actors,
         NEW s \in Seq(Frame), Linked(s), Ordered(s), frames' = [frames EXCEPT ![a] = s],
         Closing(s) => closeLock' /\ \A b \in Actors \ {a} : ~Closing(frames[b]),
         \A b \in Actors \ {a} : Closing(frames[b]) => closeLock'
  PROVE  StacksOK' /\ OneCloser'
<1>1. frames' \in [Actors -> Seq(Frame)]  BY DEF StacksOK
<1>2. frames'[a] = s /\ \A b \in Actors \ {a} : frames'[b] = frames[b]  BY DEF StacksOK
<1>3. StacksOK'  BY <1>1, <1>2 DEF StacksOK
<1>4. ASSUME NEW b \in Actors, NEW c \in Actors, Closing(frames'[b]), Closing(frames'[c])
      PROVE  b = c
  BY <1>2, <1>4 DEF OneCloser
<1>5. ASSUME NEW b \in Actors, Closing(frames'[b]) PROVE closeLock'
  BY <1>2, <1>5
<1> QED BY <1>3, <1>4, <1>5 DEF OneCloser

LEMMA CountersAreFinite == IsFiniteSet(Counting)
BY ActorsAssumption, FS_Subset DEF Counting

LEMMA SameCount ==
  ASSUME StacksOK, NEW a \in Actors, NEW s, frames' = [frames EXCEPT ![a] = s],
         Counted(s) <=> Counted(frames[a])
  PROVE  Counting' = Counting
<1>1. frames'[a] = s /\ \A b \in Actors \ {a} : frames'[b] = frames[b]  BY DEF StacksOK
<1>2. \A b \in Actors : Counted(frames'[b]) <=> Counted(frames[b])  BY <1>1
<1> QED BY <1>2 DEF Counting

(* What an outsider leaves alone. *)
Calm == UNCHANGED <<fd, closeLock, device, ioLocked, late, entered, script, calls>>

(* A step of an actor that is not in a counted call, before and after it.  *)
LEMMA Outside ==
  ASSUME IInv, NEW a \in Actors, ~Counted(frames[a]),
         NEW s \in Seq(Frame), Linked(s), Ordered(s), ~Counted(s),
         Closing(s) => Closing(frames[a]),
         frames' = [frames EXCEPT ![a] = s], Calm
  PROVE  IInv'
<1>1. closeLock' = closeLock /\ fd' = fd  BY DEF Calm
<1>2. StacksOK' /\ OneCloser'
  <2>1. Closing(s) => closeLock' /\ \A b \in Actors \ {a} : ~Closing(frames[b])
    BY <1>1 DEF IInv, OneCloser
  <2>2. \A b \in Actors \ {a} : Closing(frames[b]) => closeLock'
    BY <1>1 DEF IInv, OneCloser
  <2> QED BY <2>1, <2>2, Replace DEF IInv
<1>3. Counting' = Counting  BY SameCount DEF IInv
<1>4. CountsOK' /\ DeviceOK' /\ ScriptsOK'
  BY <1>3 DEF Calm, IInv, CountsOK, DeviceOK, ScriptsOK
<1>5. InTime'
  <2>1. \A b \in Counting : frames'[b] = frames[b]  BY DEF Counting, IInv, StacksOK
  <2> QED BY <1>3, <2>1 DEF Calm, IInv, InTime
<1> QED BY <1>2, <1>4, <1>5 DEF IInv

(* A step of an actor that is not in a counted call: a takes the head of   *)
(* its stack and puts p before the rest.                                   *)
LEMMA Quiet ==
  ASSUME IInv, NEW a \in Actors, frames[a] # << >>, frames[a][1] \notin Inside \cup {"count"},
         NEW p \in Seq(Frame), Linked(p), Ordered(p), ~Counted(p),
         Closing(p) => frames[a][1] = "shutdown",
         Goto(a, p), Calm
  PROVE  IInv'
<1> DEFINE f == frames[a]
           r == Tail(f)
           s == p \o r
<1>1. f \in Seq(Frame) /\ Linked(f) /\ Ordered(f)  BY DEF IInv, StacksOK
<1>2. /\ r \in Seq(Frame) /\ Linked(r) /\ Ordered(r) /\ ~Counted(r)
      /\ Closing(r) => Closing(f)
      /\ f[1] = "shutdown" => ~Closing(r)
  BY <1>1, Pop DEF Inside, Closers
<1>3. /\ s \in Seq(Frame) /\ Linked(s) /\ Ordered(s) /\ ~Counted(s)
      /\ Closing(s) => Closing(p) \/ Closing(r)
  BY <1>2, Push
<1>4. frames' = [frames EXCEPT ![a] = s]  BY DEF Goto
<1>5. Closing(s) => Closing(f)
  <2>1. f[1] = "shutdown" => Closing(f)
    <3>1. 1 \in 1 .. Len(f)  BY <1>1
    <3> QED BY <3>1 DEF Closing, Closers
  <2> QED BY <1>2, <1>3, <2>1
<1>6. ~Counted(f)  BY DEF Counted
<1> HIDE DEF s
<1> QED BY <1>3, <1>4, <1>5, <1>6, Outside

(* The same when p is nothing, or plain. *)
LEMMA QuietReturn ==
  ASSUME IInv, NEW a \in Actors, frames[a] # << >>, frames[a][1] \notin Inside \cup {"count"},
         Return(a), Calm
  PROVE  IInv'
<1>1. << >> \in Seq(Frame) /\ \A i \in 1 .. Len(<< >>) : << >>[i] \notin Special  OBVIOUS
<1>2. Linked(<< >>) /\ Ordered(<< >>) /\ ~Closing(<< >>) /\ ~Counted(<< >>)
  BY <1>1, Plain
<1> QED BY <1>1, <1>2, Quiet DEF Return

LEMMA QuietCall ==
  ASSUME IInv, NEW a \in Actors, frames[a] # << >>, frames[a][1] \notin Inside \cup {"count"},
         NEW p \in Seq(Frame), \A i \in 1 .. Len(p) : p[i] \notin Special,
         Goto(a, p), Calm
  PROVE  IInv'
<1>1. Linked(p) /\ Ordered(p) /\ ~Closing(p) /\ ~Counted(p)  BY Plain
<1> QED BY <1>1, Quiet

(* Nothing these stacks show changes. *)
LEMMA Unmoved ==
  ASSUME IInv, frames' = frames, Calm
  PROVE  IInv'
<1>1. Counting' = Counting  BY DEF Counting
<1> QED BY <1>1 DEF Calm, IInv, StacksOK, OneCloser, CountsOK, DeviceOK, InTime, ScriptsOK

-----------------------------------------------------------------------------
(* The stacks that calls to input and output, and the closer, begin with. *)
LEMMA CallStacks ==
  ASSUME NEW p \in { <<"count", "settle", "native">>, <<"count", "enter", "native">>,
                     <<"size", "count", "settle", "reading">>,
                     <<"serialEvent", "available", "respond", "release">> }
  PROVE  p \in Seq(Frame) /\ Linked(p) /\ Ordered(p) /\ ~Closing(p) /\ ~Counted(p)
<1>1. CASE p = <<"count", "settle", "native">>
  BY <1>1 DEF Frame, Linked, LinkedAt, Ordered, Closing, Counted, Inside, Closers
<1>2. CASE p = <<"count", "enter", "native">>
  BY <1>2 DEF Frame, Linked, LinkedAt, Ordered, Closing, Counted, Inside, Closers
<1>3. CASE p = <<"size", "count", "settle", "reading">>
  BY <1>3 DEF Frame, Linked, LinkedAt, Ordered, Closing, Counted, Inside, Closers
<1>4. CASE p = <<"serialEvent", "available", "respond", "release">>
  BY <1>4 DEF Frame, Linked, LinkedAt, Ordered, Closing, Counted, Inside, Closers
<1> QED BY <1>1, <1>2, <1>3, <1>4

LEMMA CloseStacks ==
  ASSUME NEW p \in { <<"shutdown">>, <<"nativeClose", "closed">>,
                     <<"remove", "nativeClose", "closed">> }
  PROVE  p \in Seq(Frame) /\ Linked(p) /\ Ordered(p) /\ ~Counted(p)
<1>1. CASE p = <<"shutdown">>
  BY <1>1 DEF Frame, Linked, LinkedAt, Ordered, Counted, Inside, Closers
<1>2. CASE p = <<"nativeClose", "closed">>
  BY <1>2 DEF Frame, Linked, LinkedAt, Ordered, Counted, Inside, Closers
<1>3. CASE p = <<"remove", "nativeClose", "closed">>
  BY <1>3 DEF Frame, Linked, LinkedAt, Ordered, Counted, Inside, Closers
<1> QED BY <1>1, <1>2, <1>3

LEMMA PlainStacks ==
  ASSUME NEW p \in { <<"flag">>, <<"await">>, <<"stop", "join">>, <<"eventLoop">>, <<"loop">>,
                     <<"sendEvent", "loop">>, <<"read">>, <<"run">>,
                     <<"synchronize", "remove", "close", "release">> }
  PROVE  p \in Seq(Frame) /\ \A i \in 1 .. Len(p) : p[i] \notin Special
<1> USE DEF Frame, Special, Inside, Closers
<1>1. ASSUME NEW f \in Frame \ Special, p = <<f>>
      PROVE  p \in Seq(Frame) /\ \A i \in 1 .. Len(p) : p[i] \notin Special
  BY <1>1
<1>2. ASSUME NEW f \in Frame \ Special, NEW g \in Frame \ Special, p = <<f, g>>
      PROVE  p \in Seq(Frame) /\ \A i \in 1 .. Len(p) : p[i] \notin Special
  BY <1>2
<1>3. CASE p = <<"synchronize", "remove", "close", "release">>
  BY <1>3
<1> QED BY <1>1, <1>2, <1>3

-----------------------------------------------------------------------------
(* The steps of input and output. *)
LEMMA CountStep ==
  ASSUME IInv, NEW a \in Actors, Count(a)
  PROVE  IInv'
<1> DEFINE f == frames[a]
           r == Tail(f)
<1>1. /\ f \in Seq(Frame) /\ Linked(f) /\ Ordered(f) /\ f # << >> /\ f[1] = "count"
      /\ ioLocked' = ioLocked + 1
      /\ late' = IF closeLock \/ ~fd THEN late \cup {a} ELSE late
      /\ UNCHANGED <<fd, closeLock, device, entered, script, calls>>
  BY DEF Count, At, IInv, StacksOK, client, ports
<1>2. /\ r \in Seq(Frame) /\ Linked(r) /\ Ordered(r) /\ Counted(r)
      /\ r[1] \in {"settle", "enter"} /\ (Closing(r) => Closing(f))
  BY <1>1, Pop
<1>3. frames' = [frames EXCEPT ![a] = r]
  <2>1. << >> \o r = r  BY <1>2
  <2> QED BY <2>1 DEF Count, Return, Goto
<1> HIDE DEF r
<1>4. StacksOK' /\ OneCloser'
  <2>1. Closing(r) => closeLock' /\ \A b \in Actors \ {a} : ~Closing(frames[b])
    BY <1>1, <1>2 DEF IInv, OneCloser
  <2>2. \A b \in Actors \ {a} : Closing(frames[b]) => closeLock'
    BY <1>1 DEF IInv, OneCloser
  <2> QED BY <1>2, <1>3, <2>1, <2>2, Replace DEF IInv
<1>5. frames'[a] = r /\ \A b \in Actors \ {a} : frames'[b] = frames[b]
  BY <1>3 DEF IInv, StacksOK
<1>6. a \notin Counting /\ Counting' = Counting \cup {a}
  BY <1>1, <1>2, <1>5 DEF Counting, Counted, Inside
<1>7. CountsOK'
  BY <1>1, <1>6, CountersAreFinite, FS_AddElement DEF IInv, CountsOK
<1>8. InTime'
  <2>1. ASSUME NEW b \in Counting', b \notin late'
        PROVE  /\ fd /\ ~closeLock
               /\ frames'[b][1] \in {"native", "reading"} => entered[b] = "open"
    <3>1. CASE b = a
      BY <1>1, <1>2, <1>5, <2>1, <3>1 DEF IInv, DeviceOK
    <3>2. CASE b # a
      <4>1. b \in Counting \ late /\ frames'[b] = frames[b]
        BY <1>1, <1>5, <1>6, <2>1, <3>2 DEF Counting
      <4> QED BY <4>1 DEF IInv, InTime
    <3> QED BY <3>1, <3>2
  <2> QED BY <1>1, <2>1 DEF IInv, InTime
<1> QED BY <1>1, <1>4, <1>7, <1>8 DEF IInv, DeviceOK, ScriptsOK

LEMMA EnterStep ==
  ASSUME IInv, NEW a \in Actors, Enter(a)
  PROVE  IInv'
<1> DEFINE f == frames[a]
           r == Tail(f)
<1>1. /\ f \in Seq(Frame) /\ Linked(f) /\ Ordered(f) /\ f # << >> /\ f[1] \in {"settle", "enter"}
      /\ entered' = [entered EXCEPT ![a] = IF fd THEN device ELSE "closed"]
      /\ UNCHANGED <<fd, closeLock, device, ioLocked, late, script, calls>>
  BY DEF Enter, At, IInv, StacksOK, client, ports
<1>2. /\ r \in Seq(Frame) /\ Linked(r) /\ Ordered(r) /\ Counted(r)
      /\ (Closing(r) => Closing(f))
  BY <1>1, Pop
<1>3. frames' = [frames EXCEPT ![a] = r]
  <2>1. << >> \o r = r  BY <1>2
  <2> QED BY <2>1 DEF Enter, Return, Goto
<1> HIDE DEF r
<1>4. StacksOK' /\ OneCloser'
  <2>1. Closing(r) => closeLock' /\ \A b \in Actors \ {a} : ~Closing(frames[b])
    BY <1>1, <1>2 DEF IInv, OneCloser
  <2>2. \A b \in Actors \ {a} : Closing(frames[b]) => closeLock'
    BY <1>1 DEF IInv, OneCloser
  <2> QED BY <1>2, <1>3, <2>1, <2>2, Replace DEF IInv
<1>5. \A b \in Actors \ {a} : frames'[b] = frames[b]
  BY <1>3 DEF IInv, StacksOK
<1>6. a \in Counting /\ Counting' = Counting
  <2>1. Counted(f)  BY <1>1 DEF Counted, Inside
  <2> QED BY <1>2, <1>3, <2>1, SameCount DEF IInv, Counting
<1>7. InTime'
  <2>1. entered' \in [Actors -> {"open", "closed"}]  BY <1>1 DEF IInv, InTime
  <2>2. ASSUME NEW b \in Counting', b \notin late'
        PROVE  /\ fd /\ ~closeLock
               /\ frames'[b][1] \in {"native", "reading"} => entered'[b] = "open"
    <3>1. b \in Counting \ late /\ fd /\ ~closeLock
      BY <1>1, <1>6, <2>2 DEF IInv, InTime
    <3>2. CASE b = a
      BY <1>1, <3>1, <3>2 DEF IInv, InTime, DeviceOK
    <3>3. CASE b # a
      BY <1>1, <1>5, <3>1, <3>3 DEF IInv, InTime, Counting
    <3> QED BY <3>1, <3>2, <3>3
  <2> QED BY <1>1, <2>1, <2>2 DEF IInv, InTime
<1> QED BY <1>1, <1>4, <1>6, <1>7 DEF IInv, CountsOK, DeviceOK, ScriptsOK

(* The end of every native call. *)
LEMMA UncountStep ==
  ASSUME IInv, NEW a \in Actors, At(a, "native") \/ At(a, "reading"), Uncount(a),
         UNCHANGED <<fd, closeLock, device, script, calls>>
  PROVE  IInv'
<1> DEFINE f == frames[a]
           r == Tail(f)
<1>1. /\ f \in Seq(Frame) /\ Linked(f) /\ Ordered(f) /\ f # << >> /\ f[1] \in {"native", "reading"}
      /\ ioLocked' = ioLocked - 1 /\ late' = late \ {a}
      /\ entered' = [entered EXCEPT ![a] = "closed"]
  BY DEF Uncount, At, IInv, StacksOK
<1>2. /\ r \in Seq(Frame) /\ Linked(r) /\ Ordered(r) /\ ~Counted(r)
      /\ (Closing(r) => Closing(f))
  BY <1>1, Pop
<1>3. frames' = [frames EXCEPT ![a] = r]
  <2>1. << >> \o r = r  BY <1>2
  <2> QED BY <2>1 DEF Uncount, Return, Goto
<1> HIDE DEF r
<1>4. StacksOK' /\ OneCloser'
  <2>1. Closing(r) => closeLock' /\ \A b \in Actors \ {a} : ~Closing(frames[b])
    BY <1>2 DEF IInv, OneCloser
  <2>2. \A b \in Actors \ {a} : Closing(frames[b]) => closeLock'
    BY DEF IInv, OneCloser
  <2> QED BY <1>2, <1>3, <2>1, <2>2, Replace DEF IInv
<1>5. frames'[a] = r /\ \A b \in Actors \ {a} : frames'[b] = frames[b]
  BY <1>3 DEF IInv, StacksOK
<1>6. a \in Counting /\ Counting' = Counting \ {a}
  BY <1>1, <1>2, <1>5 DEF Counting, Counted, Inside
<1>7. CountsOK'
  BY <1>1, <1>6, CountersAreFinite, FS_RemoveElement DEF IInv, CountsOK
<1>8. InTime'
  <2>1. entered' \in [Actors -> {"open", "closed"}]  BY <1>1 DEF IInv, InTime
  <2>2. ASSUME NEW b \in Counting', b \notin late'
        PROVE  /\ fd /\ ~closeLock
               /\ frames'[b][1] \in {"native", "reading"} => entered'[b] = "open"
    <3>1. b \in Counting \ late /\ b # a /\ frames'[b] = frames[b]
      BY <1>1, <1>5, <1>6, <2>2 DEF Counting
    <3> QED BY <1>1, <3>1 DEF IInv, InTime, Counting
  <2> QED BY <2>1, <2>2 DEF IInv, InTime
<1> QED BY <1>4, <1>7, <1>8 DEF IInv, DeviceOK, ScriptsOK

LEMMA SizeStep ==
  ASSUME IInv, NEW a \in Actors, Size(a)
  PROVE  IInv'
<1> DEFINE f == frames[a]
           r == SubSeq(f, 5, Len(f))
<1>1. f \in Seq(Frame) /\ Linked(f) /\ Ordered(f) /\ f # << >> /\ f[1] = "size" /\ Calm
  BY DEF Size, At, IInv, StacksOK, client, ports, Calm
<1>2. CASE Return(a)
  BY <1>1, <1>2, QuietReturn DEF Inside
<1>3. CASE frames' = [frames EXCEPT ![a] = SubSeq(@, 5, Len(@))]
  <2>1. /\ 3 < Len(f) /\ f[2] = "count" /\ f[3] \in {"settle", "enter"}
        /\ f[4] \in {"native", "reading"}
    <3>1. 1 \in 1 .. Len(f)  BY <1>1
    <3>2. 1 < Len(f) /\ f[2] = "count"  BY <1>1, <3>1 DEF Linked, LinkedAt
    <3>3. 2 \in 1 .. Len(f)  BY <1>1, <3>2
    <3>4. 2 < Len(f) /\ f[3] \in {"settle", "enter"}  BY <1>1, <3>2, <3>3 DEF Linked, LinkedAt
    <3>5. 3 \in 1 .. Len(f)  BY <1>1, <3>4
    <3>6. 3 < Len(f) /\ f[4] \in {"native", "reading"}  BY <1>1, <3>4, <3>5 DEF Linked, LinkedAt
    <3> QED BY <3>2, <3>4, <3>6
  <2>2. /\ Len(f) \in Nat /\ 4 \in Nat /\ 4 <= Len(f)
        /\ r \in Seq(Frame) /\ Len(r) = Len(f) - 4
        /\ \A i \in 1 .. Len(r) : r[i] = f[i + 4]
    BY <1>1, <2>1
  <2>3. Linked(r) /\ Ordered(r) /\ (Closing(r) => Closing(f))
    <3> HIDE DEF f, r
    <3> QED BY <1>1, <2>2, Suffix
  <2>4. ~Counted(r)
    <3> SUFFICES ASSUME Counted(r) PROVE FALSE  OBVIOUS
    <3>1. 1 \in 1 .. Len(r)  BY <2>2 DEF Counted
    <3>2. 5 \in 1 .. Len(f) /\ f[5] \in Inside  BY <2>2, <3>1 DEF Counted
    <3>3. f[4] \in {"count", "settle", "enter"}  BY <1>1, <3>2 DEF Linked, LinkedAt, Inside
    <3> QED BY <2>1, <3>3
  <2>5. frames' = [frames EXCEPT ![a] = r]  BY <1>3
  <2> HIDE DEF r
  <2>6. ~Counted(f)  BY <1>1 DEF Counted, Inside
  <2> QED BY <1>1, <2>2, <2>3, <2>4, <2>5, <2>6, Outside
<1> QED BY <1>2, <1>3 DEF Size

LEMMA AvailableStep ==
  ASSUME IInv, NEW m \in Actors, Available(m)
  PROVE  IInv'
<1> DEFINE f == frames[m]
           r == SubSeq(f, 3, Len(f))
<1>1. f \in Seq(Frame) /\ Linked(f) /\ Ordered(f) /\ f # << >> /\ f[1] = "available" /\ Calm
  BY DEF Available, At, IInv, StacksOK, client, ports, io, Calm
<1>2. CASE Goto(m, <<"count", "enter", "native">>)
  BY <1>1, <1>2, CallStacks, Quiet DEF Inside
<1>3. CASE frames' = [frames EXCEPT ![m] = SubSeq(@, 3, Len(@))]
  <2>1. 1 < Len(f) /\ f[2] = "respond"
    <3>1. 1 \in 1 .. Len(f)  BY <1>1
    <3> QED BY <1>1, <3>1 DEF Linked, LinkedAt
  <2>2. /\ Len(f) \in Nat /\ 2 \in Nat /\ 2 <= Len(f)
        /\ r \in Seq(Frame) /\ Len(r) = Len(f) - 2
        /\ \A i \in 1 .. Len(r) : r[i] = f[i + 2]
    BY <1>1, <2>1
  <2>3. Linked(r) /\ Ordered(r) /\ (Closing(r) => Closing(f))
    <3> HIDE DEF f, r
    <3> QED BY <1>1, <2>2, Suffix
  <2>4. ~Counted(r)
    <3> SUFFICES ASSUME Counted(r) PROVE FALSE  OBVIOUS
    <3>1. 1 \in 1 .. Len(r)  BY <2>2 DEF Counted
    <3>2. 3 \in 1 .. Len(f) /\ f[3] \in Inside  BY <2>2, <3>1 DEF Counted
    <3>3. f[2] \in {"count", "settle", "enter"}  BY <1>1, <3>2 DEF Linked, LinkedAt, Inside
    <3> QED BY <2>1, <3>3
  <2>5. frames' = [frames EXCEPT ![m] = r]  BY <1>3
  <2> HIDE DEF r
  <2>6. ~Counted(f)  BY <1>1 DEF Counted, Inside
  <2> QED BY <1>1, <2>2, <2>3, <2>4, <2>5, <2>6, Outside
<1> QED BY <1>2, <1>3 DEF Available

(* A call to input or output. *)
LEMMA InputOutputStep ==
  ASSUME IInv, NEW a \in Actors, InputOutput(a) \/ ReadFails(a)
  PROVE  IInv'
<1>1. CASE Read(a)
  <2>1. frames[a] # << >> /\ frames[a][1] \notin Inside \cup {"count"} /\ Calm
    BY <1>1 DEF Read, At, Inside, Calm, client, ports, io
  <2>2. CASE Return(a)  BY <2>1, <2>2, QuietReturn
  <2>3. CASE Goto(a, <<"size", "count", "settle", "reading">>)
    BY <2>1, <2>3, CallStacks, Quiet
  <2> QED BY <1>1, <2>2, <2>3 DEF Read
<1>2. CASE Size(a)  BY <1>2, SizeStep
<1>3. CASE Count(a)  BY <1>3, CountStep
<1>4. CASE Enter(a)  BY <1>4, EnterStep
<1>5. CASE NativeEnds(a)
  BY <1>5, UncountStep DEF NativeEnds, client, ports
<1>6. CASE TakeBytes(a)
  <2>1. CASE FinishRead(a)
    BY <1>6, <2>1, UncountStep DEF TakeBytes, FinishRead, client, ports
  <2>2. CASE ~FinishRead(a)
    <3>1. frames' = frames /\ Calm
      BY <1>6, <2>2 DEF TakeBytes, Calm, client, ports
    <3> QED BY <3>1, Unmoved
  <2> QED BY <2>1, <2>2
<1>7. CASE TimesOut(a)
  BY <1>7, UncountStep DEF TimesOut, FinishRead, client, ports
<1>8. CASE ReadFails(a)
  BY <1>8, UncountStep DEF ReadFails, FinishRead, client, ports
<1> QED BY <1>1, <1>2, <1>3, <1>4, <1>5, <1>6, <1>7, <1>8 DEF InputOutput

-----------------------------------------------------------------------------
(* A call begins. *)
LEMMA BeginStep ==
  ASSUME IInv, NEW t \in Threads, Begin(t)
  PROVE  IInv'
<1> DEFINE c == script[t][calls'[t]]
<1>1. /\ script \in [Threads -> Seq(Calls)] /\ calls \in [Threads -> Nat] /\ t \in Actors
      /\ frames[t] = << >> /\ calls[t] < Len(script[t])
      /\ calls' = [calls EXCEPT ![t] = @ + 1] /\ script' = script
      /\ frames' = [frames EXCEPT ![t] = Body(c)]
      /\ UNCHANGED <<fd, closeLock, device, ioLocked, late, entered>>
  BY ScriptsAssumption DEF IInv, ScriptsOK, Begin, Actors, ports, io
<1>2. c \in Calls
  <2>1. script[t] \in Seq(Calls) /\ calls'[t] = calls[t] + 1  BY <1>1
  <2>2. calls'[t] \in 1 .. Len(script[t])  BY <1>1, <2>1
  <2> QED BY <2>1, <2>2
<1> HIDE DEF c
<1>3. Body(c) \in Seq(Frame) /\ \A i \in 1 .. Len(Body(c)) : Body(c)[i] \notin Special
  <2>1. CASE c = "handlerClose"
    BY <2>1, PlainStacks DEF Body
  <2>2. CASE c # "handlerClose"
    <3>1. c \in Frame \ Special
      BY <1>2, <2>2 DEF Calls, Frame, Special, Inside, Closers
    <3> QED BY <2>2, <3>1 DEF Body
  <2> QED BY <2>1, <2>2
<1> DEFINE s == Body(c)
<1>4. Linked(s) /\ Ordered(s) /\ ~Closing(s) /\ ~Counted(s)  BY <1>3, Plain
<1>5. ~Counted(frames[t])  BY <1>1 DEF Counted
<1> HIDE DEF s
<1>6. frames' = [frames EXCEPT ![t] = s] /\ s \in Seq(Frame)  BY <1>1, <1>3 DEF s
<1>7. StacksOK' /\ OneCloser'
  <2>1. \A b \in Actors \ {t} : Closing(frames[b]) => closeLock'
    BY <1>1 DEF IInv, OneCloser
  <2> QED BY <1>1, <1>4, <1>6, <2>1, Replace DEF IInv
<1>8. Counting' = Counting  BY <1>1, <1>4, <1>5, <1>6, SameCount DEF IInv
<1>9. \A b \in Counting : frames'[b] = frames[b]
  BY <1>1, <1>5, <1>6 DEF IInv, StacksOK, Counting
<1>10. ScriptsOK'  BY <1>1 DEF IInv, ScriptsOK
<1> QED BY <1>1, <1>7, <1>8, <1>9, <1>10 DEF IInv, CountsOK, DeviceOK, InTime

(* The listener: nothing of it touches the port's fields. *)
LEMMA AddStep ==
  ASSUME IInv, NEW t \in Threads, AddEventListener(t)
  PROVE  IInv'
<1>1. /\ t \in Actors /\ frames[t] # << >> /\ frames[t][1] \notin Inside \cup {"count"} /\ Calm
  BY DEF AddEventListener, At, Actors, Inside, Calm, client, ports, io
<1>2. CASE Return(t)  BY <1>1, <1>2, QuietReturn
<1>3. ASSUME NEW m \in Monitors, Unused(m),
             frames' = [frames EXCEPT ![t] = <<"await">> \o Tail(@), ![m] = <<"run">>]
      PROVE  IInv'
  <2> DEFINE f == frames[t]
             s == <<"await">> \o Tail(f)
             g == <<"run">>
  <2>1. /\ f \in Seq(Frame) /\ Linked(f) /\ Ordered(f)
        /\ m \in Actors /\ m # t /\ frames[m] = << >>
    BY <1>1, <1>3, ActorsAssumption DEF IInv, StacksOK, Unused, Actors
  <2>2. /\ Tail(f) \in Seq(Frame) /\ Linked(Tail(f)) /\ Ordered(Tail(f)) /\ ~Counted(Tail(f))
        /\ Closing(Tail(f)) => Closing(f)
    BY <1>1, <2>1, Pop DEF Inside
  <2>3. /\ <<"await">> \in Seq(Frame) /\ g \in Seq(Frame)
        /\ Linked(<<"await">>) /\ Ordered(<<"await">>) /\ ~Closing(<<"await">>)
        /\ ~Counted(<<"await">>)
        /\ Linked(g) /\ Ordered(g) /\ ~Closing(g) /\ ~Counted(g)
    BY PlainStacks, Plain
  <2>4. s \in Seq(Frame) /\ Linked(s) /\ Ordered(s) /\ ~Counted(s) /\ (Closing(s) => Closing(f))
    BY <2>2, <2>3, Push
  <2> HIDE DEF s, g
  <2>5. /\ frames' \in [Actors -> Seq(Frame)]
        /\ frames'[t] = s /\ frames'[m] = g
        /\ \A b \in Actors \ {t, m} : frames'[b] = frames[b]
    BY <1>1, <1>3, <2>1, <2>3, <2>4 DEF IInv, StacksOK, s, g
  <2>6. StacksOK'  BY <2>3, <2>4, <2>5 DEF IInv, StacksOK
  <2>7. \A b \in Actors : Closing(frames'[b]) => Closing(frames[b])  BY <2>3, <2>4, <2>5
  <2>8. OneCloser'  BY <1>1, <2>7 DEF IInv, OneCloser, Calm
  <2>9. ~Counted(f) /\ ~Counted(frames[m])  BY <1>1, <2>1 DEF Counted
  <2>10. \A b \in Actors : Counted(frames'[b]) <=> Counted(frames[b])
    BY <2>3, <2>4, <2>5, <2>9
  <2>11. Counting' = Counting /\ \A b \in Counting : frames'[b] = frames[b]
    BY <2>5, <2>9, <2>10 DEF Counting
  <2> QED BY <1>1, <2>6, <2>8, <2>11 DEF IInv, CountsOK, DeviceOK, InTime, ScriptsOK, Calm
<1> QED BY <1>1, <1>2, <1>3 DEF AddEventListener

LEMMA JoinStep ==
  ASSUME IInv, NEW t \in Threads, Join(t)
  PROVE  IInv'
<1>1. /\ t \in Actors /\ frames[t] # << >> /\ frames[t][1] \notin Inside \cup {"count"} /\ Calm
  BY DEF Join, At, Actors, Inside, Calm, client, ports, io
<1>2. CASE Return(t)  BY <1>1, <1>2, QuietReturn
<1>3. CASE frames' = [frames EXCEPT ![t] = << >>]
  <2>1. << >> \in Seq(Frame) /\ \A i \in 1 .. Len(<< >>) : << >>[i] \notin Special  OBVIOUS
  <2>2. Linked(<< >>) /\ Ordered(<< >>) /\ ~Closing(<< >>) /\ ~Counted(<< >>)
    BY <2>1, Plain
  <2>3. ~Counted(frames[t])  BY <1>1 DEF Counted
  <2> QED BY <1>1, <1>3, <2>1, <2>2, <2>3, Outside
<1> QED BY <1>2, <1>3 DEF Join

(* close() gets past its synchronized block only when nobody is counted,   *)
(* and when nobody else has.                                               *)
LEMMA CloseStep ==
  ASSUME IInv, NEW t \in Threads, Close(t)
  PROVE  IInv'
<1> DEFINE f == frames[t]
           p == <<"shutdown">>
           s == p \o Tail(f)
<1>1. /\ t \in Actors /\ f \in Seq(Frame) /\ Linked(f) /\ Ordered(f)
      /\ f # << >> /\ f[1] = "close" /\ ioLocked = 0 /\ closeLock' = TRUE
      /\ UNCHANGED <<fd, device, ioLocked, late, entered, script, calls>>
  BY DEF Close, At, Actors, IInv, StacksOK, client, io
<1>2. CASE closeLock
  <2>1. Return(t) /\ Calm
    BY <1>1, <1>2 DEF Close, IInv, DeviceOK, Calm
  <2> QED BY <1>1, <2>1, QuietReturn DEF Inside
<1>3. CASE ~closeLock
  <2>1. Goto(t, p)  BY <1>3 DEF Close
  <2>2. /\ Tail(f) \in Seq(Frame) /\ Linked(Tail(f)) /\ Ordered(Tail(f)) /\ ~Counted(Tail(f))
        /\ Closing(Tail(f)) => Closing(f)
    BY <1>1, Pop
  <2>3. \A b \in Actors : ~Closing(frames[b])  BY <1>3 DEF IInv, OneCloser
  <2>4. p \in Seq(Frame) /\ Linked(p) /\ Ordered(p) /\ ~Counted(p)  BY CloseStacks
  <2>5. s \in Seq(Frame) /\ Linked(s) /\ Ordered(s) /\ ~Counted(s)
    BY <1>1, <2>2, <2>3, <2>4, Push
  <2>6. frames' = [frames EXCEPT ![t] = s]  BY <2>1 DEF Goto
  <2>7. ~Counted(f)  BY <1>1 DEF Counted, Inside
  <2> HIDE DEF s
  <2>8. StacksOK' /\ OneCloser'
    <3>1. Closing(s) => closeLock' /\ \A b \in Actors \ {t} : ~Closing(frames[b])
      BY <1>1, <2>3
    <3>2. \A b \in Actors \ {t} : Closing(frames[b]) => closeLock'  BY <1>1
    <3> QED BY <1>1, <2>5, <2>6, <3>1, <3>2, Replace DEF IInv
  <2>9. Counting' = Counting  BY <1>1, <2>5, <2>6, <2>7, SameCount DEF IInv
  <2>10. Counting = {}
    BY <1>1, CountersAreFinite, FS_EmptySet DEF IInv, CountsOK
  <2> QED BY <1>1, <2>8, <2>9, <2>10
       DEF IInv, CountsOK, DeviceOK, InTime, ScriptsOK
<1> QED BY <1>2, <1>3

(* While a thread closes, every counted call is late: what it does to the  *)
(* descriptor concerns nobody who was in time.                             *)
LEMMA ClosedStep ==
  ASSUME IInv, NEW t \in Threads, NativeClose(t) \/ Closed(t)
  PROVE  IInv'
<1> DEFINE f == frames[t]
           r == Tail(f)
<1>1. /\ t \in Actors /\ f \in Seq(Frame) /\ Linked(f) /\ Ordered(f)
      /\ f # << >> /\ f[1] \in {"nativeClose", "closed"}
      /\ UNCHANGED <<ioLocked, late, entered, script, calls>>
  BY DEF NativeClose, Closed, At, Actors, IInv, StacksOK, client, io
<1>2. Closing(f)
  <2>1. 1 \in 1 .. Len(f)  BY <1>1
  <2> QED BY <1>1, <2>1 DEF Closing, Closers
<1>3. closeLock /\ \A b \in Actors \ {t} : ~Closing(frames[b])
  BY <1>1, <1>2 DEF IInv, OneCloser
<1>4. Counting \subseteq late  BY <1>3 DEF IInv, InTime
<1>5. /\ r \in Seq(Frame) /\ Linked(r) /\ Ordered(r) /\ ~Counted(r)
      /\ f[1] = "closed" => ~Closing(r)
  BY <1>1, Pop DEF Closers
<1>6. frames' = [frames EXCEPT ![t] = r]
  <2>1. << >> \o r = r  BY <1>5
  <2> QED BY <2>1 DEF NativeClose, Closed, Return, Goto
<1>7. ~Counted(f)  BY <1>1 DEF Counted, Inside
<1>8. /\ device' \in {"open", "closed"}
      /\ fd' \in BOOLEAN /\ closeLock' \in BOOLEAN /\ (fd' => closeLock')
      /\ f[1] # "closed" => closeLock'
  <2>1. CASE NativeClose(t)
    BY <1>3, <2>1 DEF NativeClose, IInv, DeviceOK
  <2>2. CASE Closed(t)
    <3>1. f[1] = "closed"  BY <1>1, <2>2 DEF Closed, At
    <3> QED BY <2>2, <3>1 DEF Closed, IInv, InTime
  <2> QED BY <2>1, <2>2
<1> HIDE DEF r
<1>9. StacksOK' /\ OneCloser'
  <2>1. Closing(r) => closeLock' /\ \A b \in Actors \ {t} : ~Closing(frames[b])
    BY <1>3, <1>5, <1>8
  <2> QED BY <1>1, <1>3, <1>5, <1>6, <2>1, Replace DEF IInv
<1>10. Counting' = Counting  BY <1>1, <1>5, <1>6, <1>7, SameCount DEF IInv
<1> QED BY <1>1, <1>4, <1>8, <1>9, <1>10
     DEF IInv, CountsOK, DeviceOK, InTime, ScriptsOK

LEMMA ClientStep ==
  ASSUME IInv, NEW t \in Threads, Client(t) \/ CloseInterrupted(t)
  PROVE  IInv'
<1> DEFINE Waits == frames[t] # << >> /\ frames[t][1] \notin Inside \cup {"count"} /\ Calm
<1>t. t \in Actors  BY DEF Actors
<1>1. CASE Write(t)
  <2>1. Waits  BY <1>1 DEF Write, At, Inside, Calm, client, ports, io
  <2>2. CASE Return(t)  BY <1>t, <2>1, <2>2, QuietReturn
  <2>3. CASE Goto(t, <<"count", "settle", "native">>)
    BY <1>t, <2>1, <2>3, CallStacks, Quiet
  <2> QED BY <1>1, <2>2, <2>3 DEF Write
<1>2. CASE InputOutput(t)  BY <1>t, <1>2, InputOutputStep
<1>3. CASE Notify(t)
  <2>1. Waits /\ Goto(t, <<"flag">>)
    BY <1>3 DEF Notify, At, Inside, Calm, client, ports, io
  <2> QED BY <1>t, <2>1, PlainStacks, QuietCall
<1>4. CASE AddEventListener(t)  BY <1>4, AddStep
<1>5. CASE RemoveEventListener(t)
  <2>1. Waits  BY <1>5 DEF RemoveEventListener, At, Inside, Calm, client, ports, io
  <2>2. CASE Return(t)  BY <1>t, <2>1, <2>2, QuietReturn
  <2>3. CASE Goto(t, <<"stop", "join">>)  BY <1>t, <2>1, <2>3, PlainStacks, QuietCall
  <2> QED BY <1>5, <2>2, <2>3 DEF RemoveEventListener
<1>6. CASE Join(t)  BY <1>6, JoinStep
<1>7. CASE Close(t)  BY <1>7, CloseStep
<1>8. CASE Shutdown(t)
  <2>1. Waits /\ frames[t][1] = "shutdown"
    BY <1>8 DEF Shutdown, At, Inside, Calm, client, ports, io
  <2>2. CASE Return(t)  BY <1>t, <2>1, <2>2, QuietReturn
  <2>3. CASE Goto(t, <<"nativeClose", "closed">>)  BY <1>t, <2>1, <2>3, CloseStacks, Quiet
  <2>4. CASE Goto(t, <<"remove", "nativeClose", "closed">>)
    BY <1>t, <2>1, <2>4, CloseStacks, Quiet
  <2> QED BY <1>8, <2>2, <2>3, <2>4 DEF Shutdown
<1>9. CASE NativeClose(t) \/ Closed(t)  BY <1>9, ClosedStep
<1>10. CASE \/ SetFlag(t) \/ Await(t) \/ InterruptEventLoop(t)
            \/ CloseInterrupted(t) \/ Synchronize(t) \/ Release(t)
  <2>1. Waits /\ Return(t)
    BY <1>10 DEF SetFlag, Await, InterruptEventLoop, CloseInterrupted, Synchronize, Release,
                 At, Inside, Calm, client, ports, io
  <2> QED BY <1>t, <2>1, QuietReturn
<1> QED BY <1>1, <1>2, <1>3, <1>4, <1>5, <1>6, <1>7, <1>8, <1>9, <1>10 DEF Client

LEMMA MonitorStep ==
  ASSUME IInv, NEW m \in Monitors, Monitor(m)
  PROVE  IInv'
<1> DEFINE Waits == frames[m] # << >> /\ frames[m][1] \notin Inside \cup {"count"} /\ Calm
<1>m. m \in Actors  BY DEF Actors
<1>1. CASE Run(m)
  <2>1. Waits /\ Goto(m, <<"eventLoop">>)  BY <1>1 DEF Run, At, Inside, Calm, client, ports, io
  <2> QED BY <1>m, <2>1, PlainStacks, QuietCall
<1>2. CASE EventLoop(m)
  <2>1. Waits /\ Goto(m, <<"loop">>)  BY <1>2 DEF EventLoop, At, Inside, Calm, client, ports, io
  <2> QED BY <1>m, <2>1, PlainStacks, QuietCall
<1>3. CASE Loop(m)
  <2>1. Waits  BY <1>3 DEF Loop, At, Inside, Calm, client, ports, io
  <2>2. CASE Return(m)  BY <1>m, <2>1, <2>2, QuietReturn
  <2>3. CASE Goto(m, <<"sendEvent", "loop">>)  BY <1>m, <2>1, <2>3, PlainStacks, QuietCall
  <2> QED BY <1>3, <2>2, <2>3 DEF Loop
<1>4. CASE SendEvent(m)
  <2>1. Waits  BY <1>4 DEF SendEvent, At, Inside, Calm, client, ports, io
  <2>2. CASE Return(m)  BY <1>m, <2>1, <2>2, QuietReturn
  <2>3. CASE Goto(m, <<"serialEvent", "available", "respond", "release">>)
    BY <1>m, <2>1, <2>3, CallStacks, Quiet
  <2> QED BY <1>4, <2>2, <2>3 DEF SendEvent
<1>5. CASE Available(m)  BY <1>m, <1>5, AvailableStep
<1>6. CASE Respond(m)
  <2>1. Waits  BY <1>6 DEF Respond, At, Inside, Calm, client, ports, io
  <2>2. CASE Return(m)  BY <1>m, <2>1, <2>2, QuietReturn
  <2>3. CASE Goto(m, <<"read">>)  BY <1>m, <2>1, <2>3, PlainStacks, QuietCall
  <2> QED BY <1>6, <2>2, <2>3 DEF Respond
<1>7. CASE SerialEvent(m) \/ Release(m)
  <2>1. Waits /\ Return(m)
    BY <1>7 DEF SerialEvent, Release, At, Inside, Calm, client, ports, io
  <2> QED BY <1>m, <2>1, QuietReturn
<1>8. CASE InputOutput(m)  BY <1>m, <1>8, InputOutputStep
<1> QED BY <1>1, <1>2, <1>3, <1>4, <1>5, <1>6, <1>7, <1>8 DEF Monitor

LEMMA PortStart == SPInit => IInv
<1> SUFFICES ASSUME SPInit PROVE IInv  OBVIOUS
<1>1. ASSUME NEW a \in Actors
      PROVE  /\ frames[a] \in Seq(Frame)
             /\ Linked(frames[a]) /\ Ordered(frames[a])
             /\ ~Closing(frames[a]) /\ ~Counted(frames[a])
  <2>1. frames[a] \in {<<"loop">>, << >>}  BY DEF SPInit
  <2>2. /\ frames[a] \in Seq(Frame)
        /\ \A i \in 1 .. Len(frames[a]) : frames[a][i] \notin Special
    <3>1. CASE frames[a] = <<"loop">>  BY <3>1, PlainStacks
    <3>2. CASE frames[a] = << >>  BY <3>2
    <3> QED BY <2>1, <3>1, <3>2
  <2> QED BY <2>2, Plain
<1>2. Counting = {}  BY <1>1 DEF Counting
<1>3. frames \in [Actors -> Seq(Frame)]  BY <1>1 DEF SPInit
<1> QED BY <1>1, <1>2, <1>3, FS_EmptySet
     DEF SPInit, IInv, StacksOK, OneCloser, CountsOK, DeviceOK, InTime, ScriptsOK

LEMMA PortInvariant == SPSpec => []IInv
<1>1. ASSUME IInv, [SPNext]_vars PROVE IInv'
  <2>1. CASE Arrive
    <3>1. frames' = frames /\ Calm  BY <2>1 DEF Arrive, Calm, client, ports, io
    <3> QED BY <1>1, <3>1, Unmoved
  <2>2. ASSUME NEW t \in Threads, Begin(t) PROVE IInv'  BY <1>1, <2>2, BeginStep
  <2>3. ASSUME NEW t \in Threads, Client(t) \/ CloseInterrupted(t) PROVE IInv'
    BY <1>1, <2>3, ClientStep
  <2>4. ASSUME NEW m \in Monitors, Monitor(m) PROVE IInv'  BY <1>1, <2>4, MonitorStep
  <2>5. ASSUME NEW a \in Actors, ReadFails(a) PROVE IInv'  BY <1>1, <2>5, InputOutputStep
  <2>6. CASE UNCHANGED vars
    <3>1. frames' = frames /\ Calm  BY <2>6 DEF vars, Calm, client, ports, io
    <3> QED BY <1>1, <3>1, Unmoved
  <2> QED BY <1>1, <2>1, <2>2, <2>3, <2>4, <2>5, <2>6 DEF SPNext
<1> QED BY <1>1, PortStart, PTL DEF SPSpec

(* Whoever calls what and in whichever order: close() never takes the      *)
(* descriptor from a native call that was counted before it saw IOLocked   *)
(* at 0 (RXTXPort.close and the counting in write and read).               *)
THEOREM CountedCallsUseOpenDevice == SPSpec => []UsesOpenDevice
<1>1. IInv => UsesOpenDevice
  <2> SUFFICES ASSUME IInv, NEW a \in Actors, At(a, "native") \/ At(a, "reading"), a \notin late
               PROVE  entered[a] = "open" /\ device = "open"
    BY DEF UsesOpenDevice
  <2>1. a \in Counting /\ frames[a][1] \in {"native", "reading"}
    BY DEF Counting, Counted, Inside, At, IInv, StacksOK
  <2> QED BY <2>1 DEF IInv, InTime, DeviceOK
<1> QED BY <1>1, PortInvariant, PTL

(* At any time one thread at most is past the synchronized block of        *)
(* close(), and closeLock is set while it is.                              *)
THEOREM OneThreadCloses == SPSpec => []OneCloser
<1>1. IInv => OneCloser  BY DEF IInv
<1> QED BY <1>1, PortInvariant, PTL

-----------------------------------------------------------------------------
(* Stacks by rank: what may lie below what.                                *)

(* What may lie below what on a stack: only frames of a higher rank. *)
Rank(f) ==
  IF f \in {"run", "eventLoop", "loop", "notify", "flag", "add", "await", "write"} THEN 16
  ELSE IF f \in {"release", "sendEvent"} THEN 15
  ELSE IF f \in {"respond", "read"} THEN 14
  ELSE IF f \in {"native", "reading", "available"} THEN 13
  ELSE IF f \in {"settle", "enter", "serialEvent"} THEN 12
  ELSE IF f = "count" THEN 11
  ELSE IF f = "size" THEN 10
  ELSE IF f \in {"close", "shutdown"} THEN 8
  ELSE IF f = "closed" THEN 7
  ELSE IF f = "nativeClose" THEN 6
  ELSE IF f = "remove" THEN 4
  ELSE IF f \in {"join", "synchronize"} THEN 3 ELSE 2

ShapedAt(s, i) ==
  /\ s[i] = "size" => i + 3 <= Len(s) /\ s[i+3] = "reading"
  /\ s[i] = "stop" => i < Len(s) /\ s[i+1] = "join"
  /\ s[i] = "synchronize" => i < Len(s) /\ s[i+1] = "remove"

Shaped(s) ==
  /\ \A i, j \in 1 .. Len(s) : i < j => Rank(s[i]) < Rank(s[j])
  /\ \A i \in 1 .. Len(s) : ShapedAt(s, i)

Shapes == \A a \in Actors : Shaped(frames[a])

LastFrame(s) == s[Len(s)]
Looping(s)   == s # << >> /\ LastFrame(s) = "loop"

LEMMA RankType ==
  ASSUME NEW f \in Frame
  PROVE  Rank(f) \in 2 .. 16
BY DEF Rank

LEMMA ShapedRest ==
  ASSUME NEW s \in Seq(Frame), Shaped(s), NEW n \in Nat, n <= Len(s),
         NEW r \in Seq(Frame), Len(r) = Len(s) - n,
         \A i \in 1 .. Len(r) : r[i] = s[i + n]
  PROVE  /\ Shaped(r)
         /\ \A i \in 1 .. Len(r), k \in 1 .. n : Rank(s[k]) < Rank(r[i])
         /\ r # << >> => LastFrame(r) = LastFrame(s)
<1>0. Len(s) \in Nat /\ Len(r) \in Nat
  OBVIOUS
<1>1. ASSUME NEW i \in 1 .. Len(r), NEW j \in 1 .. Len(r), i < j
      PROVE  Rank(r[i]) < Rank(r[j])
  <2>1. i + n \in 1 .. Len(s) /\ j + n \in 1 .. Len(s) /\ i + n < j + n
    BY <1>0, <1>1
  <2>2. Rank(s[i + n]) < Rank(s[j + n])
    BY <2>1 DEF Shaped
  <2> QED BY <2>2
<1>2. ASSUME NEW i \in 1 .. Len(r)
      PROVE  ShapedAt(r, i)
  <2> DEFINE k == i + n
  <2>1. k \in 1 .. Len(s) /\ r[i] = s[k]
    BY <1>0
  <2>2. k < Len(s) => i < Len(r) /\ r[i+1] = s[k+1]
    <3> SUFFICES ASSUME k < Len(s) PROVE i < Len(r) /\ r[i+1] = s[k+1]
      OBVIOUS
    <3>1. i + 1 \in 1 .. Len(r) /\ (i + 1) + n = k + 1
      BY <1>0
    <3> QED BY <3>1
  <2>3. k + 3 <= Len(s) => i + 3 <= Len(r) /\ r[i+3] = s[k+3]
    <3> SUFFICES ASSUME k + 3 <= Len(s) PROVE i + 3 <= Len(r) /\ r[i+3] = s[k+3]
      OBVIOUS
    <3>1. i + 3 \in 1 .. Len(r) /\ (i + 3) + n = k + 3
      BY <1>0
    <3> QED BY <3>1
  <2>4. ShapedAt(s, k)
    BY <2>1 DEF Shaped
  <2> HIDE DEF k
  <2> QED BY <2>1, <2>2, <2>3, <2>4 DEF ShapedAt
<1>3. ASSUME NEW i \in 1 .. Len(r), NEW k \in 1 .. n
      PROVE  Rank(s[k]) < Rank(r[i])
  <2>1. k \in 1 .. Len(s) /\ i + n \in 1 .. Len(s) /\ k < i + n
    BY <1>0
  <2>2. Rank(s[k]) < Rank(s[i + n])
    BY <2>1 DEF Shaped
  <2> QED BY <2>2
<1>4. r # << >> => LastFrame(r) = LastFrame(s)
  <2> SUFFICES ASSUME r # << >> PROVE r[Len(r)] = s[Len(s)]
    BY DEF LastFrame
  <2>1. Len(r) \in 1 .. Len(r) /\ Len(r) + n = Len(s)
    BY <1>0
  <2> QED BY <2>1
<1> QED BY <1>1, <1>2, <1>3, <1>4 DEF Shaped

LEMMA ShapedTail ==
  ASSUME NEW s \in Seq(Frame), s # << >>, Shaped(s)
  PROVE  /\ Tail(s) \in Seq(Frame) /\ Shaped(Tail(s))
         /\ \A i \in 1 .. Len(Tail(s)) :
              Rank(s[1]) < Rank(Tail(s)[i]) /\ \E j \in 1 .. Len(s) : Tail(s)[i] = s[j]
         /\ Tail(s) # << >> => LastFrame(Tail(s)) = LastFrame(s)
         /\ Tail(s) = << >> => LastFrame(s) = s[1]
<1>1. /\ Tail(s) \in Seq(Frame) /\ Len(s) \in Nat \ {0} /\ Len(Tail(s)) = Len(s) - 1
      /\ \A i \in 1 .. Len(Tail(s)) : Tail(s)[i] = s[i + 1]
  OBVIOUS
<1>2. 1 \in Nat /\ 1 <= Len(s) /\ 1 \in 1 .. 1
  BY <1>1
<1>3. /\ Shaped(Tail(s))
      /\ \A i \in 1 .. Len(Tail(s)), k \in 1 .. 1 : Rank(s[k]) < Rank(Tail(s)[i])
      /\ Tail(s) # << >> => LastFrame(Tail(s)) = LastFrame(s)
  BY <1>1, <1>2, ShapedRest
<1>4. \A i \in 1 .. Len(Tail(s)) : i + 1 \in 1 .. Len(s)
  BY <1>1
<1>5. Tail(s) = << >> => LastFrame(s) = s[1]
  <2> SUFFICES ASSUME Tail(s) = << >> PROVE s[Len(s)] = s[1]
    BY DEF LastFrame
  <2>1. Len(Tail(s)) = 0
    BY Len(<< >>) = 0
  <2> QED BY <1>1, <2>1
<1> QED BY <1>1, <1>2, <1>3, <1>4, <1>5

LEMMA ShapedPush ==
  ASSUME NEW p \in Seq(Frame), Shaped(p), NEW r \in Seq(Frame), Shaped(r),
         \A i \in 1 .. Len(p), j \in 1 .. Len(r) : Rank(p[i]) < Rank(r[j])
  PROVE  /\ Shaped(p \o r)
         /\ p # << >> => p \o r # << >> /\ (p \o r)[1] = p[1]
         /\ \A i \in 1 .. Len(p \o r) : \/ \E j \in 1 .. Len(p) : (p \o r)[i] = p[j]
                                       \/ \E j \in 1 .. Len(r) : (p \o r)[i] = r[j]
         /\ r # << >> => p \o r # << >> /\ LastFrame(p \o r) = LastFrame(r)
         /\ r = << >> /\ p # << >> => LastFrame(p \o r) = LastFrame(p)
<1> DEFINE s == p \o r
<1>1. /\ s \in Seq(Frame) /\ Len(p) \in Nat /\ Len(r) \in Nat /\ Len(s) = Len(p) + Len(r)
      /\ \A i \in 1 .. Len(p) : s[i] = p[i]
      /\ \A i \in 1 .. Len(s) : i > Len(p) => i - Len(p) \in 1 .. Len(r) /\ s[i] = r[i - Len(p)]
  OBVIOUS
<1>2. ASSUME NEW i \in 1 .. Len(s), NEW j \in 1 .. Len(s), i < j
      PROVE  Rank(s[i]) < Rank(s[j])
  <2>1. CASE j <= Len(p)
    <3>1. i \in 1 .. Len(p) /\ j \in 1 .. Len(p) /\ s[i] = p[i] /\ s[j] = p[j]
      BY <1>1, <1>2, <2>1
    <3>2. Rank(p[i]) < Rank(p[j])
      BY <1>2, <3>1 DEF Shaped
    <3> QED BY <3>1, <3>2
  <2>2. CASE i > Len(p)
    <3>1. /\ i - Len(p) \in 1 .. Len(r) /\ j - Len(p) \in 1 .. Len(r)
          /\ i - Len(p) < j - Len(p)
          /\ s[i] = r[i - Len(p)] /\ s[j] = r[j - Len(p)]
      BY <1>1, <1>2, <2>2
    <3>2. Rank(r[i - Len(p)]) < Rank(r[j - Len(p)])
      BY <3>1 DEF Shaped
    <3> QED BY <3>1, <3>2
  <2>3. CASE i <= Len(p) /\ j > Len(p)
    <3>1. i \in 1 .. Len(p) /\ s[i] = p[i]
      BY <1>1, <2>3
    <3>2. j - Len(p) \in 1 .. Len(r) /\ s[j] = r[j - Len(p)]
      BY <1>1, <2>3
    <3> QED BY <3>1, <3>2
  <2> QED BY <1>1, <2>1, <2>2, <2>3
<1>3. ASSUME NEW i \in 1 .. Len(s)
      PROVE  ShapedAt(s, i)
  <2>1. CASE i <= Len(p)
    <3>1. i \in 1 .. Len(p) /\ s[i] = p[i]
      BY <1>1, <2>1
    <3>2. i < Len(p) => i < Len(s) /\ s[i+1] = p[i+1]
      BY <1>1, <2>1
    <3>3. i + 3 <= Len(p) => i + 3 <= Len(s) /\ s[i+3] = p[i+3]
      BY <1>1, <2>1
    <3>4. ShapedAt(p, i)
      BY <3>1 DEF Shaped
    <3> HIDE DEF s
    <3> QED BY <3>1, <3>2, <3>3, <3>4 DEF ShapedAt
  <2>2. CASE i > Len(p)
    <3> DEFINE j == i - Len(p)
    <3>1. j \in 1 .. Len(r) /\ s[i] = r[j]
      BY <1>1, <2>2
    <3>2. j < Len(r) => i < Len(s) /\ s[i+1] = r[j+1]
      <4> SUFFICES ASSUME j < Len(r) PROVE i < Len(s) /\ s[i+1] = r[j+1]
        OBVIOUS
      <4>1. i + 1 \in 1 .. Len(s) /\ i + 1 > Len(p) /\ (i + 1) - Len(p) = j + 1
        BY <1>1, <2>2
      <4> QED BY <1>1, <4>1
    <3>3. j + 3 <= Len(r) => i + 3 <= Len(s) /\ s[i+3] = r[j+3]
      <4> SUFFICES ASSUME j + 3 <= Len(r) PROVE i + 3 <= Len(s) /\ s[i+3] = r[j+3]
        OBVIOUS
      <4>1. i + 3 \in 1 .. Len(s) /\ i + 3 > Len(p) /\ (i + 3) - Len(p) = j + 3
        BY <1>1, <2>2
      <4> QED BY <1>1, <4>1
    <3>4. ShapedAt(r, j)
      BY <3>1 DEF Shaped
    <3> HIDE DEF s, j
    <3> QED BY <3>1, <3>2, <3>3, <3>4 DEF ShapedAt
  <2> QED BY <1>1, <2>1, <2>2
<1>4. Shaped(s)
  BY <1>2, <1>3 DEF Shaped
<1>5. p # << >> => s # << >> /\ s[1] = p[1]
  BY <1>1
<1>6. \A i \in 1 .. Len(s) : \/ \E j \in 1 .. Len(p) : s[i] = p[j]
                             \/ \E j \in 1 .. Len(r) : s[i] = r[j]
  <2> SUFFICES ASSUME NEW i \in 1 .. Len(s)
               PROVE  \/ \E j \in 1 .. Len(p) : s[i] = p[j]
                      \/ \E j \in 1 .. Len(r) : s[i] = r[j]
    OBVIOUS
  <2>1. i <= Len(p) \/ i > Len(p)
    BY <1>1
  <2>2. i <= Len(p) => i \in 1 .. Len(p)
    BY <1>1
  <2> HIDE DEF s
  <2> QED BY <1>1, <2>1, <2>2
<1>7. r # << >> => s # << >> /\ s[Len(s)] = r[Len(r)]
  <2> SUFFICES ASSUME r # << >> PROVE s # << >> /\ s[Len(s)] = r[Len(r)]
    OBVIOUS
  <2>1. Len(r) > 0
    OBVIOUS
  <2>2. Len(s) \in 1 .. Len(s) /\ Len(s) > Len(p) /\ Len(s) - Len(p) = Len(r)
    BY <1>1, <2>1
  <2>3. s[Len(s)] = r[Len(r)]
    BY <1>1, <2>2
  <2> QED BY <2>2, <2>3
<1>8. r = << >> /\ p # << >> => s[Len(s)] = p[Len(p)]
  <2> SUFFICES ASSUME r = << >>, p # << >> PROVE s[Len(s)] = p[Len(p)]
    OBVIOUS
  <2>1. s = p
    BY <1>1
  <2> QED BY <2>1
<1> QED BY <1>4, <1>5, <1>6, <1>7, <1>8 DEF LastFrame

LEMMA Between ==
  ASSUME NEW l \in 2 .. 16, NEW m \in 2 .. 16, NEW n \in 2 .. 16, l <= m, m < n
  PROVE  l < n
OBVIOUS

(* a takes the head of its stack and puts p before the rest. *)
LEMMA TopStep ==
  ASSUME StacksOK, Shapes, NEW a \in Actors, frames[a] # << >>,
         NEW p \in Seq(Frame), Shaped(p),
         \A i \in 1 .. Len(p) : Rank(p[i]) <= Rank(frames[a][1]),
         Goto(a, p)
  PROVE  /\ Shapes' /\ \A b \in Actors \ {a} : frames'[b] = frames[b]
         /\ \A i \in 1 .. Len(frames'[a]) :
              \/ \E j \in 1 .. Len(p) : frames'[a][i] = p[j]
              \/ /\ Rank(frames[a][1]) < Rank(frames'[a][i])
                 /\ \E j \in 1 .. Len(frames[a]) : frames'[a][i] = frames[a][j]
         /\ p # << >> => frames'[a] # << >> /\ frames'[a][1] = p[1]
         /\ Looping(frames[a]) /\ frames[a][1] # "loop" => Looping(frames'[a])
<1> DEFINE f == frames[a]
           r == Tail(f)
           s == p \o r
<1>1. f \in Seq(Frame) /\ f # << >> /\ Shaped(f)
  BY DEF StacksOK, Shapes
<1>2. /\ r \in Seq(Frame) /\ Shaped(r)
      /\ \A i \in 1 .. Len(r) : Rank(f[1]) < Rank(r[i]) /\ \E j \in 1 .. Len(f) : r[i] = f[j]
      /\ r # << >> => LastFrame(r) = LastFrame(f)
      /\ r = << >> => LastFrame(f) = f[1]
  BY <1>1, ShapedTail
<1>3. frames' = [frames EXCEPT ![a] = s] /\ \A b \in Actors \ {a} : frames'[b] = frames[b]
  BY DEF Goto, StacksOK
<1>4. frames'[a] = s
  BY <1>3 DEF StacksOK
<1>5. \A i \in 1 .. Len(p), j \in 1 .. Len(r) : Rank(p[i]) < Rank(r[j])
  <2> SUFFICES ASSUME NEW i \in 1 .. Len(p), NEW j \in 1 .. Len(r)
               PROVE  Rank(p[i]) < Rank(r[j])
    OBVIOUS
  <2>1. Rank(p[i]) <= Rank(f[1]) /\ Rank(f[1]) < Rank(r[j])
    BY <1>2
  <2>2. p[i] \in Frame /\ r[j] \in Frame /\ f[1] \in Frame
    BY <1>1, <1>2
  <2>3. Rank(p[i]) \in 2 .. 16 /\ Rank(r[j]) \in 2 .. 16 /\ Rank(f[1]) \in 2 .. 16
    BY <2>2, RankType
  <2> QED BY <2>1, <2>3, Between
<1>6. /\ Shaped(s)
      /\ p # << >> => s # << >> /\ s[1] = p[1]
      /\ \A i \in 1 .. Len(s) : \/ \E j \in 1 .. Len(p) : s[i] = p[j]
                                \/ \E j \in 1 .. Len(r) : s[i] = r[j]
      /\ r # << >> => s # << >> /\ LastFrame(s) = LastFrame(r)
  BY <1>2, <1>5, ShapedPush
<1> HIDE DEF s
<1>7. Shapes'
  BY <1>3, <1>4, <1>6 DEF Shapes
<1>8. ASSUME NEW i \in 1 .. Len(s), NEW j \in 1 .. Len(r), s[i] = r[j]
      PROVE  Rank(f[1]) < Rank(s[i]) /\ \E k \in 1 .. Len(f) : s[i] = f[k]
  BY <1>2, <1>8
<1>9. Looping(f) /\ f[1] # "loop" => Looping(s)
  BY <1>2, <1>6 DEF Looping
<1> QED BY <1>3, <1>4, <1>6, <1>7, <1>8, <1>9

(* a leaves the rest of a call: the first n frames of its stack. *)
LEMMA DropStep ==
  ASSUME StacksOK, Shapes, NEW a \in Actors, NEW n \in 1 .. Len(frames[a]),
         frames' = [frames EXCEPT ![a] = SubSeq(@, n + 1, Len(@))]
  PROVE  /\ Shapes' /\ \A b \in Actors \ {a} : frames'[b] = frames[b]
         /\ \A i \in 1 .. Len(frames'[a]) :
              /\ \A k \in 1 .. n : Rank(frames[a][k]) < Rank(frames'[a][i])
              /\ \E j \in 1 .. Len(frames[a]) : frames'[a][i] = frames[a][j]
         /\ Looping(frames[a]) /\ (\A k \in 1 .. n : frames[a][k] # "loop") => Looping(frames'[a])
<1> DEFINE f == frames[a]
           r == SubSeq(f, n + 1, Len(f))
<1>1. f \in Seq(Frame) /\ Shaped(f) /\ Len(f) \in Nat /\ n \in Nat /\ n <= Len(f)
  BY DEF StacksOK, Shapes
<1>2. /\ r \in Seq(Frame) /\ Len(r) = Len(f) - n
      /\ \A i \in 1 .. Len(r) : r[i] = f[i + n]
  BY <1>1
<1>3. /\ Shaped(r)
      /\ \A i \in 1 .. Len(r), k \in 1 .. n : Rank(f[k]) < Rank(r[i])
      /\ r # << >> => LastFrame(r) = LastFrame(f)
  BY <1>1, <1>2, ShapedRest
<1>4. \A i \in 1 .. Len(r) : \E j \in 1 .. Len(f) : r[i] = f[j]
  <2>1. \A i \in 1 .. Len(r) : i + n \in 1 .. Len(f)
    BY <1>1, <1>2
  <2> QED BY <1>2, <2>1
<1>5. /\ frames'[a] = r /\ \A b \in Actors \ {a} : frames'[b] = frames[b]
  BY DEF StacksOK
<1>6. Looping(f) /\ (\A k \in 1 .. n : f[k] # "loop") => Looping(r)
  <2> SUFFICES ASSUME Looping(f), \A k \in 1 .. n : f[k] # "loop" PROVE Looping(r)
    OBVIOUS
  <2>1. r # << >>
    <3> SUFFICES ASSUME r = << >> PROVE FALSE
      OBVIOUS
    <3>1. Len(r) = 0
      BY Len(<< >>) = 0
    <3>2. Len(f) \in 1 .. n
      BY <1>1, <1>2, <3>1
    <3> QED BY <3>2 DEF Looping, LastFrame
  <2> QED BY <1>3, <2>1 DEF Looping
<1> HIDE DEF r
<1>7. Shapes'
  BY <1>3, <1>5 DEF Shapes
<1> QED BY <1>3, <1>4, <1>5, <1>6, <1>7

LEMMA SameStacks ==
  ASSUME frames' = frames, Shapes
  PROVE  Shapes'
BY DEF Shapes

(* What a frame is replaced by when its step is taken. *)
Expands(f, p) ==
  \/ p = << >>
  \/ f = "write"     /\ p = <<"count", "settle", "native">>
  \/ f = "read"      /\ p = <<"size", "count", "settle", "reading">>
  \/ f = "notify"    /\ p = <<"flag">>
  \/ f = "add"       /\ p = <<"await">>
  \/ f = "remove"    /\ p = <<"stop", "join">>
  \/ f = "close"     /\ p = <<"shutdown">>
  \/ f = "shutdown"  /\ p \in {<<"nativeClose", "closed">>, <<"remove", "nativeClose", "closed">>}
  \/ f = "run"       /\ p = <<"eventLoop">>
  \/ f = "eventLoop" /\ p = <<"loop">>
  \/ f = "loop"      /\ p = <<"sendEvent", "loop">>
  \/ f = "sendEvent" /\ p = <<"serialEvent", "available", "respond", "release">>
  \/ f = "available" /\ p = <<"count", "enter", "native">>
  \/ f = "respond"   /\ p = <<"read">>

(* The frames that the stack of a thread in call k is made of. *)
FramesOf(k) ==
  IF k = "write" THEN {"write", "count", "settle", "native"}
  ELSE IF k = "read" THEN {"read", "size", "count", "settle", "reading"}
  ELSE IF k = "notify" THEN {"notify", "flag"}
  ELSE IF k = "add" THEN {"add", "await"}
  ELSE IF k = "remove" THEN {"remove", "stop", "join"}
  ELSE {"remove", "stop", "join", "close", "shutdown", "nativeClose", "closed"}
       \cup IF k = "close" THEN {} ELSE {"synchronize", "release"}

Within(s, S) == \A i \in 1 .. Len(s) : s[i] \in S

LEMMA ShapedOne ==
  ASSUME NEW f \in Frame \ {"size", "stop", "synchronize"}
  PROVE  <<f>> \in Seq(Frame) /\ Shaped(<<f>>)
BY DEF Shaped, ShapedAt

LEMMA ShapedTwo ==
  ASSUME NEW f \in Frame \ {"size", "synchronize"}, NEW g \in Frame \ {"size", "stop", "synchronize"},
         Rank(f) < Rank(g), f = "stop" => g = "join"
  PROVE  <<f, g>> \in Seq(Frame) /\ Shaped(<<f, g>>)
BY DEF Shaped, ShapedAt

LEMMA ShapedThree ==
  ASSUME NEW f \in Frame \ {"size", "stop", "synchronize"},
         NEW g \in Frame \ {"size", "stop", "synchronize"},
         NEW h \in Frame \ {"size", "stop", "synchronize"},
         Rank(f) < Rank(g), Rank(g) < Rank(h)
  PROVE  <<f, g, h>> \in Seq(Frame) /\ Shaped(<<f, g, h>>)
<1>1. Rank(f) \in 2 .. 16 /\ Rank(g) \in 2 .. 16 /\ Rank(h) \in 2 .. 16
  BY RankType
<1>2. Rank(f) < Rank(h)
  BY <1>1
<1> QED BY <1>2 DEF Shaped, ShapedAt

LEMMA ExpandsShaped ==
  ASSUME NEW f \in Frame, NEW p, Expands(f, p)
  PROVE  p \in Seq(Frame) /\ Shaped(p) /\ \A i \in 1 .. Len(p) : Rank(p[i]) <= Rank(f)
<1> USE DEF Frame, Rank
<1>1. CASE p = << >>
  BY <1>1 DEF Shaped
<1>2. CASE f = "write" /\ p = <<"count", "settle", "native">>
  BY <1>2, ShapedThree
<1>3. CASE f = "read" /\ p = <<"size", "count", "settle", "reading">>
  BY <1>3 DEF Shaped, ShapedAt
<1>4. ASSUME NEW g \in Frame \ {"size", "stop", "synchronize"}, p = <<g>>, Rank(g) <= Rank(f)
      PROVE  p \in Seq(Frame) /\ Shaped(p) /\ \A i \in 1 .. Len(p) : Rank(p[i]) <= Rank(f)
  <2>1. Len(p) = 1 /\ p[1] = g
    BY <1>4
  <2> QED BY <1>4, <2>1, ShapedOne
<1>5. CASE f = "remove" /\ p = <<"stop", "join">>
  BY <1>5, ShapedTwo
<1>6. CASE f = "shutdown" /\ p = <<"nativeClose", "closed">>
  BY <1>6, ShapedTwo
<1>7. CASE f = "shutdown" /\ p = <<"remove", "nativeClose", "closed">>
  BY <1>7, ShapedThree
<1>8. CASE f = "loop" /\ p = <<"sendEvent", "loop">>
  BY <1>8, ShapedTwo
<1>9. CASE f = "sendEvent" /\ p = <<"serialEvent", "available", "respond", "release">>
  BY <1>9 DEF Shaped, ShapedAt
<1>10. CASE f = "available" /\ p = <<"count", "enter", "native">>
  BY <1>10, ShapedThree
<1> QED BY <1>1, <1>2, <1>3, <1>4, <1>5, <1>6, <1>7, <1>8, <1>9, <1>10 DEF Expands

LEMMA ExpandsWithin ==
  ASSUME NEW k \in Calls, NEW f \in FramesOf(k), NEW p, Expands(f, p)
  PROVE  Within(p, FramesOf(k))
<1> USE DEF FramesOf, Within
<1>1. CASE p = << >>
  BY <1>1
<1>2. CASE f = "write" /\ p = <<"count", "settle", "native">>
  BY <1>2
<1>3. CASE f = "read" /\ p = <<"size", "count", "settle", "reading">>
  BY <1>3
<1>4. CASE \/ f = "notify" /\ p = <<"flag">>
           \/ f = "add" /\ p = <<"await">>
           \/ f = "close" /\ p = <<"shutdown">>
  BY <1>4
<1>5. CASE f = "remove" /\ p = <<"stop", "join">>
  BY <1>5
<1>6. CASE f = "shutdown" /\ p = <<"nativeClose", "closed">>
  BY <1>6
<1>7. CASE f = "shutdown" /\ p = <<"remove", "nativeClose", "closed">>
  BY <1>7
<1>8. f \notin {"run", "eventLoop", "loop", "sendEvent", "available", "respond"}
  OBVIOUS
<1> QED BY <1>1, <1>2, <1>3, <1>4, <1>5, <1>6, <1>7, <1>8 DEF Expands

(* A frame that comes to the top of a thread's stack from below.  *)
LEMMA Beneath ==
  ASSUME NEW k \in Calls, NEW f \in FramesOf(k), NEW g \in FramesOf(k), Rank(f) < Rank(g)
  PROVE  /\ g \notin {"await", "flag", "notify", "stop"}
         /\ g = "join" => f = "stop"
         /\ g \in {"nativeClose", "closed"} => f \in {"remove", "stop", "join", "synchronize", "nativeClose"}
BY DEF FramesOf, Rank

-----------------------------------------------------------------------------
(* What a step does to the stack of the actor whose it is.                 *)

(* What an action does to the stack of the actor that takes it. *)
Moves(a) ==
  /\ frames[a] # << >>
  /\ \/ \E p : Expands(frames[a][1], p) /\ Goto(a, p)
     \/ /\ frames[a][1] = "size"
        /\ frames' = [frames EXCEPT ![a] = SubSeq(@, 5, Len(@))]
     \/ /\ frames[a][1] = "available"
        /\ frames' = [frames EXCEPT ![a] = SubSeq(@, 3, Len(@))]
     \/ /\ frames[a][1] = "join"
        /\ frames' = [frames EXCEPT ![a] = << >>]

(* A stack of a read that has not ended. *)
Reads(s) == \E i \in 1 .. Len(s) : s[i] \in {"size", "reading"}

(* A thread that is in a call has only frames of that call. *)
Duty(t) == script[t][calls[t]]
Duties ==
  \A t \in Threads :
    /\ calls[t] <= Len(script[t])
    /\ frames[t] # << >> => calls[t] >= 1 /\ Within(frames[t], FramesOf(Duty(t)))

(* The stack after a step: its frames are those of the expansion, or were  *)
(* in it and have a higher rank than the frame whose step it was.          *)
Moved(a) ==
  LET f == frames[a][1] IN
  /\ \A b \in Actors \ {a} : frames'[b] = frames[b]
  /\ \A i \in 1 .. Len(frames'[a]) :
       \/ \E p : Expands(f, p) /\ \E j \in 1 .. Len(p) : frames'[a][i] = p[j]
       \/ /\ Rank(f) < Rank(frames'[a][i])
          /\ \E j \in 1 .. Len(frames[a]) : frames'[a][i] = frames[a][j]
  /\ frames'[a] # << >> => \/ \E p : Expands(f, p) /\ p # << >> /\ frames'[a][1] = p[1]
                           \/ Rank(f) < Rank(frames'[a][1])
  /\ Looping(frames[a]) /\ f \notin {"loop", "join"} => Looping(frames'[a])
  /\ f = "size" => \/ Goto(a, << >>)
                   \/ \A i \in 1 .. Len(frames'[a]) : Rank("reading") < Rank(frames'[a][i])

LEMMA MovesShape ==
  ASSUME StacksOK, Shapes, NEW a \in Actors, Moves(a)
  PROVE  Shapes' /\ Moved(a)
<1> DEFINE f == frames[a][1]
<1>0. /\ frames[a] \in Seq(Frame) /\ frames[a] # << >> /\ Len(frames[a]) \in Nat
      /\ 1 \in 1 .. Len(frames[a]) /\ f \in Frame /\ Shaped(frames[a]) /\ Linked(frames[a])
  BY DEF StacksOK, Shapes, Moves
<1>1. ASSUME NEW p, Expands(f, p), Goto(a, p)
      PROVE  Shapes' /\ Moved(a)
  <2>1. p \in Seq(Frame) /\ Shaped(p) /\ \A i \in 1 .. Len(p) : Rank(p[i]) <= Rank(f)
    BY <1>0, <1>1, ExpandsShaped
  <2>2. /\ Shapes' /\ \A b \in Actors \ {a} : frames'[b] = frames[b]
        /\ \A i \in 1 .. Len(frames'[a]) :
             \/ \E j \in 1 .. Len(p) : frames'[a][i] = p[j]
             \/ /\ Rank(f) < Rank(frames'[a][i])
                /\ \E j \in 1 .. Len(frames[a]) : frames'[a][i] = frames[a][j]
        /\ p # << >> => frames'[a] # << >> /\ frames'[a][1] = p[1]
        /\ Looping(frames[a]) /\ f # "loop" => Looping(frames'[a])
    BY <1>0, <1>1, <2>1, TopStep
  <2>3. frames'[a] # << >> => 1 \in 1 .. Len(frames'[a])
    <3>1. frames'[a] = p \o Tail(frames[a])
      BY <1>1 DEF Goto, StacksOK
    <3>2. frames'[a] \in Seq(Frame)
      BY <1>0, <2>1, <3>1
    <3> QED BY <3>2
  <2>4. p = << >> => \A j \in 1 .. Len(p) : FALSE
    OBVIOUS
  <2>5. frames'[a] # << >> => \/ p # << >> /\ frames'[a][1] = p[1]
                              \/ Rank(f) < Rank(frames'[a][1])
    BY <2>2, <2>3, <2>4
  <2>6. f = "size" => p = << >>
    BY <1>1 DEF Expands
  <2> QED BY <1>1, <2>2, <2>5, <2>6 DEF Moved
<1>2. CASE f = "size" /\ frames' = [frames EXCEPT ![a] = SubSeq(@, 5, Len(@))]
  <2>1. /\ 4 <= Len(frames[a]) /\ frames[a][4] = "reading"
    BY <1>0, <1>2 DEF Shaped, ShapedAt
  <2>2. 4 \in 1 .. Len(frames[a]) /\ 4 + 1 = 5 /\ 4 \in 1 .. 4 /\ 1 \in 1 .. 4
    BY <1>0, <2>1
  <2>3. /\ Shapes' /\ \A b \in Actors \ {a} : frames'[b] = frames[b]
        /\ \A i \in 1 .. Len(frames'[a]) :
             /\ \A k \in 1 .. 4 : Rank(frames[a][k]) < Rank(frames'[a][i])
             /\ \E j \in 1 .. Len(frames[a]) : frames'[a][i] = frames[a][j]
        /\ Looping(frames[a]) /\ (\A k \in 1 .. 4 : frames[a][k] # "loop") => Looping(frames'[a])
    BY <1>2, <2>2, DropStep
  <2>4. \A k \in 1 .. 4 : frames[a][k] # "loop"
    <3> SUFFICES ASSUME NEW k \in 1 .. 4, frames[a][k] = "loop" PROVE FALSE
      OBVIOUS
    <3>1. k # 4
      BY <2>1
    <3>2. k < 4 /\ k \in 1 .. Len(frames[a])
      BY <1>0, <2>1, <3>1
    <3>3. Rank("loop") < Rank("reading")
      BY <2>1, <2>2, <3>2 DEF Shaped, Shapes
    <3> QED BY <3>3 DEF Rank
  <2>5. frames'[a] # << >> => 1 \in 1 .. Len(frames'[a])
    <3>1. frames'[a] = SubSeq(frames[a], 5, Len(frames[a]))
      BY <1>2 DEF StacksOK
    <3>2. frames'[a] \in Seq(Frame)
      BY <1>0, <3>1
    <3> QED BY <3>2
  <2> QED BY <1>2, <2>1, <2>2, <2>3, <2>4, <2>5 DEF Moved
<1>3. CASE f = "available" /\ frames' = [frames EXCEPT ![a] = SubSeq(@, 3, Len(@))]
  <2>1. 2 <= Len(frames[a]) /\ frames[a][2] = "respond"
    BY <1>0, <1>3 DEF Linked, LinkedAt
  <2>2. 2 \in 1 .. Len(frames[a]) /\ 2 + 1 = 3 /\ 1 \in 1 .. 2
    BY <1>0, <2>1
  <2>3. /\ Shapes' /\ \A b \in Actors \ {a} : frames'[b] = frames[b]
        /\ \A i \in 1 .. Len(frames'[a]) :
             /\ \A k \in 1 .. 2 : Rank(frames[a][k]) < Rank(frames'[a][i])
             /\ \E j \in 1 .. Len(frames[a]) : frames'[a][i] = frames[a][j]
        /\ Looping(frames[a]) /\ (\A k \in 1 .. 2 : frames[a][k] # "loop") => Looping(frames'[a])
    BY <1>3, <2>2, DropStep
  <2>4. \A k \in 1 .. 2 : frames[a][k] # "loop"
    <3>1. \A k \in 1 .. 2 : k = 1 \/ k = 2
      OBVIOUS
    <3> QED BY <1>3, <2>1, <3>1
  <2>5. frames'[a] # << >> => 1 \in 1 .. Len(frames'[a])
    <3>1. frames'[a] = SubSeq(frames[a], 3, Len(frames[a]))
      BY <1>3 DEF StacksOK
    <3>2. frames'[a] \in Seq(Frame)
      BY <1>0, <3>1
    <3> QED BY <3>2
  <2> QED BY <1>3, <2>2, <2>3, <2>4, <2>5 DEF Moved
<1>4. CASE f = "join" /\ frames' = [frames EXCEPT ![a] = << >>]
  <2>1. frames'[a] = << >> /\ \A b \in Actors \ {a} : frames'[b] = frames[b]
    BY <1>4 DEF StacksOK
  <2>2. \A i \in 1 .. Len(frames'[a]) : FALSE
    BY <2>1
  <2>3. Shapes'
    BY <2>1, <2>2 DEF Shapes, Shaped
  <2> QED BY <1>4, <2>1, <2>2, <2>3 DEF Moved
<1> QED BY <1>1, <1>2, <1>3, <1>4 DEF Moves

LEMMA MovesDuty ==
  ASSUME StacksOK, ScriptsOK, Shapes, Duties, NEW a \in Actors, Moves(a), UNCHANGED client
  PROVE  Duties'
<1> SUFFICES ASSUME NEW t \in Threads
             PROVE  /\ calls[t] <= Len(script[t])
                    /\ frames'[t] # << >> => calls[t] >= 1 /\ Within(frames'[t], FramesOf(Duty(t)))
  BY DEF Duties, Duty, client
<1>0. calls[t] <= Len(script[t]) /\ t \in Actors
  BY DEF Duties, Actors
<1>1. CASE t # a
  BY <1>0, <1>1, MovesShape DEF Duties, Moved
<1>2. CASE t = a
  <2>1. frames[a] # << >> /\ calls[a] >= 1 /\ Within(frames[a], FramesOf(Duty(a)))
    BY <1>2 DEF Moves, Duties
  <2>2. Duty(a) \in Calls
    <3>1. script[a] \in Seq(Calls) /\ calls[a] \in Nat
      BY <1>2, ScriptsAssumption DEF ScriptsOK
    <3> QED BY <1>0, <1>2, <2>1, <3>1 DEF Duty
  <2>3. frames[a][1] \in FramesOf(Duty(a))
    <3>1. 1 \in 1 .. Len(frames[a])
      BY <2>1 DEF StacksOK
    <3> QED BY <2>1, <3>1 DEF Within
  <2>4. \A p : Expands(frames[a][1], p) => Within(p, FramesOf(Duty(a)))
    BY <2>2, <2>3, ExpandsWithin
  <2>5. Within(frames'[a], FramesOf(Duty(a)))
    <3> SUFFICES ASSUME NEW i \in 1 .. Len(frames'[a]) PROVE frames'[a][i] \in FramesOf(Duty(a))
      BY DEF Within
    <3>1. \/ \E p : Expands(frames[a][1], p) /\ \E j \in 1 .. Len(p) : frames'[a][i] = p[j]
          \/ \E j \in 1 .. Len(frames[a]) : frames'[a][i] = frames[a][j]
      BY MovesShape DEF Moved
    <3> QED BY <2>1, <2>4, <3>1 DEF Within
  <2> QED BY <1>0, <1>2, <2>1, <2>5
<1> QED BY <1>1, <1>2

LEMMA ReturnMoves ==
  ASSUME NEW a \in Actors, frames[a] # << >>, Return(a)
  PROVE  Moves(a)
BY DEF Moves, Expands, Return

LEMMA GotoMoves ==
  ASSUME NEW a \in Actors, frames[a] # << >>, NEW p, Expands(frames[a][1], p), Goto(a, p)
  PROVE  Moves(a)
BY DEF Moves

(* A monitor thread is started by the thread that adds the listener. *)
Starts(t, m) ==
  /\ frames[t] # << >> /\ frames[t][1] = "add" /\ Unused(m)
  /\ frames' = [frames EXCEPT ![t] = <<"await">> \o Tail(@), ![m] = <<"run">>]

LEMMA InputOutputMoves ==
  ASSUME StacksOK, NEW a \in Actors, InputOutput(a) \/ ReadFails(a)
  PROVE  /\ UNCHANGED client
         /\ frames[a] # << >>
         /\ frames[a][1] \in {"read", "size", "count", "settle", "enter", "native", "reading"}
         /\ Moves(a) \/ frames' = frames
<1>1. CASE Read(a)
  <2>1. /\ UNCHANGED client /\ frames[a] # << >> /\ frames[a][1] = "read"
        /\ Return(a) \/ Goto(a, <<"size", "count", "settle", "reading">>)
    BY <1>1 DEF Read, At
  <2> QED BY <2>1, ReturnMoves, GotoMoves DEF Expands
<1>2. CASE Size(a)
  <2>1. /\ UNCHANGED client /\ frames[a] # << >> /\ frames[a][1] = "size"
        /\ Return(a) \/ frames' = [frames EXCEPT ![a] = SubSeq(@, 5, Len(@))]
    BY <1>2 DEF Size, At
  <2> QED BY <2>1, ReturnMoves DEF Moves
<1>3. CASE Count(a) \/ Enter(a) \/ NativeEnds(a) \/ TimesOut(a) \/ ReadFails(a)
  <2>1. /\ UNCHANGED client /\ frames[a] # << >>
        /\ frames[a][1] \in {"count", "enter", "settle", "native", "reading"}
        /\ Return(a)
    BY <1>3 DEF Count, Enter, NativeEnds, TimesOut, ReadFails, FinishRead, Uncount, At
  <2> QED BY <2>1, ReturnMoves
<1>4. CASE TakeBytes(a)
  <2>1. /\ UNCHANGED client /\ frames[a] # << >> /\ frames[a][1] = "reading"
        /\ Return(a) \/ frames' = frames
    BY <1>4 DEF TakeBytes, FinishRead, Uncount, At
  <2> QED BY <2>1, ReturnMoves
<1> QED BY <1>1, <1>2, <1>3, <1>4 DEF InputOutput

LEMMA ClientMoves ==
  ASSUME StacksOK, NEW t \in Threads, Client(t) \/ CloseInterrupted(t)
  PROVE  /\ UNCHANGED client
         /\ Moves(t) \/ frames' = frames \/ \E m \in Monitors : Starts(t, m)
<1>t. t \in Actors
  BY DEF Actors
<1>1. CASE Write(t)
  <2>1. /\ UNCHANGED client /\ frames[t] # << >> /\ frames[t][1] = "write"
        /\ Return(t) \/ Goto(t, <<"count", "settle", "native">>)
    BY <1>1 DEF Write, At
  <2> QED BY <1>t, <2>1, ReturnMoves, GotoMoves DEF Expands
<1>2. CASE InputOutput(t)
  BY <1>t, <1>2, InputOutputMoves
<1>3. CASE Notify(t)
  <2>1. /\ UNCHANGED client /\ frames[t] # << >> /\ frames[t][1] = "notify"
        /\ Goto(t, <<"flag">>)
    BY <1>3 DEF Notify, At
  <2> QED BY <1>t, <2>1, GotoMoves DEF Expands
<1>4. CASE AddEventListener(t)
  <2>1. /\ UNCHANGED client /\ frames[t] # << >> /\ frames[t][1] = "add"
        /\ \/ Return(t)
           \/ \E m \in Monitors : Starts(t, m)
    BY <1>4 DEF AddEventListener, At, Starts
  <2> QED BY <1>t, <2>1, ReturnMoves
<1>5. CASE RemoveEventListener(t)
  <2>1. /\ UNCHANGED client /\ frames[t] # << >> /\ frames[t][1] = "remove"
        /\ Return(t) \/ Goto(t, <<"stop", "join">>)
    BY <1>5 DEF RemoveEventListener, At
  <2> QED BY <1>t, <2>1, ReturnMoves, GotoMoves DEF Expands
<1>6. CASE Join(t)
  <2>1. /\ UNCHANGED client /\ frames[t] # << >> /\ frames[t][1] = "join"
        /\ Return(t) \/ frames' = [frames EXCEPT ![t] = << >>]
    BY <1>6 DEF Join, At
  <2> QED BY <1>t, <2>1, ReturnMoves DEF Moves
<1>7. CASE Close(t)
  <2>1. /\ UNCHANGED client /\ frames[t] # << >> /\ frames[t][1] = "close"
        /\ Return(t) \/ Goto(t, <<"shutdown">>)
    BY <1>7 DEF Close, At
  <2> QED BY <1>t, <2>1, ReturnMoves, GotoMoves DEF Expands
<1>8. CASE Shutdown(t)
  <2>1. /\ UNCHANGED client /\ frames[t] # << >> /\ frames[t][1] = "shutdown"
        /\ \/ Return(t)
           \/ Goto(t, <<"nativeClose", "closed">>)
           \/ Goto(t, <<"remove", "nativeClose", "closed">>)
    BY <1>8 DEF Shutdown, At
  <2> QED BY <1>t, <2>1, ReturnMoves, GotoMoves DEF Expands
<1>9. CASE \/ SetFlag(t) \/ Await(t) \/ InterruptEventLoop(t) \/ NativeClose(t) \/ Closed(t)
           \/ CloseInterrupted(t) \/ Synchronize(t) \/ Release(t)
  <2>1. UNCHANGED client /\ frames[t] # << >> /\ Return(t)
    BY <1>9 DEF SetFlag, Await, InterruptEventLoop, NativeClose, Closed,
                CloseInterrupted, Synchronize, Release, At
  <2> QED BY <1>t, <2>1, ReturnMoves
<1> QED BY <1>1, <1>2, <1>3, <1>4, <1>5, <1>6, <1>7, <1>8, <1>9 DEF Client

LEMMA MonitorMoves ==
  ASSUME StacksOK, NEW m \in Monitors, Monitor(m)
  PROVE  /\ UNCHANGED client
         /\ frames[m] # << >> /\ frames[m][1] # "join"
         /\ Moves(m) \/ frames' = frames
<1>m. m \in Actors
  BY DEF Actors
<1>1. CASE Run(m)
  <2>1. /\ UNCHANGED client /\ frames[m] # << >> /\ frames[m][1] = "run"
        /\ Goto(m, <<"eventLoop">>)
    BY <1>1 DEF Run, At
  <2> QED BY <1>m, <2>1, GotoMoves DEF Expands
<1>2. CASE EventLoop(m)
  <2>1. /\ UNCHANGED client /\ frames[m] # << >> /\ frames[m][1] = "eventLoop"
        /\ Goto(m, <<"loop">>)
    BY <1>2 DEF EventLoop, At
  <2> QED BY <1>m, <2>1, GotoMoves DEF Expands
<1>3. CASE Loop(m)
  <2>1. /\ UNCHANGED client /\ frames[m] # << >> /\ frames[m][1] = "loop"
        /\ Return(m) \/ Goto(m, <<"sendEvent", "loop">>)
    BY <1>3 DEF Loop, At
  <2> QED BY <1>m, <2>1, ReturnMoves, GotoMoves DEF Expands
<1>4. CASE SendEvent(m)
  <2>1. /\ UNCHANGED client /\ frames[m] # << >> /\ frames[m][1] = "sendEvent"
        /\ Return(m) \/ Goto(m, <<"serialEvent", "available", "respond", "release">>)
    BY <1>4 DEF SendEvent, At
  <2> QED BY <1>m, <2>1, ReturnMoves, GotoMoves DEF Expands
<1>5. CASE Available(m)
  <2>1. /\ UNCHANGED client /\ frames[m] # << >> /\ frames[m][1] = "available"
        /\ \/ Goto(m, <<"count", "enter", "native">>)
           \/ frames' = [frames EXCEPT ![m] = SubSeq(@, 3, Len(@))]
    BY <1>5 DEF Available, At
  <2> QED BY <1>m, <2>1, GotoMoves DEF Expands, Moves
<1>6. CASE Respond(m)
  <2>1. /\ UNCHANGED client /\ frames[m] # << >> /\ frames[m][1] = "respond"
        /\ Return(m) \/ Goto(m, <<"read">>)
    BY <1>6 DEF Respond, At
  <2> QED BY <1>m, <2>1, ReturnMoves, GotoMoves DEF Expands
<1>7. CASE SerialEvent(m) \/ Release(m)
  <2>1. /\ UNCHANGED client /\ frames[m] # << >> /\ frames[m][1] \in {"serialEvent", "release"}
        /\ Return(m)
    BY <1>7 DEF SerialEvent, Release, At
  <2> QED BY <1>m, <2>1, ReturnMoves
<1>8. CASE InputOutput(m)
  BY <1>m, <1>8, InputOutputMoves
<1> QED BY <1>1, <1>2, <1>3, <1>4, <1>5, <1>6, <1>7, <1>8 DEF Monitor

(* The call of a thread begins with frames of that call. *)
LEMMA BeginShape ==
  ASSUME StacksOK, ScriptsOK, Shapes, Duties, NEW t \in Threads, Begin(t)
  PROVE  /\ Shapes' /\ Duties'
         /\ \A b \in Actors \ {t} : frames'[b] = frames[b]
         /\ calls' = [calls EXCEPT ![t] = calls[t] + 1] /\ script' = script
         /\ calls[t] + 1 \in 1 .. Len(script[t])
         /\ frames'[t] = Body(script[t][calls[t] + 1])
         /\ frames'[t] # << >> /\ ~Reads(frames'[t])
         /\ frames'[t][1] \in Calls \cup {"synchronize"}
         /\ frames'[t][1] \in Calls => frames'[t][1] = script[t][calls[t] + 1]
<1> DEFINE c == script[t][calls[t] + 1]
<1>1. /\ script \in [Threads -> Seq(Calls)] /\ calls \in [Threads -> Nat] /\ t \in Actors
      /\ frames[t] = << >> /\ calls[t] < Len(script[t]) /\ script' = script
      /\ calls' = [calls EXCEPT ![t] = calls[t] + 1]
      /\ frames' = [frames EXCEPT ![t] = Body(script[t][calls'[t]])]
  BY ScriptsAssumption DEF ScriptsOK, Begin, Actors
<1>2. calls'[t] = calls[t] + 1 /\ \A u \in Threads \ {t} : calls'[u] = calls[u]
  BY <1>1
<1>3. script[t] \in Seq(Calls) /\ Len(script[t]) \in Nat /\ calls[t] + 1 \in 1 .. Len(script[t])
  BY <1>1
<1>4. c \in Calls
  BY <1>3
<1>5. frames'[t] = Body(c) /\ \A b \in Actors \ {t} : frames'[b] = frames[b]
  BY <1>1, <1>2 DEF StacksOK
<1> HIDE DEF c
<1>6. /\ Shaped(Body(c)) /\ Within(Body(c), FramesOf(c)) /\ Body(c) # << >> /\ ~Reads(Body(c))
      /\ Body(c)[1] \in Calls \cup {"synchronize"} /\ (Body(c)[1] \in Calls => Body(c)[1] = c)
  <2>1. CASE c = "handlerClose"
    BY <2>1 DEF Body, Shaped, ShapedAt, Rank, Within, FramesOf, Calls, Reads
  <2>2. CASE c # "handlerClose"
    <3>1. Body(c) = <<c>> /\ c \in Frame \ {"size", "stop", "synchronize"}
      BY <1>4, <2>2 DEF Body, Calls, Frame
    <3>2. c \in FramesOf(c)
      BY <1>4, <2>2 DEF Calls, FramesOf
    <3>3. ~Reads(<<c>>)
      BY <1>4 DEF Reads, Calls
    <3> QED BY <1>4, <3>1, <3>2, <3>3, ShapedOne DEF Within
  <2> QED BY <2>1, <2>2
<1>7. Shapes'
  BY <1>5, <1>6 DEF Shapes
<1>8. Duties'
  <2> SUFFICES ASSUME NEW u \in Threads
               PROVE  /\ calls'[u] <= Len(script[u])
                      /\ frames'[u] # << >> =>
                           /\ calls'[u] >= 1
                           /\ Within(frames'[u], FramesOf(script[u][calls'[u]]))
    BY <1>1 DEF Duties, Duty
  <2>1. CASE u = t
    BY <1>2, <1>3, <1>5, <1>6, <2>1 DEF c
  <2>2. CASE u # t
    BY <1>2, <1>5, <2>2 DEF Duties, Duty, Actors
  <2> QED BY <2>1, <2>2
<1> QED BY <1>1, <1>3, <1>5, <1>6, <1>7, <1>8 DEF c

(* Under a frame of the highest rank there is nothing. *)
LEMMA AloneOnStack ==
  ASSUME NEW f \in Seq(Frame), Shaped(f), f # << >>, Rank(f[1]) = 16
  PROVE  /\ Len(f) = 1 /\ Tail(f) = << >> /\ LastFrame(f) = f[1]
         /\ \A p \in Seq(Frame) : p \o Tail(f) = p
<1>0. Tail(f) \in Seq(Frame) /\ Len(f) \in Nat \ {0} /\ Len(Tail(f)) = Len(f) - 1
  OBVIOUS
<1>1. \A i \in 1 .. Len(Tail(f)) : Rank(f[1]) < Rank(Tail(f)[i]) /\ Tail(f)[i] \in Frame
  BY <1>0, ShapedTail
<1>2. \A i \in 1 .. Len(Tail(f)) : FALSE
  <2> SUFFICES ASSUME NEW i \in 1 .. Len(Tail(f)) PROVE FALSE
    OBVIOUS
  <2>1. Rank(Tail(f)[i]) \in 2 .. 16 /\ 16 < Rank(Tail(f)[i])
    BY <1>1, RankType
  <2> QED BY <2>1
<1>t. Tail(f) \in Seq(Frame)
  BY <1>0
<1>3. Tail(f) = << >>
  BY <1>t, <1>2
<1>4. Len(f) = 1
  <2>1. Len(Tail(f)) = 0
    BY <1>3, Len(<< >>) = 0
  <2>2. Len(f) \in Nat /\ Len(Tail(f)) = Len(f) - 1
    BY <1>0
  <2> QED BY <2>1, <2>2
<1>5. \A p \in Seq(Frame) : p \o << >> = p
  OBVIOUS
<1> QED BY <1>3, <1>4, <1>5 DEF LastFrame

LEMMA StartsShape ==
  ASSUME StacksOK, ScriptsOK, Shapes, Duties, NEW t \in Threads, NEW m \in Monitors, Starts(t, m),
         UNCHANGED client
  PROVE  /\ Shapes' /\ Duties' /\ frames[m] = << >>
         /\ \A b \in Actors \ {t, m} : frames'[b] = frames[b]
         /\ frames'[t] # << >> /\ frames'[t][1] = "await" /\ frames'[m] = <<"run">>
         /\ ~Reads(frames'[t])
<1> DEFINE f == frames[t]
           s == <<"await">> \o Tail(f)
<1>1. /\ t \in Actors /\ m \in Actors /\ m # t /\ frames[m] = << >>
      /\ f \in Seq(Frame) /\ f # << >> /\ f[1] = "add" /\ Shaped(f) /\ Len(f) \in Nat
  BY ActorsAssumption DEF StacksOK, Starts, Unused, Actors, Shapes
<1>2. /\ frames'[t] = s /\ frames'[m] = <<"run">>
      /\ \A b \in Actors \ {t, m} : frames'[b] = frames[b]
  BY <1>1 DEF Starts, StacksOK
<1>4. s = <<"await">>
  BY <1>1, AloneOnStack, ShapedOne DEF Frame, Rank
<1>5. Shapes'
  <2>1. Shaped(<<"await">>) /\ Shaped(<<"run">>)
    BY ShapedOne DEF Frame
  <2> QED BY <1>1, <1>2, <1>4, <2>1 DEF Shapes
<1>6. Duties'
  <2> SUFFICES ASSUME NEW u \in Threads
               PROVE  /\ calls[u] <= Len(script[u])
                      /\ frames'[u] # << >> => calls[u] >= 1 /\ Within(frames'[u], FramesOf(Duty(u)))
    BY DEF Duties, Duty, client
  <2>1. CASE u # t
    <3>1. u \in Actors \ {t, m}
      BY <2>1, ActorsAssumption DEF Actors
    <3> QED BY <1>2, <3>1 DEF Duties
  <2>2. CASE u = t
    <3>1. calls[t] <= Len(script[t]) /\ calls[t] >= 1 /\ Within(f, FramesOf(Duty(t)))
      BY <1>1 DEF Duties
    <3>2. "add" \in FramesOf(Duty(t))
      BY <1>1, <3>1 DEF Within
    <3>3. "await" \in FramesOf(Duty(t))
      BY <3>2 DEF FramesOf
    <3> QED BY <1>2, <1>4, <2>2, <3>1, <3>3 DEF Within
  <2> QED BY <2>1, <2>2
<1> QED BY <1>1, <1>2, <1>4, <1>5, <1>6 DEF Reads

-----------------------------------------------------------------------------
(* master_index lists the threads that are in their loop, each once.       *)

(* master_index lists a monitor thread once, while it is in its loop. *)
LoopsOK ==
  /\ loops \in Seq(Monitors)
  /\ \A i \in 1 .. Len(loops) : Looping(frames[loops[i]])
  /\ \A i, j \in 1 .. Len(loops) : loops[i] = loops[j] => i = j

LEMMA Concatenated ==
  ASSUME NEW p \in Seq(Monitors), NEW r \in Seq(Monitors)
  PROVE  /\ p \o r \in Seq(Monitors) /\ Len(p \o r) = Len(p) + Len(r)
         /\ \A k \in 1 .. Len(p) + Len(r) :
              (p \o r)[k] = IF k <= Len(p) THEN p[k] ELSE r[k - Len(p)]
OBVIOUS

LEMMA Removed ==
  ASSUME NEW s \in Seq(Monitors), NEW i \in 1 .. Len(s)
  PROVE  /\ RemoveAt(s, i) \in Seq(Monitors)
         /\ Len(RemoveAt(s, i)) = Len(s) - 1
         /\ \A k \in 1 .. Len(s) - 1 : RemoveAt(s, i)[k] = s[IF k < i THEN k ELSE k + 1]
<1>1. RemoveAt(s, i) = SubSeq(s, 1, i - 1) \o SubSeq(s, i + 1, Len(s))
  BY DEF RemoveAt
<1>2. Len(s) \in Nat /\ i \in Nat /\ i >= 1 /\ i <= Len(s)
  OBVIOUS
<1>3. /\ SubSeq(s, 1, i - 1) \in Seq(Monitors) /\ Len(SubSeq(s, 1, i - 1)) = i - 1
      /\ \A k \in 1 .. i - 1 : SubSeq(s, 1, i - 1)[k] = s[k]
  BY <1>2
<1>4. /\ SubSeq(s, i + 1, Len(s)) \in Seq(Monitors) /\ Len(SubSeq(s, i + 1, Len(s))) = Len(s) - i
      /\ \A k \in 1 .. Len(s) - i : SubSeq(s, i + 1, Len(s))[k] = s[k + i]
  BY <1>2
<1> DEFINE p == SubSeq(s, 1, i - 1)
           r == SubSeq(s, i + 1, Len(s))
<1> HIDE DEF p, r
<1>a. p \in Seq(Monitors) /\ Len(p) = i - 1 /\ r \in Seq(Monitors) /\ Len(r) = Len(s) - i
  BY <1>3, <1>4 DEF p, r
<1>5. /\ p \o r \in Seq(Monitors) /\ Len(p \o r) = Len(p) + Len(r)
      /\ \A k \in 1 .. Len(p) + Len(r) : (p \o r)[k] = IF k <= Len(p) THEN p[k] ELSE r[k - Len(p)]
  BY <1>a, Concatenated
<1>6. ASSUME NEW k \in 1 .. Len(s) - 1
      PROVE  (p \o r)[k] = s[IF k < i THEN k ELSE k + 1]
  <2>1. k \in 1 .. Len(p) + Len(r)
    BY <1>2, <1>a
  <2>2. CASE k < i
    <3>1. k <= Len(p) /\ k \in 1 .. i - 1
      BY <1>2, <1>3, <2>2 DEF p
    <3> QED BY <1>3, <1>5, <2>1, <2>2, <3>1 DEF p
  <2>3. CASE ~(k < i)
    <3>1. ~(k <= Len(p)) /\ k - Len(p) \in 1 .. Len(s) - i /\ (k - Len(p)) + i = k + 1
      BY <1>2, <1>3, <2>3 DEF p
    <3>2. r[k - Len(p)] = s[k + 1]
      BY <1>4, <3>1 DEF r
    <3> QED BY <1>5, <2>1, <2>3, <3>1, <3>2
  <2> QED BY <2>2, <2>3
<1>7. Len(p \o r) = Len(s) - 1
  BY <1>2, <1>a, <1>5
<1> QED BY <1>1, <1>5, <1>6, <1>7 DEF p, r

LEMMA KeepLoops ==
  ASSUME LoopsOK, loops' = loops, \A m \in Monitors : Looping(frames[m]) => Looping(frames'[m])
  PROVE  LoopsOK'
<1>1. \A i \in 1 .. Len(loops) : loops[i] \in Monitors
  BY DEF LoopsOK
<1> QED BY <1>1 DEF LoopsOK

LEMMA EventLoopListed ==
  ASSUME StacksOK, Shapes, LoopsOK, NEW m \in Monitors, EventLoop(m)
  PROVE  LoopsOK' /\ frames'[m] = <<"loop">> /\ frames[m] # << >> /\ ~Looping(frames[m])
<1>1. /\ m \in Actors /\ frames[m] \in Seq(Frame) /\ Shaped(frames[m])
      /\ frames[m] # << >> /\ frames[m][1] = "eventLoop"
      /\ frames' = [frames EXCEPT ![m] = <<"loop">> \o Tail(frames[m])]
      /\ loops' = Append(loops, m)
  BY DEF EventLoop, At, Actors, StacksOK, Shapes, Goto
<1>2. /\ LastFrame(frames[m]) = "eventLoop"
      /\ \A p \in Seq(Frame) : p \o Tail(frames[m]) = p
  BY <1>1, AloneOnStack DEF Rank
<1>3. frames'[m] = <<"loop">> /\ \A b \in Actors \ {m} : frames'[b] = frames[b]
  <2>1. <<"loop">> \in Seq(Frame)
    BY DEF Frame
  <2>2. frames' = [frames EXCEPT ![m] = <<"loop">>]
    BY <1>1, <1>2, <2>1
  <2> QED BY <1>1, <2>2 DEF StacksOK
<1>4. Looping(frames'[m])
  BY <1>3 DEF Looping, LastFrame
<1>5. ~Looping(frames[m])
  BY <1>2 DEF Looping
<1>6. \A i \in 1 .. Len(loops) : loops[i] \in Monitors /\ loops[i] # m
  BY <1>5 DEF LoopsOK
<1>7. /\ loops' \in Seq(Monitors) /\ Len(loops) \in Nat /\ Len(loops') = Len(loops) + 1
      /\ loops'[Len(loops) + 1] = m /\ \A i \in 1 .. Len(loops) : loops'[i] = loops[i]
  BY <1>1 DEF LoopsOK
<1>8. \A i \in 1 .. Len(loops') : i \in 1 .. Len(loops) \/ i = Len(loops) + 1
  BY <1>7
<1>9. \A i \in 1 .. Len(loops') : Looping(frames'[loops'[i]])
  BY <1>3, <1>4, <1>6, <1>7, <1>8 DEF LoopsOK, Actors
<1>10. \A i, j \in 1 .. Len(loops') : loops'[i] = loops'[j] => i = j
  BY <1>6, <1>7, <1>8 DEF LoopsOK
<1> QED BY <1>1, <1>3, <1>5, <1>7, <1>9, <1>10 DEF LoopsOK

LEMMA LoopUnlisted ==
  ASSUME StacksOK, Shapes, LoopsOK, NEW m \in Monitors, Loop(m)
  PROVE  LoopsOK'
<1>1. /\ m \in Actors /\ frames[m] \in Seq(Frame) /\ Shaped(frames[m])
      /\ frames[m] # << >> /\ frames[m][1] = "loop"
  BY DEF Loop, At, Actors, StacksOK, Shapes
<1>2. \A p \in Seq(Frame) : p \o Tail(frames[m]) = p
  BY <1>1, AloneOnStack DEF Rank
<1>3. CASE Goto(m, <<"sendEvent", "loop">>) /\ loops' = loops
  <2>1. frames' = [frames EXCEPT ![m] = <<"sendEvent", "loop">> \o Tail(frames[m])]
    BY <1>3 DEF Goto
  <2>2. <<"sendEvent", "loop">> \in Seq(Frame)
    BY DEF Frame
  <2>3. /\ frames'[m] = <<"sendEvent", "loop">>
        /\ \A b \in Actors \ {m} : frames'[b] = frames[b]
    BY <1>1, <1>2, <2>1, <2>2 DEF StacksOK
  <2>4. Looping(frames'[m])
    BY <2>3 DEF Looping, LastFrame
  <2> QED BY <1>3, <2>3, <2>4, KeepLoops DEF Actors
<1>4. ASSUME NEW i \in 1 .. Len(loops), loops[i] = m, loops' = RemoveAt(loops, i), Return(m)
      PROVE  LoopsOK'
  <2>1. \A b \in Actors \ {m} : frames'[b] = frames[b]
    BY <1>4 DEF Return, Goto, StacksOK
  <2>2. /\ loops' \in Seq(Monitors) /\ Len(loops') = Len(loops) - 1 /\ Len(loops) \in Nat
        /\ \A k \in 1 .. Len(loops) - 1 : loops'[k] = loops[IF k < i THEN k ELSE k + 1]
    BY <1>4, Removed DEF LoopsOK
  <2> DEFINE Old(k) == IF k < i THEN k ELSE k + 1
  <2>3. \A k \in 1 .. Len(loops') : Old(k) \in 1 .. Len(loops) /\ Old(k) # i
    BY <2>2
  <2>4. \A k, l \in 1 .. Len(loops') : Old(k) = Old(l) => k = l
    BY <2>2
  <2>5. \A k \in 1 .. Len(loops') : loops'[k] = loops[Old(k)]
    BY <2>2
  <2> HIDE DEF Old
  <2>6. \A k \in 1 .. Len(loops') : loops'[k] \in Monitors /\ loops'[k] # m /\ Looping(frames[loops'[k]])
    BY <1>4, <2>3, <2>5 DEF LoopsOK
  <2>7. \A k \in 1 .. Len(loops') : Looping(frames'[loops'[k]])
    BY <2>1, <2>6 DEF Actors
  <2>8. \A k, l \in 1 .. Len(loops') : loops'[k] = loops'[l] => k = l
    BY <2>3, <2>4, <2>5 DEF LoopsOK
  <2> QED BY <2>2, <2>7, <2>8 DEF LoopsOK
<1> QED BY <1>3, <1>4 DEF Loop

-----------------------------------------------------------------------------
(* One thread at a time reads, and the loop whose flag it has cleared.     *)

(* Who reads has the monitor of the input stream, and the flag of a loop   *)
(* is borrowed just while somebody does.                                   *)
ReadersOK == \A a \in Actors : Reads(frames[a]) => stream = a

BorrowOK ==
  /\ borrowed # None <=> \E a \in Actors : At(a, "reading")
  /\ borrowed = None => got = 0

LEMMA ExpandsReads ==
  ASSUME NEW f, NEW p, Expands(f, p), NEW j \in 1 .. Len(p), p[j] \in {"size", "reading"}
  PROVE  f = "read"
<1>1. ~(f = "write" /\ p = <<"count", "settle", "native">>)
  OBVIOUS
<1>2. p # << >>
  OBVIOUS
<1>3. /\ ~(f = "sendEvent" /\ p = <<"serialEvent", "available", "respond", "release">>)
      /\ ~(f = "available" /\ p = <<"count", "enter", "native">>)
  OBVIOUS
<1>4. /\ ~(f = "shutdown" /\ p = <<"nativeClose", "closed">>)
      /\ ~(f = "shutdown" /\ p = <<"remove", "nativeClose", "closed">>)
      /\ ~(f = "remove" /\ p = <<"stop", "join">>)
      /\ ~(f = "loop" /\ p = <<"sendEvent", "loop">>)
  OBVIOUS
<1>5. \A g : g \notin {"size", "reading"} => p # <<g>>
  OBVIOUS
<1> QED BY <1>1, <1>2, <1>3, <1>4, <1>5 DEF Expands

LEMMA ExpandsFirst ==
  ASSUME NEW f, NEW p, Expands(f, p), p # << >>
  PROVE  p[1] # "reading"
BY DEF Expands

LEMMA MovesReading ==
  ASSUME StacksOK, StacksOK', Shapes, NEW a \in Actors, Moves(a)
  PROVE  /\ Reads(frames'[a]) =>
              \/ frames[a][1] = "read"
              \/ /\ Reads(frames[a]) /\ Rank(frames[a][1]) < 13
                 /\ frames[a][1] = "size" => Goto(a, << >>)
         /\ At(a, "reading")' => frames[a][1] \in {"settle", "enter"}
<1> DEFINE f == frames[a][1]
<1>0. /\ frames[a] \in Seq(Frame) /\ frames[a] # << >> /\ Linked(frames[a]) /\ Ordered(frames[a])
      /\ Shaped(frames[a]) /\ Len(frames[a]) \in Nat /\ f \in Frame /\ frames'[a] \in Seq(Frame)
  BY DEF StacksOK, Shapes, Moves
<1>m. Moved(a)
  BY MovesShape
<1>1. ASSUME Reads(frames'[a])
      PROVE  \/ f = "read"
             \/ Reads(frames[a]) /\ Rank(f) < 13 /\ (f = "size" => Goto(a, << >>))
  <2>1. PICK i \in 1 .. Len(frames'[a]) : frames'[a][i] \in {"size", "reading"}
    BY <1>1 DEF Reads
  <2>2. CASE \E p : Expands(f, p) /\ \E j \in 1 .. Len(p) : frames'[a][i] = p[j]
    BY <2>1, <2>2, ExpandsReads
  <2>3. CASE /\ Rank(f) < Rank(frames'[a][i])
             /\ \E j \in 1 .. Len(frames[a]) : frames'[a][i] = frames[a][j]
    <3>1. Reads(frames[a])
      BY <2>1, <2>3 DEF Reads
    <3>2. Rank(frames'[a][i]) <= 13 /\ Rank(frames'[a][i]) \in 2 .. 16 /\ Rank("reading") = 13
      BY <2>1 DEF Rank
    <3>3. Rank(f) \in 2 .. 16
      BY <1>0, RankType
    <3>4. Rank(f) < 13
      BY <2>3, <3>2, <3>3
    <3>5. ~(Rank("reading") < Rank(frames'[a][i]))
      BY <3>2
    <3>6. f = "size" => Goto(a, << >>)
      BY <1>m, <3>5 DEF Moved
    <3> QED BY <3>1, <3>4, <3>6
  <2> QED BY <1>m, <2>1, <2>2, <2>3 DEF Moved
<1>2. ASSUME frames'[a] # << >>, frames'[a][1] = "reading"
      PROVE  f \in {"settle", "enter"}
  <2>1. ASSUME NEW p, Expands(f, p), Goto(a, p) PROVE f \in {"settle", "enter"}
    <3>1. frames'[a] = p \o Tail(frames[a]) /\ p \in Seq(Frame) /\ Tail(frames[a]) \in Seq(Frame)
      BY <1>0, <2>1, ExpandsShaped DEF Goto, StacksOK
    <3>2. CASE p = << >>
      <4>1. frames'[a] = Tail(frames[a])
        BY <3>1, <3>2
      <4>2. /\ f \notin {"count", "settle", "enter"} => ~Counted(Tail(frames[a]))
            /\ f = "count" => Tail(frames[a])[1] \in {"settle", "enter"}
        BY <1>0, Pop
      <4>3. Counted(Tail(frames[a])) /\ Tail(frames[a])[1] = "reading"
        BY <1>2, <4>1 DEF Counted, Inside
      <4> QED BY <4>2, <4>3
    <3>3. CASE p # << >>
      <4>1. (p \o Tail(frames[a]))[1] = p[1]
        BY <3>1, <3>3
      <4> QED BY <1>2, <2>1, <3>1, <3>3, <4>1, ExpandsFirst
    <3> QED BY <3>2, <3>3
  <2>2. CASE f = "size" /\ frames' = [frames EXCEPT ![a] = SubSeq(@, 5, Len(@))]
    <3>1. ~(Rank("reading") < Rank(frames'[a][1])) /\ 1 \in 1 .. Len(frames'[a])
      BY <1>0, <1>2 DEF Rank
    <3>2. Goto(a, << >>)
      BY <1>m, <2>2, <3>1 DEF Moved
    <3> QED BY <2>1, <3>2 DEF Expands
  <2>3. CASE f = "available" /\ frames' = [frames EXCEPT ![a] = SubSeq(@, 3, Len(@))]
    <3>1. frames'[a] = SubSeq(frames[a], 3, Len(frames[a]))
      BY <2>3 DEF StacksOK
    <3>2. 3 <= Len(frames[a]) /\ frames'[a][1] = frames[a][3]
      <4>1. Len(frames'[a]) > 0
        BY <1>0, <1>2
      <4> QED BY <1>0, <3>1, <4>1
    <3>3. 3 \in 1 .. Len(frames[a]) /\ 1 \in 1 .. Len(frames[a]) /\ 3 > 1 /\ 3 - 1 = 2 /\ 1 + 1 = 2
      BY <1>0, <3>2
    <3>4. frames[a][2] \in {"settle", "enter"}
      BY <1>0, <1>2, <3>2, <3>3 DEF Linked, LinkedAt
    <3>5. frames[a][2] = "respond"
      BY <1>0, <2>3, <3>3 DEF Linked, LinkedAt
    <3> QED BY <3>4, <3>5
  <2>4. CASE f = "join" /\ frames' = [frames EXCEPT ![a] = << >>]
    BY <1>2, <2>4 DEF StacksOK
  <2> QED BY <2>1, <2>2, <2>3, <2>4 DEF Moves
<1>3. At(a, "reading")' => frames'[a] # << >> /\ frames'[a][1] = "reading"
  BY <1>0 DEF At
<1> QED BY <1>1, <1>2, <1>3

(* A step that neither begins nor ends a read. *)
LEMMA NoReading ==
  ASSUME StacksOK, StacksOK', Shapes, ReadersOK, BorrowOK, NEW a \in Actors, Moves(a),
         frames[a][1] \notin {"read", "settle", "enter", "reading"},
         UNCHANGED <<got, borrowed>>,
         stream' = stream \/ stream \in {a, None},
         (/\ Reads(frames[a]) /\ Rank(frames[a][1]) < 13
          /\ frames[a][1] = "size" => Goto(a, << >>)) => stream' = a
  PROVE  ReadersOK' /\ BorrowOK'
<1>1. \A b \in Actors \ {a} : frames'[b] = frames[b]
  BY MovesShape DEF Moved
<1>2. ASSUME NEW b \in Actors, Reads(frames'[b]) PROVE stream' = b
  <2>1. CASE b = a
    BY <1>2, <2>1, MovesReading
  <2>2. CASE b # a
    BY <1>1, <1>2, <2>2, ActorsAssumption DEF ReadersOK
  <2> QED BY <2>1, <2>2
<1>3. ~At(a, "reading") /\ ~At(a, "reading")'
  <2>1. At(a, "reading") => frames[a][1] = "reading"
    BY DEF At, StacksOK
  <2> QED BY <2>1, MovesReading
<1>4. \A b \in Actors : At(b, "reading")' <=> At(b, "reading")
  BY <1>1, <1>3 DEF At
<1> QED BY <1>2, <1>4 DEF ReadersOK, BorrowOK

-----------------------------------------------------------------------------
(* The types of the variables.                                             *)

(* The parts of the type invariant. *)
TypedFlags ==
  /\ isInterrupted \in BOOLEAN /\ alive \in BOOLEAN /\ threadLock \in BOOLEAN
  /\ listener \in BOOLEAN /\ saved \in BOOLEAN /\ gaveUp \in BOOLEAN /\ overlap \in BOOLEAN
TypedOwners ==
  /\ timeout \in Timeouts /\ threshold \in Thresholds
  /\ handler \in Actors \cup {None} /\ stream \in Actors \cup {None} /\ late \subseteq Actors
  /\ monThread \in Monitors \cup {None} /\ data \subseteq Monitors
TypedLoops ==
  /\ closing \subseteq Monitors /\ flags \subseteq Monitors
  /\ eis \in Monitors /\ borrowed \in Monitors \cup {None}
TypedBytes ==
  /\ pending \in 0 .. MaxPending /\ interrupts \in 0 .. MaxInterrupts
  /\ wanted \in 0 .. Length /\ got \in 0 .. wanted

Typed == TypedFlags /\ TypedOwners /\ TypedLoops /\ TypedBytes

(* What an actor may do, its frames aside. *)
ReadsOn(a)   == Enter(a) \/ TakeBytes(a) \/ TimesOut(a) \/ ReadFails(a)
Manages(a)   == \/ Notify(a) \/ SetFlag(a) \/ AddEventListener(a) \/ Await(a)
                \/ RemoveEventListener(a) \/ Join(a)
Moveable(a)  == \/ Begin(a) \/ Write(a) \/ Read(a) \/ Size(a) \/ Count(a) \/ NativeEnds(a)
                \/ InterruptEventLoop(a) \/ Close(a) \/ CloseInterrupted(a) \/ Shutdown(a)
                \/ NativeClose(a) \/ Closed(a) \/ Synchronize(a) \/ Release(a)
                \/ Loop(a) \/ SendEvent(a) \/ SerialEvent(a) \/ Available(a) \/ Respond(a)
Listens(m)   == Run(m) \/ EventLoop(m)
Step ==
  \/ Arrive
  \/ \E a \in Actors : ReadsOn(a) \/ Manages(a) \/ Moveable(a)
  \/ \E m \in Monitors : Listens(m)

LEMMA NextIsStep == SPNext => Step
BY DEF SPNext, Step, ReadsOn, Manages, Moveable, Listens, Client, Monitor, InputOutput, Actors

LEMMA FlagsStep ==
  ASSUME TypedFlags, Step
  PROVE  TypedFlags'
<1>1. CASE Arrive
  BY <1>1 DEF Arrive, TypedFlags, fields, io, read, past
<1>2. ASSUME NEW a \in Actors, ReadsOn(a) PROVE TypedFlags'
  <2>1. UNCHANGED <<fields, past>>
    BY <1>2 DEF ReadsOn, Enter, TakeBytes, TimesOut, ReadFails, FinishRead
  <2>2. saved' \in BOOLEAN
    <3>1. CASE Enter(a)
      <4>1. saved' = saved \/ saved' = (eis \in flags)
        BY <3>1 DEF Enter
      <4>2. (eis \in flags) \in BOOLEAN
        OBVIOUS
      <4>3. saved \in BOOLEAN
        BY DEF TypedFlags
      <4> QED BY <4>1, <4>2, <4>3, Zenon
    <3>2. CASE TakeBytes(a) \/ TimesOut(a) \/ ReadFails(a)
      BY <3>2 DEF TakeBytes, TimesOut, ReadFails, FinishRead, TypedFlags
    <3> QED BY <1>2, <3>1, <3>2 DEF ReadsOn
  <2> QED BY <2>1, <2>2 DEF TypedFlags, fields, past
<1>3. ASSUME NEW a \in Actors, Manages(a) PROVE TypedFlags'
  <2>1. saved' = saved
    BY <1>3 DEF Manages, Notify, SetFlag, AddEventListener, Await, RemoveEventListener, Join,
                io, read
  <2>2. gaveUp' \in BOOLEAN /\ overlap' \in BOOLEAN
    BY <1>3 DEF Manages, Notify, SetFlag, AddEventListener, Await, RemoveEventListener, Join,
                TypedFlags, past
  <2>3. isInterrupted' \in BOOLEAN /\ alive' \in BOOLEAN /\ threadLock' \in BOOLEAN /\ listener' \in BOOLEAN
    <3>1. CASE Notify(a) \/ SetFlag(a) \/ AddEventListener(a) \/ Await(a)
      BY <3>1 DEF Notify, SetFlag, AddEventListener, Await, TypedFlags, fields
    <3>2. CASE RemoveEventListener(a) \/ Join(a)
      BY <3>2 DEF RemoveEventListener, Join, Forgotten, TypedFlags, fields
    <3> QED BY <1>3, <3>1, <3>2 DEF Manages
  <2> QED BY <2>1, <2>2, <2>3 DEF TypedFlags
<1>4. ASSUME NEW a \in Actors, Moveable(a) PROVE TypedFlags'
  <2>1. UNCHANGED <<fields, saved, gaveUp, overlap>>
    BY <1>4 DEF Moveable, Begin, Write, Read, Size, Count, NativeEnds, Uncount,
                InterruptEventLoop, Close, CloseInterrupted, Shutdown, NativeClose, Closed,
                Synchronize, Release, Loop, SendEvent, SerialEvent, Available, Respond,
                fields, io, read, past
  <2> QED BY <2>1 DEF TypedFlags, fields
<1>5. ASSUME NEW m \in Monitors, Listens(m) PROVE TypedFlags'
  BY <1>5 DEF Listens, Run, EventLoop, TypedFlags, io, read, past
<1> QED BY <1>1, <1>2, <1>3, <1>4, <1>5 DEF Step

LEMMA OwnersStep ==
  ASSUME TypedOwners, Step
  PROVE  TypedOwners'
<1>1. CASE Arrive
  BY <1>1 DEF Arrive, TypedOwners, client, fields, locks, io
<1>2. ASSUME NEW a \in Actors, ReadsOn(a) PROVE TypedOwners'
  <2>1. UNCHANGED <<client, fields, handler>>
    BY <1>2 DEF ReadsOn, Enter, TakeBytes, TimesOut, ReadFails, FinishRead, locks
  <2>2. stream' \in {stream, None} /\ late' \subseteq late
    BY <1>2 DEF ReadsOn, Enter, TakeBytes, TimesOut, ReadFails, FinishRead, Uncount, locks
  <2> QED BY <2>1, <2>2 DEF TypedOwners, client, fields
<1>3. ASSUME NEW a \in Actors, Manages(a) PROVE TypedOwners'
  <2>1. UNCHANGED <<client, late, stream>>
    BY <1>3 DEF Manages, Notify, SetFlag, AddEventListener, Await, RemoveEventListener, Join,
                locks, io
  <2>2. handler' \in {handler, None}
    BY <1>3 DEF Manages, Notify, SetFlag, AddEventListener, Await, RemoveEventListener, Join,
                locks
  <2>3. monThread' \in Monitors \cup {None} /\ data' \subseteq Monitors
    <3>1. CASE Notify(a) \/ SetFlag(a) \/ AddEventListener(a) \/ Await(a)
      BY <3>1 DEF Notify, SetFlag, AddEventListener, Await, TypedOwners, fields
    <3>2. CASE RemoveEventListener(a) \/ Join(a)
      BY <3>2 DEF RemoveEventListener, Join, Forgotten, TypedOwners, fields
    <3> QED BY <1>3, <3>1, <3>2 DEF Manages
  <2> QED BY <2>1, <2>2, <2>3 DEF TypedOwners, client
<1>4. ASSUME NEW a \in Actors, Moveable(a) PROVE TypedOwners'
  <2>1. UNCHANGED <<fields, timeout, threshold>>
    BY <1>4 DEF Moveable, Begin, Write, Read, Size, Count, NativeEnds, Uncount,
                InterruptEventLoop, Close, CloseInterrupted, Shutdown, NativeClose, Closed,
                Synchronize, Release, Loop, SendEvent, SerialEvent, Available, Respond, client
  <2>2. handler' \in {handler, a, None} /\ stream' \in {stream, a, None} /\ late' \subseteq late \cup {a}
    BY <1>4 DEF Moveable, Begin, Write, Read, Size, Count, NativeEnds, Uncount,
                InterruptEventLoop, Close, CloseInterrupted, Shutdown, NativeClose, Closed,
                Synchronize, Release, Loop, SendEvent, SerialEvent, Available, Respond, locks, io
  <2> QED BY <2>1, <2>2 DEF TypedOwners, fields
<1>5. ASSUME NEW m \in Monitors, Listens(m) PROVE TypedOwners'
  BY <1>5 DEF Listens, Run, EventLoop, TypedOwners, client, locks, io
<1> QED BY <1>1, <1>2, <1>3, <1>4, <1>5 DEF Step

LEMMA LoopsStep ==
  ASSUME TypedLoops, StacksOK, LoopsOK, BorrowOK, Step
  PROVE  TypedLoops'
<1>h. loops # << >> => Head(loops) \in Monitors
  BY DEF LoopsOK
<1>1. CASE Arrive
  BY <1>1 DEF Arrive, TypedLoops, native, io, read
<1>2. ASSUME NEW a \in Actors, ReadsOn(a) PROVE TypedLoops'
  <2>1. CASE Enter(a)
    BY <2>1 DEF Enter, TypedLoops
  <2>2. ASSUME At(a, "reading"), FinishRead(a) PROVE TypedLoops'
    <3>1. borrowed \in Monitors
      BY <2>2 DEF BorrowOK, TypedLoops
    <3> QED BY <2>2, <3>1 DEF FinishRead, TypedLoops
  <2>3. CASE UNCHANGED <<native, borrowed>>
    BY <2>3 DEF TypedLoops, native
  <2> QED BY <1>2, <2>1, <2>2, <2>3 DEF ReadsOn, TakeBytes, TimesOut, ReadFails
<1>3. ASSUME NEW a \in Actors, Manages(a) PROVE TypedLoops'
  <2>1. UNCHANGED <<closing, eis, borrowed>>
    BY <1>3 DEF Manages, Notify, SetFlag, AddEventListener, Await, RemoveEventListener, Join,
                native, io, read
  <2>2. flags' \subseteq Monitors
    BY <1>h, <1>3 DEF Manages, Notify, SetFlag, AddEventListener, Await, RemoveEventListener, Join,
                      native, TypedLoops
  <2> QED BY <2>1, <2>2 DEF TypedLoops
<1>4. ASSUME NEW a \in Actors, Moveable(a) PROVE TypedLoops'
  <2>1. UNCHANGED <<flags, eis, borrowed>>
    BY <1>4 DEF Moveable, Begin, Write, Read, Size, Count, NativeEnds, Uncount,
                InterruptEventLoop, Close, CloseInterrupted, Shutdown, NativeClose, Closed,
                Synchronize, Release, Loop, SendEvent, SerialEvent, Available, Respond,
                native, io, read
  <2>2. closing' \subseteq Monitors
    BY <1>h, <1>4 DEF Moveable, Begin, Write, Read, Size, Count, NativeEnds, Uncount,
                InterruptEventLoop, Close, CloseInterrupted, Shutdown, NativeClose, Closed,
                Synchronize, Release, Loop, SendEvent, SerialEvent, Available, Respond,
                native, TypedLoops
  <2> QED BY <2>1, <2>2 DEF TypedLoops
<1>5. ASSUME NEW m \in Monitors, Listens(m) PROVE TypedLoops'
  BY <1>5 DEF Listens, Run, EventLoop, TypedLoops, native, io, read
<1> QED BY <1>1, <1>2, <1>3, <1>4, <1>5 DEF Step

LEMMA BytesStep ==
  ASSUME TypedBytes, ScriptsOK, TypedOwners, StacksOK, ReadersOK, BorrowOK, Step
  PROVE  TypedBytes'
<1>0. /\ Length \in Nat \ {0} /\ MaxPending \in Nat \ {0} /\ MaxInterrupts \in Nat
      /\ threshold \in Nat /\ pending \in Nat /\ wanted \in Nat /\ got \in Nat
      /\ interrupts \in Nat
  BY BytesAssumption, TimeoutsAssumption DEF TypedBytes, TypedOwners
<1>1. CASE Arrive
  BY <1>0, <1>1 DEF Arrive, TypedBytes, io, read, past
<1>2. ASSUME NEW a \in Actors, ReadsOn(a) PROVE TypedBytes'
  <2>1. CASE UNCHANGED <<wanted, got, pending, interrupts>>
    BY <2>1 DEF TypedBytes
  <2>2. CASE wanted' = 0 /\ got' = 0 /\ pending' = pending /\ interrupts' = interrupts
    BY <1>0, <2>2 DEF TypedBytes
  <2>3. CASE TakeBytes(a)
    <3> DEFINE n == Least(pending, wanted - got)
    <3>1. n \in 0 .. pending /\ n \in 0 .. wanted - got
      BY <1>0 DEF Least, TypedBytes
    <3>2. /\ pending' = pending - n /\ interrupts' = interrupts
          /\ \/ wanted' = 0 /\ got' = 0
             \/ wanted' = wanted /\ got' = got + n
      BY <2>3 DEF TakeBytes, FinishRead, past
    <3> HIDE DEF n
    <3> QED BY <1>0, <3>1, <3>2 DEF TypedBytes
  <2> QED BY <1>2, <2>1, <2>2, <2>3 DEF ReadsOn, Enter, TimesOut, ReadFails, FinishRead, past
<1>3. ASSUME NEW a \in Actors, Manages(a) PROVE TypedBytes'
  <2>1. UNCHANGED <<wanted, got, pending>>
    BY <1>3 DEF Manages, Notify, SetFlag, AddEventListener, Await, RemoveEventListener, Join,
                io, read
  <2>2. \/ interrupts' = interrupts
        \/ interrupts < MaxInterrupts /\ interrupts' = interrupts + 1
    <3>1. CASE Join(a)
      BY <3>1 DEF Join
    <3>2. CASE Notify(a) \/ SetFlag(a) \/ AddEventListener(a) \/ Await(a) \/ RemoveEventListener(a)
      BY <3>2 DEF Notify, SetFlag, AddEventListener, Await, RemoveEventListener, past
    <3> QED BY <1>3, <3>1, <3>2 DEF Manages
  <2> QED BY <1>0, <2>1, <2>2 DEF TypedBytes
<1>4. ASSUME NEW a \in Actors, Moveable(a) PROVE TypedBytes'
  <2>1. got' = got /\ pending' \in {pending, 0}
    BY <1>4 DEF Moveable, Begin, Write, Read, Size, Count, NativeEnds, Uncount,
                InterruptEventLoop, Close, CloseInterrupted, Shutdown, NativeClose, Closed,
                Synchronize, Release, Loop, SendEvent, SerialEvent, Available, Respond,
                io, read
  <2>2. \/ interrupts' = interrupts
        \/ interrupts < MaxInterrupts /\ interrupts' = interrupts + 1
    <3>1. CASE CloseInterrupted(a)
      BY <3>1 DEF CloseInterrupted
    <3>2. CASE ~CloseInterrupted(a)
      BY <1>4, <3>2 DEF Moveable, Begin, Write, Read, Size, Count, NativeEnds,
                InterruptEventLoop, Close, Shutdown, NativeClose, Closed,
                Synchronize, Release, Loop, SendEvent, SerialEvent, Available, Respond,
                past
    <3> QED BY <3>1, <3>2
  <2>3. CASE Size(a)
    <3>1. got = 0
      <4>1. /\ frames[a] \in Seq(Frame) /\ frames[a] # << >> /\ frames[a][1] = "size"
        BY <2>3 DEF Size, At, StacksOK
      <4>2. 1 \in 1 .. Len(frames[a])
        BY <4>1
      <4>3. stream = a
        BY <4>1, <4>2 DEF ReadersOK, Reads
      <4>4. ~\E b \in Actors : At(b, "reading")
        <5> SUFFICES ASSUME NEW b \in Actors, At(b, "reading") PROVE FALSE
          OBVIOUS
        <5>1. frames[b] \in Seq(Frame) /\ frames[b] # << >> /\ frames[b][1] = "reading"
          BY DEF At, StacksOK
        <5>2. 1 \in 1 .. Len(frames[b])
          BY <5>1
        <5>3. stream = b
          BY <5>1, <5>2 DEF ReadersOK, Reads
        <5> QED BY <4>1, <4>3, <5>1, <5>3
      <4> QED BY <4>4 DEF BorrowOK
    <3>2. wanted' \in 0 .. Length
      <4>1. wanted' \in {wanted, Least(Length, threshold), Least(Length, pending), 1}
        BY <2>3 DEF Size
      <4>2. Least(Length, threshold) \in 0 .. Length /\ Least(Length, pending) \in 0 .. Length
        BY <1>0 DEF Least
      <4> QED BY <1>0, <4>1, <4>2 DEF TypedBytes
    <3> QED BY <1>0, <2>1, <2>2, <3>1, <3>2 DEF TypedBytes
  <2>4. CASE wanted' = wanted
    BY <1>0, <2>1, <2>2, <2>4 DEF TypedBytes
  <2>5. Size(a) \/ wanted' = wanted
    BY <1>4 DEF Moveable, Begin, Write, Read, Count, NativeEnds, Uncount,
                InterruptEventLoop, Close, CloseInterrupted, Shutdown, NativeClose, Closed,
                Synchronize, Release, Loop, SendEvent, SerialEvent, Available, Respond,
                io, read
  <2> QED BY <2>3, <2>4, <2>5
<1>5. ASSUME NEW m \in Monitors, Listens(m) PROVE TypedBytes'
  BY <1>5 DEF Listens, Run, EventLoop, TypedBytes, io, read, past
<1> QED BY <1>1, <1>2, <1>3, <1>4, <1>5 DEF Step

LEMMA ShapesStep ==
  ASSUME IInv, Shapes, Duties, [SPNext]_vars
  PROVE  Shapes' /\ Duties'
<1>0. StacksOK /\ ScriptsOK
  BY DEF IInv
<1>s. frames' = frames /\ UNCHANGED client => Shapes' /\ Duties'
  BY DEF Shapes, Duties, Duty, client
<1>m. ASSUME NEW a \in Actors, Moves(a), UNCHANGED client PROVE Shapes' /\ Duties'
  BY <1>0, <1>m, MovesShape, MovesDuty
<1>1. CASE Arrive
  BY <1>1, <1>s DEF Arrive
<1>2. ASSUME NEW t \in Threads, Begin(t) PROVE Shapes' /\ Duties'
  BY <1>0, <1>2, BeginShape
<1>3. ASSUME NEW t \in Threads, Client(t) \/ CloseInterrupted(t) PROVE Shapes' /\ Duties'
  BY <1>0, <1>3, <1>s, <1>m, ClientMoves, StartsShape DEF Actors
<1>4. ASSUME NEW m \in Monitors, Monitor(m) PROVE Shapes' /\ Duties'
  BY <1>0, <1>4, <1>s, <1>m, MonitorMoves DEF Actors
<1>5. ASSUME NEW a \in Actors, ReadFails(a) PROVE Shapes' /\ Duties'
  BY <1>0, <1>5, <1>s, <1>m, InputOutputMoves
<1>6. CASE UNCHANGED vars
  BY <1>6, <1>s DEF vars
<1> QED BY <1>1, <1>2, <1>3, <1>4, <1>5, <1>6 DEF SPNext

LEMMA LoopsOKStep ==
  ASSUME IInv, Shapes, Duties, LoopsOK, [SPNext]_vars
  PROVE  LoopsOK'
<1>0. StacksOK /\ ScriptsOK
  BY DEF IInv
<1>m. ASSUME NEW a \in Actors, Moves(a) \/ frames' = frames, loops' = loops,
             frames[a] # << >>, frames[a][1] \notin {"loop", "join"} \/ a \notin Monitors
      PROVE  LoopsOK'
  BY <1>0, <1>m, MovesShape, KeepLoops DEF Moved, Actors
<1>1. CASE Arrive \/ UNCHANGED vars
  BY <1>1, KeepLoops DEF Arrive, vars, native
<1>2. ASSUME NEW t \in Threads, Begin(t) PROVE LoopsOK'
  <2>1. \A m \in Monitors : frames'[m] = frames[m]
    BY <1>0, <1>2, BeginShape, ActorsAssumption DEF Actors
  <2> QED BY <1>2, <2>1, KeepLoops DEF Begin, native
<1>3. ASSUME NEW t \in Threads, Client(t) \/ CloseInterrupted(t) PROVE LoopsOK'
  <2>1. loops' = loops
    <3>1. CASE InputOutput(t)
      BY <3>1 DEF InputOutput, Read, Size, Count, Enter, NativeEnds, TakeBytes, TimesOut,
                  FinishRead, native
    <3>2. CASE ~InputOutput(t)
      BY <1>3, <3>2
         DEF Client, Write, Notify, SetFlag, AddEventListener, Await, RemoveEventListener,
             InterruptEventLoop, Join, Close, CloseInterrupted, Shutdown, NativeClose, Closed,
             Synchronize, Release, native
    <3> QED BY <3>1, <3>2
  <2>2. t \in Actors /\ t \notin Monitors
    BY ActorsAssumption DEF Actors
  <2>3. CASE Moves(t)
    BY <1>m, <2>1, <2>2, <2>3 DEF Moves
  <2>4. CASE frames' = frames
    BY <2>1, <2>4, KeepLoops
  <2>5. ASSUME NEW m \in Monitors, Starts(t, m) PROVE LoopsOK'
    <3>1. UNCHANGED client
      BY <1>0, <1>3, ClientMoves
    <3>2. frames[m] = << >> /\ \A b \in Monitors \ {m} : frames'[b] = frames[b]
      BY <1>0, <2>2, <2>5, <3>1, StartsShape DEF Actors
    <3>3. \A b \in Monitors : Looping(frames[b]) => Looping(frames'[b])
      BY <3>2 DEF Looping
    <3> QED BY <2>1, <3>3, KeepLoops
  <2> QED BY <1>0, <1>3, <2>3, <2>4, <2>5, ClientMoves
<1>4. ASSUME NEW m \in Monitors, Monitor(m) PROVE LoopsOK'
  <2>1. CASE EventLoop(m)
    BY <1>0, <2>1, EventLoopListed
  <2>2. CASE Loop(m)
    BY <1>0, <2>2, LoopUnlisted
  <2>3. CASE ~EventLoop(m) /\ ~Loop(m)
    <3>1. loops' = loops
      <4>1. CASE InputOutput(m)
        BY <4>1 DEF InputOutput, Read, Size, Count, Enter, NativeEnds, TakeBytes, TimesOut,
                    FinishRead, native
      <4>2. CASE ~InputOutput(m)
        BY <1>4, <2>3, <4>2 DEF Monitor, Run, SendEvent, SerialEvent, Available, Respond, Release, native
      <4> QED BY <4>1, <4>2
    <3>2. frames[m][1] # "loop"
      <4>1. CASE InputOutput(m)
        BY <1>0, <4>1, InputOutputMoves DEF Actors
      <4>2. CASE ~InputOutput(m)
        BY <1>4, <2>3, <4>2 DEF Monitor, Run, SendEvent, SerialEvent, Available, Respond, Release, At
      <4> QED BY <4>1, <4>2
    <3> QED BY <1>0, <1>4, <1>m, <3>1, <3>2, MonitorMoves DEF Actors
  <2> QED BY <2>1, <2>2, <2>3
<1>5. ASSUME NEW a \in Actors, ReadFails(a) PROVE LoopsOK'
  <2>1. loops' = loops
    BY <1>5 DEF ReadFails, FinishRead
  <2> QED BY <1>0, <1>5, <1>m, <2>1, InputOutputMoves
<1> QED BY <1>1, <1>2, <1>3, <1>4, <1>5 DEF SPNext

LEMMA AtTop ==
  ASSUME StacksOK, NEW a \in Actors, NEW f
  PROVE  /\ At(a, f) <=> (frames[a] # << >> /\ frames[a][1] = f)
         /\ At(a, f) /\ f \in {"size", "reading"} => Reads(frames[a])
<1>1. frames[a] \in Seq(Frame)
  BY DEF StacksOK
<1>2. At(a, f) <=> (frames[a] # << >> /\ frames[a][1] = f)
  BY <1>1 DEF At
<1>3. frames[a] # << >> => 1 \in 1 .. Len(frames[a])
  BY <1>1
<1> QED BY <1>2, <1>3 DEF Reads

LEMMA ReadBegins ==
  ASSUME StacksOK, StacksOK', Shapes, ReadersOK, BorrowOK, NEW a \in Actors, Read(a)
  PROVE  ReadersOK' /\ BorrowOK'
<1>0. frames[a] # << >> /\ frames[a][1] = "read" /\ stream = None /\ Moves(a)
  BY AtTop, ReturnMoves, GotoMoves DEF Read, Expands
<1>1. \A b \in Actors \ {a} : frames'[b] = frames[b]
  BY <1>0, MovesShape DEF Moved
<1>2. \A b \in Actors : ~Reads(frames[b])
  BY <1>0, ActorsAssumption DEF ReadersOK
<1>3. Reads(frames'[a]) => stream' = a
  <2>1. CASE stream' = a
    BY <2>1
  <2>2. CASE Return(a)
    <3>1. frames'[a] = Tail(frames[a]) /\ frames[a] \in Seq(Frame) /\ Tail(frames[a]) \in Seq(Frame)
      BY <1>0, <2>2 DEF Return, Goto, StacksOK
    <3>2. \A i \in 1 .. Len(Tail(frames[a])) : Rank("read") < Rank(Tail(frames[a])[i])
      BY <1>0, <3>1, ShapedTail DEF Shapes
    <3>3. ~(Rank("read") < Rank("size")) /\ ~(Rank("read") < Rank("reading"))
      BY DEF Rank
    <3> QED BY <3>1, <3>2, <3>3 DEF Reads
  <2> QED BY <2>1, <2>2 DEF Read
<1>4. \A b \in Actors : ~At(b, "reading") /\ ~At(b, "reading")'
  <2>1. \A b \in Actors : ~At(b, "reading")
    BY <1>2, AtTop
  <2>2. ~At(a, "reading")'
    BY <1>0, MovesReading
  <2> QED BY <1>1, <2>1, <2>2 DEF At
<1>5. UNCHANGED <<got, borrowed>>
  BY DEF Read, io, read
<1>6. ReadersOK'
  BY <1>1, <1>2, <1>3 DEF ReadersOK
<1> QED BY <1>4, <1>5, <1>6 DEF BorrowOK

LEMMA ReadEnters ==
  ASSUME StacksOK, StacksOK', Shapes, ReadersOK, BorrowOK, TypedLoops, NEW a \in Actors, Enter(a)
  PROVE  ReadersOK' /\ BorrowOK'
<1>0. /\ frames[a] # << >> /\ frames[a][1] \in {"settle", "enter"} /\ Return(a)
      /\ stream' = stream /\ got' = got
  BY AtTop DEF Enter, locks
<1>1. Moves(a) /\ frames[a] \in Seq(Frame) /\ Linked(frames[a])
  BY <1>0, ReturnMoves DEF StacksOK
<1>2. \A b \in Actors \ {a} : frames'[b] = frames[b]
  BY <1>1, MovesShape DEF Moved
<1>3. ReadersOK'
  BY <1>0, <1>1, <1>2, MovesReading DEF ReadersOK
<1>4. ~At(a, "reading")
  BY <1>0, AtTop
<1>5. At(a, "reading")' <=> frames[a][2] = "reading"
  <2>1. 1 \in 1 .. Len(frames[a])
    BY <1>0, <1>1
  <2>2. 1 < Len(frames[a]) /\ 1 + 1 = 2
    BY <1>0, <1>1, <2>1 DEF Linked, LinkedAt
  <2>3. frames'[a] = Tail(frames[a])
    <3>1. Tail(frames[a]) \in Seq(Frame)
      BY <1>0, <1>1
    <3> QED BY <1>0, <3>1 DEF Return, Goto, StacksOK
  <2>4. Tail(frames[a]) # << >> /\ Head(Tail(frames[a])) = frames[a][2]
    <3>1. Tail(frames[a]) \in Seq(Frame) /\ Len(Tail(frames[a])) = Len(frames[a]) - 1 /\ Len(frames[a]) \in Nat
      BY <1>0, <1>1
    <3>2. Tail(frames[a]) # << >>
      <4>a. \A n \in Nat : 1 < n => n - 1 # 0
        OBVIOUS
      <4>b. 1 < Len(frames[a]) /\ Len(frames[a]) \in Nat /\ Len(Tail(frames[a])) = Len(frames[a]) - 1
        BY <2>2, <3>1
      <4>1. Len(Tail(frames[a])) # 0
        BY <4>a, <4>b
      <4> QED BY <4>1, Len(<< >>) = 0
    <3>3. Tail(frames[a])[1] = frames[a][2]
      BY <1>0, <1>1, <2>2
    <3> QED BY <3>1, <3>2, <3>3
  <2> QED BY <2>3, <2>4 DEF At
<1>6. CASE frames[a][2] = "reading"
  <2>1. borrowed' \in Monitors
    BY <1>6 DEF Enter, TypedLoops
  <2>2. borrowed' # None
    BY <2>1, ActorsAssumption DEF Actors
  <2> QED BY <1>3, <1>5, <1>6, <2>2 DEF BorrowOK
<1>7. CASE frames[a][2] # "reading"
  <2>1. borrowed' = borrowed
    BY <1>7 DEF Enter
  <2>2. \A b \in Actors : At(b, "reading")' <=> At(b, "reading")
    BY <1>2, <1>4, <1>5, <1>7 DEF At
  <2> QED BY <1>0, <1>3, <2>1, <2>2 DEF BorrowOK
<1> QED BY <1>6, <1>7

LEMMA ReadEnds ==
  ASSUME StacksOK, StacksOK', Shapes, ReadersOK, BorrowOK, NEW a \in Actors,
         At(a, "reading"), FinishRead(a)
  PROVE  ReadersOK' /\ BorrowOK'
<1>0. /\ frames[a] # << >> /\ frames[a][1] = "reading" /\ Reads(frames[a]) /\ stream = a
      /\ Return(a) /\ borrowed' = None /\ got' = 0
  BY AtTop DEF FinishRead, Uncount, ReadersOK
<1>1. Moves(a)
  BY <1>0, ReturnMoves
<1>2. \A b \in Actors \ {a} : frames'[b] = frames[b] /\ ~Reads(frames[b])
  BY <1>0, <1>1, MovesShape DEF Moved, ReadersOK
<1>3. ~Reads(frames'[a]) /\ ~At(a, "reading")'
  <2>1. ~(Rank("reading") < 13)
    BY DEF Rank
  <2> QED BY <1>0, <1>1, <2>1, MovesReading
<1>4. \A b \in Actors : ~At(b, "reading")'
  BY <1>2, <1>3, AtTop DEF At
<1> QED BY <1>0, <1>2, <1>3, <1>4 DEF ReadersOK, BorrowOK

LEMMA InputOutputReading ==
  ASSUME IInv, StacksOK', Shapes, ReadersOK, BorrowOK, TypedLoops, NEW a \in Actors,
         InputOutput(a) \/ ReadFails(a)
  PROVE  ReadersOK' /\ BorrowOK'
<1>0. StacksOK
  BY DEF IInv
<1>1. CASE Read(a)
  BY <1>0, <1>1, ReadBegins
<1>2. CASE Size(a)
  <2>1. /\ frames[a] # << >> /\ frames[a][1] = "size" /\ Reads(frames[a]) /\ stream = a
        /\ UNCHANGED <<got, borrowed>>
    BY <1>0, <1>2, AtTop DEF Size, ReadersOK
  <2>2. CASE Return(a) /\ UNCHANGED stream
    BY <1>0, <2>1, <2>2, ReturnMoves, NoReading
  <2>3. CASE frames' = [frames EXCEPT ![a] = SubSeq(@, 5, Len(@))]
    <3>1. Moves(a)
      BY <2>1, <2>3 DEF Moves
    <3>2. ~Goto(a, << >>)
      <4>1. frames[a] \in Seq(Frame) /\ Len(frames[a]) \in Nat /\ 1 \in 1 .. Len(frames[a])
        BY <1>0, <2>1 DEF StacksOK
      <4>2. Len(frames[a]) >= 4
        BY <2>1, <4>1 DEF Shapes, Shaped, ShapedAt
      <4>3. Len(SubSeq(frames[a], 5, Len(frames[a]))) = Len(frames[a]) - 4
        BY <4>1, <4>2
      <4>4. Tail(frames[a]) \in Seq(Frame) /\ Len(Tail(frames[a])) = Len(frames[a]) - 1
        BY <2>1, <4>1
      <4>5. << >> \o Tail(frames[a]) = Tail(frames[a])
        BY <4>4
      <4>6. SubSeq(frames[a], 5, Len(frames[a])) # Tail(frames[a])
        BY <4>1, <4>3, <4>4
      <4> QED BY <1>0, <2>3, <4>5, <4>6 DEF Goto, StacksOK
    <3>3. frames[a][1] = "size" /\ stream \in {a, None}
      BY <2>1
    <3> QED BY <1>0, <2>1, <3>1, <3>2, <3>3, NoReading
  <2> QED BY <1>2, <2>2, <2>3 DEF Size
<1>3. CASE Count(a) \/ NativeEnds(a)
  <2>1. /\ frames[a] # << >> /\ frames[a][1] \in {"count", "native"} /\ Return(a)
        /\ UNCHANGED <<got, borrowed>>
    BY <1>0, <1>3, AtTop DEF Count, NativeEnds, Uncount, read
  <2>2. stream' = stream \/ stream \in {a, None}
    BY <1>3 DEF Count, NativeEnds, Uncount, locks
  <2>3. Reads(frames[a]) /\ Rank(frames[a][1]) < 13 => stream' = a
    <3>1. CASE Count(a)
      BY <3>1 DEF Count, locks, ReadersOK
    <3>2. CASE NativeEnds(a)
      <4>1. frames[a][1] = "native"
        BY <1>0, <3>2, AtTop DEF NativeEnds
      <4>2. ~(Rank("native") < 13)
        BY DEF Rank
      <4> QED BY <4>1, <4>2
    <3> QED BY <1>3, <3>1, <3>2
  <2> QED BY <1>0, <2>1, <2>2, <2>3, ReturnMoves, NoReading
<1>4. CASE Enter(a)
  BY <1>0, <1>4, ReadEnters
<1>5. CASE At(a, "reading") /\ FinishRead(a)
  BY <1>0, <1>5, ReadEnds
<1>6. CASE At(a, "reading") /\ UNCHANGED <<frames, locks, borrowed>>
  BY <1>6 DEF ReadersOK, BorrowOK, locks, At
<1> QED BY <1>1, <1>2, <1>3, <1>4, <1>5, <1>6 DEF InputOutput, TakeBytes, TimesOut, ReadFails

(* Outside the reads nothing of them changes. *)
LEMMA ElsewhereReading ==
  ASSUME IInv, StacksOK', Shapes, ReadersOK, BorrowOK, NEW a \in Actors,
         Moves(a) \/ frames' = frames,
         frames[a] # << >>, frames[a][1] \notin {"read", "size", "settle", "enter", "reading"},
         UNCHANGED <<stream, got, borrowed>>
  PROVE  ReadersOK' /\ BorrowOK'
<1>0. StacksOK
  BY DEF IInv
<1>1. CASE Moves(a)
  <2>1. Reads(frames[a]) => stream' = a
    BY DEF ReadersOK
  <2> QED BY <1>0, <1>1, <2>1, NoReading
<1>2. CASE frames' = frames
  BY <1>2 DEF ReadersOK, BorrowOK, At
<1> QED BY <1>1, <1>2

LEMMA ClientReading ==
  ASSUME IInv, StacksOK', Shapes, Duties, ReadersOK, BorrowOK, TypedLoops, NEW t \in Threads,
         Client(t) \/ CloseInterrupted(t)
  PROVE  ReadersOK' /\ BorrowOK'
<1>0. StacksOK /\ ScriptsOK /\ t \in Actors
  BY DEF IInv, Actors
<1>1. CASE InputOutput(t)
  BY <1>0, <1>1, InputOutputReading
<1>2. CASE ~InputOutput(t)
  <2>1. UNCHANGED <<stream, got, borrowed>>
    BY <1>2 DEF Client, Write, Notify, SetFlag, AddEventListener, Await, RemoveEventListener,
                InterruptEventLoop, Join, Close, CloseInterrupted, Shutdown, NativeClose, Closed,
                Synchronize, Release, locks, io, read
  <2>2. /\ frames[t] # << >>
        /\ frames[t][1] \notin {"read", "size", "settle", "enter", "reading"}
    BY <1>0, <1>2, AtTop
       DEF Client, Write, Notify, SetFlag, AddEventListener, Await, RemoveEventListener,
           InterruptEventLoop, Join, Close, CloseInterrupted, Shutdown, NativeClose, Closed,
           Synchronize, Release
  <2>3. CASE Moves(t) \/ frames' = frames
    BY <1>0, <2>1, <2>2, <2>3, ElsewhereReading
  <2>4. ASSUME NEW m \in Monitors, Starts(t, m) PROVE ReadersOK' /\ BorrowOK'
    <3>1. UNCHANGED client
      BY <1>0, ClientMoves
    <3>2. /\ \A b \in Actors \ {t, m} : frames'[b] = frames[b]
          /\ frames'[t][1] = "await" /\ frames'[m] = <<"run">> /\ ~Reads(frames'[t])
          /\ frames[m] = << >> /\ m \in Actors
      BY <1>0, <2>4, <3>1, StartsShape DEF Actors
    <3>3. ~Reads(frames'[m])
      BY <3>2 DEF Reads
    <3>4. ReadersOK'
      BY <2>1, <3>2, <3>3 DEF ReadersOK
    <3>5. /\ ~At(t, "reading")' /\ ~At(m, "reading")'
          /\ ~At(t, "reading") /\ ~At(m, "reading")
      <4>1. frames'[t] \in Seq(Frame) /\ frames'[m] \in Seq(Frame)
        BY <1>0, <3>2 DEF StacksOK
      <4>a. frames'[m][1] = "run"
        BY <3>2
      <4>2. ~At(t, "reading")' /\ ~At(m, "reading")'
        BY <3>2, <4>1, <4>a DEF At
      <4> QED BY <1>0, <2>2, <3>2, <4>2, AtTop
    <3>6. \A b \in Actors : At(b, "reading")' <=> At(b, "reading")
      BY <3>2, <3>5 DEF At
    <3> QED BY <2>1, <3>4, <3>6 DEF BorrowOK
  <2> QED BY <1>0, <2>3, <2>4, ClientMoves
<1> QED BY <1>1, <1>2

LEMMA MonitorReading ==
  ASSUME IInv, StacksOK', Shapes, ReadersOK, BorrowOK, TypedLoops, NEW m \in Monitors,
         Monitor(m)
  PROVE  ReadersOK' /\ BorrowOK'
<1>0. StacksOK /\ m \in Actors
  BY DEF IInv, Actors
<1>1. CASE InputOutput(m)
  BY <1>0, <1>1, InputOutputReading
<1>2. CASE Available(m)
  <2>1. /\ frames[m] # << >> /\ frames[m][1] = "available" /\ stream \in {m, None}
        /\ UNCHANGED <<got, borrowed>>
    BY <1>0, <1>2, AtTop DEF Available, io, read
  <2>2. Moves(m)
    BY <1>0, <1>2, <2>1, GotoMoves DEF Available, Moves, Expands
  <2>3. ~(Rank("available") < 13)
    BY DEF Rank
  <2> QED BY <1>0, <2>1, <2>2, <2>3, NoReading
<1>3. CASE ~InputOutput(m) /\ ~Available(m)
  <2>1. UNCHANGED <<stream, got, borrowed>>
    BY <1>3 DEF Monitor, Run, EventLoop, Loop, SendEvent, SerialEvent, Respond, Release,
                locks, io, read
  <2>2. /\ frames[m] # << >>
        /\ frames[m][1] \notin {"read", "size", "settle", "enter", "reading"}
    BY <1>0, <1>3, AtTop
       DEF Monitor, Run, EventLoop, Loop, SendEvent, SerialEvent, Respond, Release
  <2> QED BY <1>0, <2>1, <2>2, MonitorMoves, ElsewhereReading
<1> QED BY <1>1, <1>2, <1>3

LEMMA ReadingStep ==
  ASSUME IInv, IInv', Shapes, Duties, ReadersOK, BorrowOK, TypedLoops, [SPNext]_vars
  PROVE  ReadersOK' /\ BorrowOK'
<1>0. StacksOK /\ ScriptsOK /\ StacksOK'
  BY DEF IInv
<1>1. CASE Arrive \/ UNCHANGED vars
  <2>1. UNCHANGED <<frames, stream, got, borrowed>>
    BY <1>1 DEF Arrive, vars, locks, io, read
  <2> QED BY <2>1 DEF ReadersOK, BorrowOK, At
<1>2. ASSUME NEW t \in Threads, Begin(t) PROVE ReadersOK' /\ BorrowOK'
  <2>1. UNCHANGED <<stream, got, borrowed>> /\ frames[t] = << >> /\ t \in Actors
    BY <1>2 DEF Begin, locks, io, read, Actors
  <2>2. /\ \A b \in Actors \ {t} : frames'[b] = frames[b]
        /\ ~Reads(frames'[t]) /\ frames'[t] # << >> /\ frames'[t][1] \in Calls \cup {"synchronize"}
    BY <1>0, <1>2, BeginShape
  <2>3. ~At(t, "reading") /\ ~At(t, "reading")'
    <3>1. frames'[t] \in Seq(Frame)
      BY <1>0, <2>1 DEF StacksOK
    <3> QED BY <2>1, <2>2, <3>1 DEF At, Calls
  <2>4. \A b \in Actors : At(b, "reading")' <=> At(b, "reading")
    BY <2>2, <2>3 DEF At
  <2> QED BY <2>1, <2>2, <2>4 DEF ReadersOK, BorrowOK
<1>3. ASSUME NEW t \in Threads, Client(t) \/ CloseInterrupted(t) PROVE ReadersOK' /\ BorrowOK'
  BY <1>0, <1>3, ClientReading
<1>4. ASSUME NEW m \in Monitors, Monitor(m) PROVE ReadersOK' /\ BorrowOK'
  BY <1>0, <1>4, MonitorReading
<1>5. ASSUME NEW a \in Actors, ReadFails(a) PROVE ReadersOK' /\ BorrowOK'
  BY <1>0, <1>5, InputOutputReading
<1> QED BY <1>1, <1>2, <1>3, <1>4, <1>5 DEF SPNext

PartsOK == Shapes /\ Duties /\ LoopsOK /\ ReadersOK /\ BorrowOK /\ Typed

LEMMA PartsStart == SPInit => PartsOK
<1> SUFFICES ASSUME SPInit PROVE PartsOK
  OBVIOUS
<1>1. First \in Monitors /\ First \in Actors /\ None \notin Actors
  BY ActorsAssumption DEF First, Actors
<1>2. \A a \in Actors : frames[a] = IF a = First THEN <<"loop">> ELSE << >>
  BY DEF SPInit
<1>3. \A a \in Actors : frames[a] \in {<<"loop">>, << >>}
  BY <1>2
<1>4. /\ Shaped(<<"loop">>) /\ Shaped(<< >>)
      /\ ~Reads(<<"loop">>) /\ ~Reads(<< >>)
      /\ Looping(<<"loop">>)
  BY DEF Shaped, ShapedAt, Reads, Looping, LastFrame
<1>5. Shapes /\ ReadersOK
  BY <1>3, <1>4 DEF Shapes, ReadersOK
<1>6. Duties
  <2>1. script \in [Threads -> Seq(Calls)]
    BY ScriptsAssumption DEF SPInit
  <2>2. \A t \in Threads : frames[t] = << >>
    BY <1>1, <1>2, ActorsAssumption DEF Actors
  <2>3. \A t \in Threads : calls[t] = 0 /\ Len(script[t]) \in Nat
    BY <2>1 DEF SPInit
  <2> QED BY <2>2, <2>3 DEF Duties
<1>7. LoopsOK
  <2>1. loops = <<First>> /\ frames[First] = <<"loop">>
    BY <1>1, <1>2 DEF SPInit
  <2> QED BY <1>1, <1>4, <2>1 DEF LoopsOK
<1>8. BorrowOK
  <2>1. \A a \in Actors : ~At(a, "reading")
    <3>1. Head(<<"loop">>) = "loop"
      OBVIOUS
    <3> QED BY <1>3, <3>1 DEF At
  <2> QED BY <2>1 DEF BorrowOK, SPInit
<1>9. TypedFlags
  BY DEF SPInit, TypedFlags
<1>10. TypedOwners /\ TypedLoops /\ TypedBytes
  BY <1>1, BytesAssumption DEF SPInit, TypedOwners, TypedLoops, TypedBytes
<1> QED BY <1>5, <1>6, <1>7, <1>8, <1>9, <1>10 DEF PartsOK, Typed

LEMMA PartsStep ==
  ASSUME IInv, IInv', PartsOK, [SPNext]_vars
  PROVE  PartsOK'
<1>0. StacksOK /\ ScriptsOK
  BY DEF IInv
<1>1. Shapes' /\ Duties' /\ LoopsOK'
  BY ShapesStep, LoopsOKStep DEF PartsOK
<1>2. ReadersOK' /\ BorrowOK'
  BY ReadingStep DEF PartsOK, Typed
<1>3. Typed'
  <2>1. CASE SPNext
    <3>1. Step
      BY <2>1, NextIsStep
    <3>2. TypedFlags'
      BY <3>1, FlagsStep DEF PartsOK, Typed
    <3>3. TypedOwners'
      BY <3>1, OwnersStep DEF PartsOK, Typed
    <3>4. TypedLoops'
      BY <1>0, <3>1, LoopsStep DEF PartsOK, Typed
    <3>5. TypedBytes'
      BY <1>0, <3>1, BytesStep DEF PartsOK, Typed
    <3> QED BY <3>2, <3>3, <3>4, <3>5 DEF Typed
  <2>2. CASE UNCHANGED vars
    <3>1. Typed
      BY DEF PartsOK
    <3>2. TypedFlags'
      BY <2>2, <3>1 DEF Typed, vars, TypedFlags, fields, io, read, past
    <3>3. TypedOwners' /\ TypedLoops' /\ TypedBytes'
      BY <2>2, <3>1 DEF Typed, vars, TypedOwners, TypedLoops, TypedBytes,
                        client, fields, locks, native, io, read, past
    <3> QED BY <3>2, <3>3 DEF Typed
  <2> QED BY <2>1, <2>2
<1> QED BY <1>1, <1>2, <1>3 DEF PartsOK

LEMMA PartsInvariant == SPSpec => [](IInv /\ PartsOK)
<1>1. IInv /\ IInv' /\ PartsOK /\ [SPNext]_vars => PartsOK'
  BY PartsStep
<1> QED BY <1>1, PartsStart, PortInvariant, PTL DEF SPSpec

(* Every variable has its type in every state, whatever the scripts of the *)
(* threads, and a monitor thread that master_index lists is in its loop.   *)
THEOREM PortTypeCorrect == SPSpec => []STypeOK
<1>1. IInv /\ PartsOK => STypeOK
  <2> SUFFICES ASSUME IInv, PartsOK PROVE STypeOK
    OBVIOUS
  <2>1. script \in Scripts /\ calls \in [Threads -> Nat] /\ frames \in [Actors -> Seq(Frame)]
    BY DEF IInv, ScriptsOK, StacksOK
  <2>2. ioLocked \in Nat
    BY CountersAreFinite, FS_CardinalityType DEF IInv, CountsOK
  <2>3. fd \in BOOLEAN /\ closeLock \in BOOLEAN
    BY DEF IInv, DeviceOK
  <2>4. device \in {"open", "closed"} /\ entered \in [Actors -> {"open", "closed"}]
    BY DEF IInv, InTime
  <2>5. loops \in Seq(Monitors) /\ \A m \in Monitors : m \in ToSet(loops) => frames[m] # << >>
    BY DEF PartsOK, LoopsOK, Looping, ToSet
  <2>6. /\ isInterrupted \in BOOLEAN /\ alive \in BOOLEAN /\ threadLock \in BOOLEAN
        /\ listener \in BOOLEAN /\ saved \in BOOLEAN /\ gaveUp \in BOOLEAN /\ overlap \in BOOLEAN
    BY DEF PartsOK, Typed, TypedFlags
  <2>7. TypedOwners /\ TypedLoops /\ TypedBytes
    BY DEF PartsOK, Typed
  <2> QED BY <2>1, <2>2, <2>3, <2>4, <2>5, <2>6, <2>7
       DEF STypeOK, TypedOwners, TypedLoops, TypedBytes
<1> QED BY <1>1, PartsInvariant, PTL

-----------------------------------------------------------------------------
(* One manager: what the fields of the port, the monitor thread and the list*)
(* of loops say while it is where it is.                                   *)

Top(t)  == IF frames[t] = << >> THEN "idle" ELSE frames[t][1]
Busy    == {"await", "flag", "stop", "join"}     \* of the thread that manages the listener
Ending  == {"close", "shutdown", "nativeClose", "closed", "release"}

Alone(m) == \A n \in Monitors \ {m} : frames[n] = << >>
Runs(m)  == m \in Monitors /\ Alone(m) /\ Looping(frames[m]) /\ loops = <<m>>
Silent   == loops = << >> /\ \A n \in Monitors : frames[n] = << >>

Serving == Runs(monThread) /\ monThread \notin closing /\ alive /\ ~isInterrupted
Stopped == monThread = None /\ Silent /\ ~listener /\ ~alive /\ isInterrupted
Starting ==
  /\ listener /\ ~alive /\ monThread \in Monitors \ data /\ Alone(monThread)
  /\ \/ threadLock /\ loops = << >> /\ frames[monThread] = <<"run">>
     \/ threadLock /\ loops = << >> /\ frames[monThread] = <<"eventLoop">> /\ ~isInterrupted
     \/ ~threadLock /\ Runs(monThread) /\ monThread \notin closing /\ ~isInterrupted
Shut    == ~fd \/ device = "closed"

(* What the fields of the port and the loops are while t, its manager, is  *)
(* where it is.                                                            *)
Agrees(t) ==
  /\ Top(t) = "await" => Starting
  /\ Top(t) \in {"flag", "notify"} => Serving
  /\ Top(t) = "stop" => ~threadLock /\ Runs(monThread) /\ monThread \notin closing
  /\ Top(t) = "join" => ~threadLock /\ monThread \in Monitors /\ (Runs(monThread) \/ Silent)
  /\ Top(t) \in {"nativeClose", "closed"} => Stopped
  /\ frames[t] = << >> /\ calls[t] >= 1 /\ Duty(t) = "add" => Serving
  /\ Shut => calls[t] = Len(script[t]) /\ Top(t) \in Ending \cup {"idle"}

Settled == (\A t \in Threads : Manager(t) => Top(t) \notin Busy) => ~threadLock /\ (Serving \/ Stopped)

Agreed ==
  /\ Settled
  /\ Shut => Stopped
  /\ \A t \in Threads : Manager(t) => Agrees(t)

Agreement == Disciplined /\ ~gaveUp => Agreed

LEMMA OneManager ==
  ASSUME Disciplined, Agreed, NEW t \in Threads, Manager(t)
  PROVE  /\ Top(t) \notin Busy => ~threadLock /\ (Serving \/ Stopped)
         /\ Agrees(t) /\ (Shut => Stopped)
BY DEF Disciplined, Agreed, Settled

LEMMA ManagerAgrees ==
  ASSUME Disciplined, script' = script, NEW t \in Threads, Manager(t),
         Top(t)' \notin Busy => ~threadLock' /\ (Serving' \/ Stopped'),
         Shut' => Stopped', Agrees(t)'
  PROVE  Agreed'
<1>1. \A u \in Threads : Manager(u)' <=> Manager(u)
  BY DEF Manager
<1>2. \A u \in Threads : Manager(u)' => u = t
  BY <1>1 DEF Disciplined
<1>3. Settled'
  BY <1>1 DEF Settled
<1>4. \A u \in Threads : Manager(u)' => Agrees(u)'
  BY <1>2
<1> QED BY <1>3, <1>4 DEF Agreed

(* What a thread in a call is about to do is of that call. *)
LEMMA InCall ==
  ASSUME IInv, Duties, NEW t \in Threads, frames[t] # << >>
  PROVE  /\ Duty(t) \in Calls /\ calls[t] \in 1 .. Len(script[t])
         /\ Within(frames[t], FramesOf(Duty(t))) /\ frames[t][1] \in FramesOf(Duty(t))
         /\ frames[t][1] \notin {"write", "read", "size", "count", "settle", "native", "reading"}
              => Manager(t)
<1>1. /\ script \in [Threads -> Seq(Calls)] /\ calls \in [Threads -> Nat]
      /\ frames[t] \in Seq(Frame)
  BY ScriptsAssumption DEF IInv, ScriptsOK, StacksOK, Actors
<1>2. calls[t] <= Len(script[t]) /\ calls[t] >= 1 /\ Within(frames[t], FramesOf(Duty(t)))
  BY DEF Duties
<1>3. script[t] \in Seq(Calls) /\ calls[t] \in 1 .. Len(script[t])
  BY <1>1, <1>2
<1>4. Duty(t) \in Calls /\ Duty(t) \in ToSet(script[t])
  BY <1>3 DEF Duty, ToSet
<1>5. 1 \in 1 .. Len(frames[t])
  BY <1>1
<1>6. frames[t][1] \in FramesOf(Duty(t))
  BY <1>2, <1>5 DEF Within
<1>7. ASSUME frames[t][1] \notin {"write", "read", "size", "count", "settle", "native", "reading"}
      PROVE  Manager(t)
  <2>1. Duty(t) \notin {"write", "read"}
    BY <1>6, <1>7 DEF FramesOf
  <2> QED BY <1>4, <2>1 DEF Manager, Managing
<1> QED BY <1>2, <1>3, <1>4, <1>6, <1>7

(* What comes to the top when a frame of a call is done. *)
LEMMA BeneathEnding ==
  ASSUME NEW k \in Calls, NEW f \in FramesOf(k), f \in Ending
  PROVE  /\ k \in {"close", "handlerClose"}
         /\ \A g \in FramesOf(k) : Rank(f) < Rank(g) => g \in Ending
BY DEF FramesOf, Rank, Ending, Calls

LEMMA Popped ==
  ASSUME IInv, PartsOK, Duties', NEW t \in Threads, frames[t] # << >>, Return(t), UNCHANGED client
  PROVE  /\ \A b \in Actors \ {t} : frames'[b] = frames[b]
         /\ \A m \in Monitors : frames'[m] = frames[m]
         /\ Duty(t)' = Duty(t) /\ calls'[t] = calls[t] /\ script' = script
         /\ Top(t)' \notin {"await", "flag", "notify", "stop"}
         /\ Top(t)' = "join" => frames[t][1] = "stop"
         /\ Top(t)' \in {"nativeClose", "closed"}
              => frames[t][1] \in {"remove", "stop", "join", "synchronize", "nativeClose"}
         /\ frames[t][1] \in Ending => Top(t)' \in Ending \cup {"idle"}
         /\ frames[t][1] \notin {"add", "await"} => Duty(t)' # "add"
<1> DEFINE f == frames[t][1]
<1>0. t \in Actors /\ StacksOK /\ Shapes /\ Duties /\ Moves(t)
  BY ReturnMoves DEF IInv, PartsOK, Actors
<1>1. /\ Duty(t) \in Calls /\ f \in FramesOf(Duty(t))
  BY <1>0, InCall
<1>2. /\ \A b \in Actors \ {t} : frames'[b] = frames[b]
      /\ \A m \in Monitors : frames'[m] = frames[m]
      /\ Moved(t)
  BY <1>0, MovesShape, ActorsAssumption DEF Moved, Actors
<1>3. Duty(t)' = Duty(t) /\ calls'[t] = calls[t] /\ script' = script
  BY DEF Duty, client
<1>4. frames[t] \in Seq(Frame) /\ Tail(frames[t]) \in Seq(Frame) /\ frames'[t] = Tail(frames[t])
  BY <1>0 DEF StacksOK, Return, Goto
<1>5. frames'[t] # << >> => /\ frames'[t][1] \in FramesOf(Duty(t))
                            /\ Rank(f) < Rank(frames'[t][1])
  <2> SUFFICES ASSUME frames'[t] # << >>
               PROVE  frames'[t][1] \in FramesOf(Duty(t)) /\ Rank(f) < Rank(frames'[t][1])
    OBVIOUS
  <2>1. 1 \in 1 .. Len(frames'[t])
    BY <1>4
  <2>2. Within(frames'[t], FramesOf(Duty(t)))
    BY <1>3 DEF Duties
  <2>3. Rank(f) < Rank(frames'[t][1])
    BY <1>0, <1>4, <2>1, ShapedTail DEF Shapes
  <2> QED BY <2>1, <2>2, <2>3 DEF Within
<1>6. f \notin {"add", "await"} => Duty(t) # "add"
  BY <1>1 DEF FramesOf
<1>7. CASE frames'[t] = << >>
  BY <1>2, <1>3, <1>6, <1>7 DEF Top
<1>8. CASE frames'[t] # << >>
  <2> DEFINE g == frames'[t][1]
  <2>1. Top(t)' = g /\ g \in FramesOf(Duty(t)) /\ Rank(f) < Rank(g)
    BY <1>5, <1>8 DEF Top
  <2> HIDE DEF g
  <2>2. /\ g \notin {"await", "flag", "notify", "stop"}
        /\ g = "join" => f = "stop"
        /\ g \in {"nativeClose", "closed"} => f \in {"remove", "stop", "join", "synchronize", "nativeClose"}
    BY <1>1, <2>1, Beneath
  <2>3. f \in Ending => g \in Ending
    BY <1>1, <2>1, BeneathEnding
  <2> QED BY <1>2, <1>3, <1>6, <2>1, <2>2, <2>3
<1> QED BY <1>7, <1>8

(* What the monitor threads and the fields say stays as it is. *)
Outer == UNCHANGED <<fd, device, fields, loops, closing>>

LEMMA SameSide ==
  ASSUME \A m \in Monitors : frames'[m] = frames[m], UNCHANGED <<loops, closing>>
  PROVE  /\ \A m \in Monitors : (Runs(m)' <=> Runs(m)) /\ (Alone(m)' <=> Alone(m))
         /\ Silent' <=> Silent
         /\ UNCHANGED fields => /\ Serving' <=> Serving
                                /\ Stopped' <=> Stopped
                                /\ Starting' <=> Starting
<1>1. \A m \in Monitors : (Runs(m)' <=> Runs(m)) /\ (Alone(m)' <=> Alone(m))
  BY DEF Runs, Alone
<1>2. Silent' <=> Silent
  BY DEF Silent
<1>3. ASSUME UNCHANGED fields
      PROVE  (Serving' <=> Serving) /\ (Stopped' <=> Stopped) /\ (Starting' <=> Starting)
  <2>1. /\ monThread' = monThread /\ alive' = alive /\ isInterrupted' = isInterrupted
        /\ threadLock' = threadLock /\ listener' = listener /\ data' = data
    BY <1>3 DEF fields
  <2>2. Runs(monThread)' <=> Runs(monThread)
    <3>1. CASE monThread \in Monitors
      BY <1>1, <2>1, <3>1 DEF Runs
    <3>2. CASE monThread \notin Monitors
      BY <2>1, <3>2 DEF Runs
    <3> QED BY <3>1, <3>2
  <2>3. Serving' <=> Serving
    BY <2>1, <2>2 DEF Serving
  <2>4. Stopped' <=> Stopped
    BY <1>2, <2>1 DEF Stopped
  <2>5. Starting' <=> Starting
    <3>1. CASE monThread \in Monitors
      <4>1. (Alone(monThread)' <=> Alone(monThread)) /\ frames'[monThread] = frames[monThread]
        BY <1>1, <2>1, <3>1 DEF Alone
      <4> QED BY <2>1, <2>2, <3>1, <4>1 DEF Starting
    <3>2. CASE monThread \notin Monitors
      BY <2>1, <3>2 DEF Starting
    <3> QED BY <3>1, <3>2
  <2> QED BY <2>3, <2>4, <2>5
<1> QED BY <1>1, <1>2, <1>3

(* What a thread that does not manage the port does changes nothing here. *)
LEMMA OthersAgree ==
  ASSUME Agreed, NEW t \in Threads, ~Manager(t), script' = script,
         \A u \in Threads \ {t} : calls'[u] = calls[u],
         \A b \in Actors \ {t} : frames'[b] = frames[b], Outer
  PROVE  Agreed'
<1>1. \A m \in Monitors : frames'[m] = frames[m]
  BY ActorsAssumption DEF Actors
<1>2. UNCHANGED <<loops, closing, fields>> /\ (Shut' <=> Shut)
  BY DEF Outer, Shut
<1>3. /\ Serving' <=> Serving
      /\ Stopped' <=> Stopped
      /\ Starting' <=> Starting
      /\ Silent' <=> Silent
      /\ \A m \in Monitors : Runs(m)' <=> Runs(m)
  BY <1>1, <1>2, SameSide
<1>4. threadLock' = threadLock /\ monThread' = monThread
  BY <1>2 DEF fields
<1>5. ASSUME NEW u \in Threads, Manager(u)'
      PROVE  /\ Manager(u) /\ Top(u)' = Top(u)
             /\ Agrees(u) => Agrees(u)'
  <2>1. Manager(u) /\ u # t /\ u \in Actors \ {t}
    BY <1>5 DEF Manager, Actors
  <2>2. frames'[u] = frames[u] /\ calls'[u] = calls[u] /\ Top(u)' = Top(u) /\ Duty(u)' = Duty(u)
    BY <2>1 DEF Top, Duty
  <2>3. Runs(monThread) => Runs(monThread)'
    <3> SUFFICES ASSUME Runs(monThread) PROVE Runs(monThread)'
      OBVIOUS
    <3>1. monThread \in Monitors
      BY DEF Runs
    <3> QED BY <1>3, <1>4, <3>1 DEF Runs
  <2>4. Agrees(u) => Agrees(u)'
    BY <1>2, <1>3, <1>4, <2>2, <2>3 DEF Agrees
  <2> QED BY <2>1, <2>2, <2>4
<1>6. \A u \in Threads : Manager(u)' <=> Manager(u)
  BY DEF Manager
<1>7. Settled'
  BY <1>3, <1>4, <1>5, <1>6 DEF Settled, Agreed
<1> QED BY <1>2, <1>3, <1>5, <1>7 DEF Agreed

(* Reads and writes. *)
LEMMA InputOutputAgrees ==
  ASSUME IInv, PartsOK, Duties', Disciplined, Agreed, NEW t \in Threads, frames[t] # << >>,
         frames[t][1] \in {"write", "read", "size", "count", "settle", "native", "reading"},
         \A b \in Actors \ {t} : frames'[b] = frames[b],
         frames'[t] \in Seq(Frame), UNCHANGED client, Outer
  PROVE  Agreed'
<1>1. CASE ~Manager(t)
  BY <1>1, OthersAgree DEF client
<1>2. CASE Manager(t)
  <2>1. /\ Duty(t) \in Calls /\ frames[t][1] \in FramesOf(Duty(t))
        /\ Duties /\ script' = script
    BY InCall DEF PartsOK, client
  <2>2. Duty(t) \in {"write", "read"} /\ Duty(t)' = Duty(t)
    BY <2>1 DEF FramesOf, Duty, client, Calls
  <2>3. Top(t)' \in {"idle", "write", "read", "size", "count", "settle", "native", "reading"}
    <3>1. CASE frames'[t] = << >>
      BY <3>1 DEF Top
    <3>2. CASE frames'[t] # << >>
      <4>1. 1 \in 1 .. Len(frames'[t])
        BY <3>2
      <4>2. Within(frames'[t], FramesOf(Duty(t)))
        BY <2>2, <3>2 DEF Duties
      <4>3. frames'[t][1] \in FramesOf(Duty(t))
        BY <4>1, <4>2 DEF Within
      <4> QED BY <2>2, <3>2, <4>3 DEF Top, FramesOf
    <3> QED BY <3>1, <3>2
  <2>4. Top(t) = frames[t][1] /\ Top(t) \notin Busy \cup Ending \cup {"idle"}
    BY DEF Top, Busy, Ending
  <2>5. ~threadLock /\ (Serving \/ Stopped) /\ ~Shut
    BY <1>2, <2>4, OneManager DEF Agrees
  <2>6. \A m \in Monitors : frames'[m] = frames[m]
    BY ActorsAssumption DEF Actors
  <2>7. ~threadLock' /\ (Serving' \/ Stopped') /\ ~Shut'
    <3>1. UNCHANGED <<loops, closing, fields>>
      BY DEF Outer
    <3> QED BY <2>5, <2>6, <3>1, SameSide DEF Outer, Shut, fields
  <2>8. Agrees(t)'
    BY <2>2, <2>3, <2>7 DEF Agrees
  <2> QED BY <1>2, <2>1, <2>7, <2>8, ManagerAgrees
<1> QED BY <1>1, <1>2

LEMMA BeginAgrees ==
  ASSUME IInv, PartsOK, Disciplined, Agreed, NEW t \in Threads, Begin(t)
  PROVE  Agreed'
<1>0. StacksOK /\ ScriptsOK /\ Shapes /\ Duties /\ t \in Actors
  BY DEF IInv, PartsOK, Actors
<1> DEFINE c == script[t][calls[t] + 1]
<1>1. /\ \A b \in Actors \ {t} : frames'[b] = frames[b]
      /\ calls' = [calls EXCEPT ![t] = calls[t] + 1] /\ script' = script
      /\ calls[t] + 1 \in 1 .. Len(script[t])
      /\ frames'[t] # << >> /\ frames'[t][1] \in Calls \cup {"synchronize"}
      /\ frames'[t][1] \in Calls => frames'[t][1] = c
  BY <1>0, BeginShape
<1>2. /\ calls \in [Threads -> Nat] /\ script[t] \in Seq(Calls) /\ frames[t] = << >>
      /\ calls[t] < Len(script[t]) /\ Outer
  BY <1>0, ScriptsAssumption DEF ScriptsOK, Begin, Outer, ports, native
<1>3. CASE ~Manager(t)
  <2>1. \A u \in Threads \ {t} : calls'[u] = calls[u]
    BY <1>1, <1>2
  <2> QED BY <1>1, <1>2, <1>3, <2>1, OthersAgree
<1>4. CASE Manager(t)
  <2>1. Top(t) = "idle"
    BY <1>2 DEF Top
  <2>2. Agrees(t) /\ ~threadLock /\ (Serving \/ Stopped)
    BY <1>4, <2>1, OneManager DEF Busy
  <2>3. ~Shut
    <3>1. Len(script[t]) \in Nat /\ calls[t] \in Nat
      BY <1>2
    <3> QED BY <1>2, <2>2, <3>1 DEF Agrees
  <2>4. \A m \in Monitors : frames'[m] = frames[m]
    BY <1>1, ActorsAssumption DEF Actors
  <2>5. /\ Serving' <=> Serving
        /\ Stopped' <=> Stopped
        /\ threadLock' = threadLock /\ ~Shut'
    <3>1. UNCHANGED <<loops, closing, fields>>
      BY <1>2 DEF Outer
    <3> QED BY <1>2, <2>3, <2>4, <3>1, SameSide DEF Outer, Shut, fields
  <2>6. Top(t)' \in Calls \cup {"synchronize"} /\ (Top(t)' \in Calls => Top(t)' = c)
    BY <1>1 DEF Top
  <2>7. Top(t)' = "notify" => Serving
    <3> SUFFICES ASSUME Top(t)' = "notify" PROVE Serving
      OBVIOUS
    <3>1. c = "notify"
      BY <2>6 DEF Calls
    <3>2. calls[t] + 1 > 1 /\ script[t][(calls[t] + 1) - 1] = "add"
      BY <1>1, <3>1 DEF Disciplined
    <3>3. calls[t] >= 1 /\ (calls[t] + 1) - 1 = calls[t]
      BY <1>2, <3>2
    <3> QED BY <1>2, <2>2, <3>2, <3>3 DEF Agrees, Duty
  <2>8. Agrees(t)'
    <3>1. /\ Top(t)' \notin {"await", "flag", "stop", "join", "nativeClose", "closed"}
      BY <2>6 DEF Calls
    <3> QED BY <1>1, <2>5, <2>7, <3>1 DEF Agrees
  <2> QED BY <1>1, <1>4, <2>2, <2>5, <2>8, ManagerAgrees
<1> QED BY <1>3, <1>4

(* The steps of the manager that change neither field nor loop. *)
LEMMA PlainReturnAgrees ==
  ASSUME IInv, PartsOK, Duties', Disciplined, Agreed, NEW t \in Threads, frames[t] # << >>, Return(t),
         UNCHANGED client, Outer,
         frames[t][1] \in {"synchronize", "release", "close", "shutdown"}
  PROVE  Agreed'
<1>1. Manager(t) /\ Duties
  BY InCall DEF PartsOK
<1>2. Top(t) = frames[t][1]
  BY DEF Top
<1>3. Agrees(t) /\ ~threadLock /\ (Serving \/ Stopped) /\ (Shut => Stopped)
  BY <1>1, <1>2, OneManager DEF Busy
<1>4. /\ \A m \in Monitors : frames'[m] = frames[m]
      /\ Duty(t)' = Duty(t) /\ calls'[t] = calls[t] /\ script' = script
      /\ Top(t)' \notin {"await", "flag", "notify", "stop", "join"}
      /\ Top(t)' \in {"nativeClose", "closed"} => Top(t) = "synchronize"
      /\ Top(t) \in Ending => Top(t)' \in Ending \cup {"idle"}
      /\ Duty(t)' # "add"
  BY <1>2, Popped
<1>5. Top(t)' \notin {"nativeClose", "closed"}
  <2> SUFFICES ASSUME Top(t) = "synchronize" PROVE Top(t)' = "remove"
    BY <1>4
  <2>1. frames[t] \in Seq(Frame) /\ Shaped(frames[t]) /\ 1 \in 1 .. Len(frames[t]) /\ Len(frames[t]) \in Nat
    BY DEF IInv, StacksOK, PartsOK, Shapes, Actors
  <2>2. 1 < Len(frames[t]) /\ frames[t][2] = "remove"
    BY <1>2, <2>1 DEF Shaped, ShapedAt
  <2>3. frames'[t] = Tail(frames[t])
    <3>1. Tail(frames[t]) \in Seq(Frame)
      BY <2>1
    <3> QED BY <3>1 DEF Return, Goto, IInv, StacksOK, Actors
  <2>4. Tail(frames[t]) # << >> /\ Tail(frames[t])[1] = frames[t][2]
    <3>1. Len(Tail(frames[t])) = Len(frames[t]) - 1
      BY <2>1
    <3>2. \A n \in Nat : 1 < n => n - 1 # 0
      OBVIOUS
    <3>3. Len(Tail(frames[t])) # 0
      BY <2>1, <2>2, <3>1, <3>2
    <3>4. Tail(frames[t]) # << >>
      BY <3>3, Len(<< >>) = 0
    <3> QED BY <2>1, <2>2, <3>4
  <2> QED BY <2>2, <2>3, <2>4 DEF Top
<1>6. /\ Serving' <=> Serving
      /\ Stopped' <=> Stopped
      /\ threadLock' = threadLock /\ (Shut' <=> Shut)
  <2>1. UNCHANGED <<loops, closing, fields>>
    BY DEF Outer
  <2> QED BY <1>4, <2>1, SameSide DEF Outer, Shut, fields
<1>7. Agrees(t)'
  <2>1. Shut => calls[t] = Len(script[t]) /\ Top(t)' \in Ending \cup {"idle"}
    <3> SUFFICES ASSUME Shut PROVE calls[t] = Len(script[t]) /\ Top(t)' \in Ending \cup {"idle"}
      OBVIOUS
    <3>1. calls[t] = Len(script[t]) /\ Top(t) \in Ending \cup {"idle"}
      BY <1>3 DEF Agrees
    <3>2. Top(t) # "idle"
      BY <1>2
    <3> QED BY <1>4, <3>1, <3>2
  <2> QED BY <1>4, <1>5, <1>6, <2>1 DEF Agrees
<1> QED BY <1>1, <1>3, <1>4, <1>6, <1>7, ManagerAgrees

LEMMA Replaced ==
  ASSUME IInv, NEW t \in Threads, frames[t] # << >>, NEW p \in Seq(Frame), p # << >>, Goto(t, p),
         UNCHANGED client
  PROVE  /\ \A b \in Actors \ {t} : frames'[b] = frames[b]
         /\ \A m \in Monitors : frames'[m] = frames[m]
         /\ Duty(t)' = Duty(t) /\ calls'[t] = calls[t] /\ script' = script
         /\ frames'[t] # << >> /\ Top(t)' = p[1]
<1>0. t \in Actors /\ frames \in [Actors -> Seq(Frame)]
  BY DEF Actors, IInv, StacksOK
<1>1. frames'[t] = p \o Tail(frames[t]) /\ \A b \in Actors \ {t} : frames'[b] = frames[b]
  BY <1>0 DEF Goto
<1>2. \A m \in Monitors : frames'[m] = frames[m]
  BY <1>1, ActorsAssumption DEF Actors
<1>3. Tail(frames[t]) \in Seq(Frame)
  BY <1>0
<1>4. p \o Tail(frames[t]) # << >> /\ (p \o Tail(frames[t]))[1] = p[1]
  BY <1>3
<1>5. Duty(t)' = Duty(t) /\ calls'[t] = calls[t] /\ script' = script
  BY DEF Duty, client
<1>6. frames'[t] # << >> /\ frames'[t][1] = p[1]
  BY <1>1, <1>4
<1> QED BY <1>1, <1>2, <1>5, <1>6 DEF Top

LEMMA CloseAgrees ==
  ASSUME IInv, PartsOK, Duties', Disciplined, Agreed, NEW t \in Threads, Close(t)
  PROVE  Agreed'
<1>1. frames[t] # << >> /\ frames[t][1] = "close" /\ UNCHANGED client /\ Outer /\ t \in Actors
  BY AtTop DEF Close, Outer, native, IInv, Actors
<1>2. CASE Return(t)
  BY <1>1, <1>2, PlainReturnAgrees
<1>3. CASE Goto(t, <<"shutdown">>)
  <2>1. Manager(t) /\ Top(t) = "close" /\ script' = script
    BY <1>1, InCall DEF PartsOK, Top, client
  <2>2. Agrees(t) /\ ~threadLock /\ (Serving \/ Stopped) /\ (Shut => Stopped)
    BY <2>1, OneManager DEF Busy
  <2>3. /\ \A m \in Monitors : frames'[m] = frames[m]
        /\ calls'[t] = calls[t] /\ frames'[t] # << >> /\ Top(t)' = "shutdown"
    <3>1. <<"shutdown">> \in Seq(Frame) /\ <<"shutdown">> # << >> /\ <<"shutdown">>[1] = "shutdown"
      BY DEF Frame
    <3> QED BY <1>1, <1>3, <3>1, Replaced
  <2>4. /\ Serving' <=> Serving
        /\ Stopped' <=> Stopped
        /\ threadLock' = threadLock /\ (Shut' <=> Shut)
    <3>1. UNCHANGED <<loops, closing, fields>>
      BY <1>1 DEF Outer
    <3> QED BY <1>1, <2>3, <3>1, SameSide DEF Outer, Shut, fields
  <2>5. Agrees(t)'
    BY <2>1, <2>2, <2>3, <2>4 DEF Agrees, Ending
  <2> QED BY <2>1, <2>2, <2>4, <2>5, ManagerAgrees
<1> QED BY <1>2, <1>3 DEF Close

LEMMA ShutdownAgrees ==
  ASSUME IInv, PartsOK, Duties', Disciplined, Agreed, NEW t \in Threads, Shutdown(t)
  PROVE  Agreed'
<1>1. /\ frames[t] # << >> /\ frames[t][1] = "shutdown" /\ UNCHANGED client /\ Outer
      /\ t \in Actors
  BY AtTop DEF Shutdown, Outer, ports, native, IInv, Actors
<1>2. CASE Return(t)
  BY <1>1, <1>2, PlainReturnAgrees
<1>3. CASE fd
  <2>1. Manager(t) /\ Top(t) = "shutdown" /\ script' = script
    BY <1>1, InCall DEF PartsOK, Top, client
  <2>2. Agrees(t) /\ ~threadLock /\ (Serving \/ Stopped) /\ (Shut => Stopped)
    BY <2>1, OneManager DEF Busy
  <2>3. /\ \A m \in Monitors : frames'[m] = frames[m]
        /\ calls'[t] = calls[t] /\ frames'[t] # << >>
        /\ Top(t)' = IF isInterrupted THEN "nativeClose" ELSE "remove"
    <3>1. /\ <<"nativeClose", "closed">> \in Seq(Frame) /\ <<"nativeClose", "closed">> # << >>
          /\ <<"remove", "nativeClose", "closed">> \in Seq(Frame)
          /\ <<"remove", "nativeClose", "closed">> # << >>
      BY DEF Frame
    <3>2. CASE isInterrupted
      <4>1. Goto(t, <<"nativeClose", "closed">>)
        BY <1>3, <3>2 DEF Shutdown
      <4> QED BY <1>1, <3>1, <3>2, <4>1, Replaced
    <3>3. CASE ~isInterrupted
      <4>1. Goto(t, <<"remove", "nativeClose", "closed">>)
        BY <1>3, <3>3 DEF Shutdown
      <4> QED BY <1>1, <3>1, <3>3, <4>1, Replaced
    <3> QED BY <3>2, <3>3
  <2>4. /\ Serving' <=> Serving
        /\ Stopped' <=> Stopped
        /\ threadLock' = threadLock /\ (Shut' <=> Shut)
    <3>1. UNCHANGED <<loops, closing, fields>>
      BY <1>1 DEF Outer
    <3> QED BY <1>1, <2>3, <3>1, SameSide DEF Outer, Shut, fields
  <2>5. isInterrupted <=> Stopped
    BY <2>2 DEF Serving, Stopped
  <2>6. Shut => calls[t] = Len(script[t])
    BY <2>2 DEF Agrees
  <2>7. Agrees(t)'
    <3>1. CASE isInterrupted
      BY <2>1, <2>3, <2>4, <2>5, <2>6, <3>1 DEF Agrees, Ending
    <3>2. CASE ~isInterrupted
      <4>1. ~Shut /\ Top(t)' = "remove"
        BY <2>2, <2>3, <2>5, <3>2
      <4> QED BY <2>3, <2>4, <4>1 DEF Agrees
    <3> QED BY <3>1, <3>2
  <2> QED BY <2>1, <2>2, <2>4, <2>7, ManagerAgrees
<1> QED BY <1>2, <1>3 DEF Shutdown

(* The descriptor is closed when no loop is left. *)
LEMMA ClosedAgrees ==
  ASSUME IInv, PartsOK, Duties', Disciplined, Agreed, NEW t \in Threads, NativeClose(t) \/ Closed(t)
  PROVE  Agreed'
<1>1. /\ frames[t] # << >> /\ frames[t][1] \in {"nativeClose", "closed"} /\ UNCHANGED client
      /\ UNCHANGED <<fields, loops, closing>> /\ Return(t) /\ t \in Actors
  BY AtTop DEF NativeClose, Closed, native, IInv, Actors
<1>2. Manager(t) /\ Top(t) = frames[t][1] /\ Duty(t) \in Calls /\ frames[t][1] \in FramesOf(Duty(t))
      /\ calls[t] \in 1 .. Len(script[t])
  BY <1>1, InCall DEF PartsOK, Top
<1>3. Agrees(t) /\ ~threadLock
  BY <1>1, <1>2, OneManager DEF Busy
<1>4. Stopped
  BY <1>1, <1>2, <1>3 DEF Agrees
<1>5. /\ \A m \in Monitors : frames'[m] = frames[m]
      /\ Duty(t)' = Duty(t) /\ calls'[t] = calls[t] /\ script' = script
      /\ Top(t)' \in Ending \cup {"idle"}
      /\ Duty(t)' # "add"
  BY <1>1, Popped DEF Ending
<1>6. Stopped' /\ threadLock' = threadLock
  BY <1>1, <1>4, <1>5, SameSide DEF fields
<1>7. calls[t] = Len(script[t])
  <2>1. frames[t][1] \in Ending
    BY <1>1 DEF Ending
  <2>2. Duty(t) \in {"close", "handlerClose"}
    BY <1>2, <2>1, BeneathEnding
  <2> QED BY <1>2, <2>2 DEF Disciplined, Duty
<1>8. Agrees(t)'
  BY <1>5, <1>6, <1>7 DEF Agrees, Ending
<1> QED BY <1>2, <1>3, <1>5, <1>6, <1>8, ManagerAgrees

LEMMA NotifyAgrees ==
  ASSUME IInv, PartsOK, Disciplined, Agreed, NEW t \in Threads, Notify(t)
  PROVE  Agreed'
<1>1. /\ frames[t] # << >> /\ frames[t][1] = "notify" /\ UNCHANGED client
      /\ UNCHANGED <<fd, device, loops, closing, monThread, alive, isInterrupted>>
      /\ Goto(t, <<"flag">>) /\ t \in Actors
  BY AtTop DEF Notify, ports, native, IInv, Actors
<1>2. Manager(t) /\ Top(t) = "notify" /\ script' = script
  BY <1>1, InCall DEF PartsOK, Top, client
<1>3. Agrees(t) /\ (Shut => Stopped)
  BY <1>2, OneManager
<1>4. Serving /\ ~Shut
  BY <1>2, <1>3 DEF Agrees, Ending
<1>5. /\ \A m \in Monitors : frames'[m] = frames[m]
      /\ frames'[t] # << >> /\ Top(t)' = "flag"
  <2>1. <<"flag">> \in Seq(Frame) /\ <<"flag">> # << >> /\ <<"flag">>[1] = "flag"
    BY DEF Frame
  <2> QED BY <1>1, <2>1, Replaced
<1>6. Serving' /\ ~Shut'
  <2>1. Runs(monThread)'
    BY <1>1, <1>4, <1>5 DEF Serving, Runs, Alone
  <2> QED BY <1>1, <1>4, <2>1 DEF Serving, Shut
<1>7. Agrees(t)'
  BY <1>5, <1>6 DEF Agrees
<1>8. Top(t)' \in Busy
  BY <1>5 DEF Busy
<1> QED BY <1>2, <1>6, <1>7, <1>8, ManagerAgrees

LEMMA SetFlagAgrees ==
  ASSUME IInv, PartsOK, Duties', Disciplined, Agreed, NEW t \in Threads, SetFlag(t)
  PROVE  Agreed' /\ Serving /\ ~Shut
<1>1. /\ frames[t] # << >> /\ frames[t][1] = "flag" /\ UNCHANGED client
      /\ UNCHANGED <<fd, device, loops, closing, monThread, alive, isInterrupted>>
      /\ Return(t) /\ t \in Actors
  BY AtTop DEF SetFlag, ports, IInv, Actors
<1>2. Manager(t) /\ Top(t) = "flag" /\ script' = script
  BY <1>1, InCall DEF PartsOK, Top, client
<1>3. Agrees(t)
  BY <1>2, OneManager
<1>4. Serving /\ ~Shut
  BY <1>2, <1>3 DEF Agrees, Ending
<1>5. /\ \A m \in Monitors : frames'[m] = frames[m]
      /\ Top(t)' \notin {"await", "flag", "notify", "stop", "join", "nativeClose", "closed"}
      /\ Duty(t)' # "add"
  BY <1>1, Popped
<1>6. Serving' /\ ~Shut'
  <2>1. Runs(monThread)'
    BY <1>1, <1>4, <1>5 DEF Serving, Runs, Alone
  <2> QED BY <1>1, <1>4, <2>1 DEF Serving, Shut
<1>7. ~threadLock'
  <2>1. monThread # None
    BY <1>4, ActorsAssumption DEF Serving, Runs, Actors
  <2> QED BY <2>1 DEF SetFlag
<1>8. Agrees(t)'
  BY <1>5, <1>6 DEF Agrees
<1> QED BY <1>2, <1>4, <1>6, <1>7, <1>8, ManagerAgrees

LEMMA AddAgrees ==
  ASSUME IInv, PartsOK, Duties', Disciplined, Agreed, NEW t \in Threads, AddEventListener(t)
  PROVE  Agreed'
<1>1. /\ frames[t] # << >> /\ frames[t][1] = "add" /\ UNCHANGED client
      /\ UNCHANGED <<fd, device, loops, closing>> /\ t \in Actors
  BY AtTop DEF AddEventListener, ports, native, IInv, Actors
<1>2. Manager(t) /\ Top(t) = "add" /\ script' = script
  BY <1>1, InCall DEF PartsOK, Top, client
<1>3. Agrees(t) /\ ~threadLock /\ (Serving \/ Stopped)
  BY <1>2, OneManager DEF Busy
<1>4. ~Shut /\ ~Shut' /\ fd
  <2>1. ~Shut
    BY <1>2, <1>3 DEF Agrees, Ending
  <2> QED BY <1>1, <2>1 DEF Shut
<1>5. CASE Serving /\ Return(t) /\ UNCHANGED <<isInterrupted, alive, threadLock, monThread>>
  <2>1. /\ \A m \in Monitors : frames'[m] = frames[m]
        /\ Top(t)' \notin {"await", "flag", "notify", "stop", "join", "nativeClose", "closed"}
    BY <1>1, <1>5, Popped
  <2>2. Serving'
    <3>1. Runs(monThread)'
      BY <1>1, <1>5, <2>1 DEF Serving, Runs, Alone
    <3> QED BY <1>1, <1>5, <3>1 DEF Serving
  <2>3. Agrees(t)'
    BY <1>4, <2>1, <2>2 DEF Agrees
  <2> QED BY <1>2, <1>3, <1>4, <1>5, <2>2, <2>3, ManagerAgrees
<1>6. CASE listener \/ ~fd
  <2>1. Serving
    BY <1>3, <1>4, <1>6 DEF Stopped
  <2>2. Return(t) /\ UNCHANGED fields
    BY <1>6 DEF AddEventListener
  <2> QED BY <1>5, <2>1, <2>2 DEF fields
<1>7. CASE ~listener /\ fd /\ alive
  <2>1. Serving
    BY <1>3, <1>7 DEF Stopped
  <2>2. Return(t) /\ UNCHANGED <<isInterrupted, alive, threadLock, monThread>>
    BY <1>7 DEF AddEventListener
  <2> QED BY <1>5, <2>1, <2>2
<1>8. CASE ~listener /\ fd /\ ~alive
  <2>1. Stopped
    BY <1>3, <1>8 DEF Serving
  <2>2. PICK m \in Monitors :
          /\ Unused(m) /\ monThread' = m /\ data' = data \ {m}
          /\ frames' = [frames EXCEPT ![t] = <<"await">> \o Tail(@), ![m] = <<"run">>]
    BY <1>8 DEF AddEventListener
  <2>3. listener' = TRUE /\ threadLock' = TRUE /\ alive' = alive
    BY <1>8 DEF AddEventListener
  <2>4. /\ frames'[m] = <<"run">> /\ frames'[t] # << >> /\ frames'[t][1] = "await"
        /\ \A b \in Actors \ {t, m} : frames'[b] = frames[b]
    <3>1. Starts(t, m)
      BY <1>1, <2>2 DEF Starts
    <3> QED BY <1>1, <3>1, StartsShape DEF IInv, PartsOK
  <2>5. Alone(m)'
    <3>1. \A n \in Monitors \ {m} : n \in Actors \ {t, m} /\ frames[n] = << >>
      BY <2>1, ActorsAssumption DEF Stopped, Silent, Actors
    <3> QED BY <2>4, <3>1 DEF Alone
  <2>6. Starting'
    <3>1. loops' = << >>
      BY <1>1, <2>1 DEF Stopped, Silent
    <3>2. Alone(monThread)' /\ frames'[monThread'] = <<"run">> /\ monThread' \in Monitors \ data'
      BY <2>2, <2>4, <2>5 DEF Alone
    <3>3. ~alive'
      BY <1>8, <2>3
    <3> QED BY <2>3, <3>1, <3>2, <3>3 DEF Starting
  <2>7. Top(t)' = "await"
    BY <2>4 DEF Top
  <2>8. Agrees(t)'
    BY <1>4, <2>4, <2>6, <2>7 DEF Agrees
  <2>9. Top(t)' \in Busy
    BY <2>7 DEF Busy
  <2> QED BY <1>2, <1>4, <2>8, <2>9, ManagerAgrees
<1> QED BY <1>6, <1>7, <1>8

LEMMA AwaitAgrees ==
  ASSUME IInv, PartsOK, Duties', Disciplined, Agreed, NEW t \in Threads, Await(t)
  PROVE  Agreed'
<1>1. /\ frames[t] # << >> /\ frames[t][1] = "await" /\ UNCHANGED client /\ ~threadLock
      /\ UNCHANGED <<fd, device, loops, closing, monThread, isInterrupted, threadLock>>
      /\ alive' = TRUE
      /\ Return(t) /\ t \in Actors
  BY AtTop DEF Await, ports, native, IInv, Actors
<1>2. Manager(t) /\ Top(t) = "await" /\ script' = script
  BY <1>1, InCall DEF PartsOK, Top, client
<1>3. Agrees(t)
  BY <1>2, OneManager
<1>4. Runs(monThread) /\ monThread \notin closing /\ ~isInterrupted /\ ~Shut
  BY <1>1, <1>2, <1>3 DEF Agrees, Starting, Ending
<1>5. /\ \A m \in Monitors : frames'[m] = frames[m]
      /\ Top(t)' \notin {"await", "flag", "notify", "stop", "join", "nativeClose", "closed"}
  BY <1>1, Popped
<1>6. Serving' /\ ~Shut' /\ ~threadLock'
  <2>1. Runs(monThread)'
    BY <1>1, <1>4, <1>5 DEF Runs, Alone
  <2> QED BY <1>1, <1>4, <2>1 DEF Serving, Shut
<1>7. Agrees(t)'
  BY <1>5, <1>6 DEF Agrees
<1> QED BY <1>2, <1>6, <1>7, ManagerAgrees

LEMMA RemoveAgrees ==
  ASSUME IInv, PartsOK, Duties', Disciplined, Agreed, NEW t \in Threads, RemoveEventListener(t)
  PROVE  Agreed'
<1>1. /\ frames[t] # << >> /\ frames[t][1] = "remove" /\ UNCHANGED client
      /\ UNCHANGED <<fd, device, loops, closing>> /\ t \in Actors
  BY AtTop DEF RemoveEventListener, ports, native, IInv, Actors
<1>2. Manager(t) /\ Top(t) = "remove" /\ script' = script
  BY <1>1, InCall DEF PartsOK, Top, client
<1>3. Agrees(t) /\ ~threadLock /\ (Serving \/ Stopped)
  BY <1>2, OneManager DEF Busy
<1>4. ~Shut /\ ~Shut'
  <2>1. ~Shut
    BY <1>2, <1>3 DEF Agrees, Ending
  <2> QED BY <1>1, <2>1 DEF Shut
<1>5. CASE isInterrupted
  <2>1. Stopped
    BY <1>3, <1>5 DEF Serving
  <2>2. /\ monThread' = None /\ listener' = FALSE /\ Return(t)
        /\ UNCHANGED <<isInterrupted, alive, threadLock>>
    BY <1>5 DEF RemoveEventListener
  <2>3. /\ \A m \in Monitors : frames'[m] = frames[m]
        /\ Top(t)' \notin {"await", "flag", "notify", "stop", "join"}
        /\ Duty(t)' # "add"
    BY <1>1, <2>2, Popped
  <2>4. Stopped' /\ ~threadLock'
    <3>1. Silent'
      BY <1>1, <2>1, <2>3 DEF Stopped, Silent
    <3>2. ~threadLock' /\ ~alive' /\ isInterrupted'
      BY <1>3, <1>5, <2>1, <2>2 DEF Stopped
    <3> QED BY <2>2, <3>1, <3>2 DEF Stopped
  <2>5. Agrees(t)'
    BY <1>4, <2>3, <2>4 DEF Agrees
  <2> QED BY <1>2, <1>4, <2>4, <2>5, ManagerAgrees
<1>6. CASE ~isInterrupted
  <2>1. Serving
    BY <1>3, <1>6 DEF Stopped
  <2>2. monThread \in Monitors /\ monThread # None /\ frames[monThread] # << >>
    BY <2>1, ActorsAssumption DEF Serving, Runs, Looping, Actors
  <2>3. Goto(t, <<"stop", "join">>) /\ UNCHANGED <<threadLock, monThread>>
    BY <1>6, <2>2 DEF RemoveEventListener
  <2>4. /\ \A m \in Monitors : frames'[m] = frames[m]
        /\ frames'[t] # << >> /\ Top(t)' = "stop"
    <3>1. <<"stop", "join">> \in Seq(Frame) /\ <<"stop", "join">> # << >>
      BY DEF Frame
    <3> QED BY <1>1, <2>3, <3>1, Replaced
  <2>5. ~threadLock' /\ Runs(monThread)' /\ monThread' \notin closing'
    <3>1. Runs(monThread)'
      BY <1>1, <2>1, <2>3, <2>4 DEF Serving, Runs, Alone
    <3> QED BY <1>1, <1>3, <2>1, <2>3, <3>1 DEF Serving
  <2>6. Agrees(t)'
    BY <1>4, <2>4, <2>5 DEF Agrees
  <2>7. Top(t)' \in Busy
    BY <2>4 DEF Busy
  <2> QED BY <1>2, <1>4, <2>6, <2>7, ManagerAgrees
<1> QED BY <1>5, <1>6

LEMMA InterruptAgrees ==
  ASSUME IInv, PartsOK, Duties', Disciplined, Agreed, NEW t \in Threads, InterruptEventLoop(t)
  PROVE  Agreed'
<1>1. /\ frames[t] # << >> /\ frames[t][1] = "stop" /\ UNCHANGED client
      /\ UNCHANGED <<fd, device, loops, fields>> /\ Return(t) /\ t \in Actors
  BY AtTop DEF InterruptEventLoop, ports, IInv, Actors
<1>2. Manager(t) /\ Top(t) = "stop" /\ script' = script
  BY <1>1, InCall DEF PartsOK, Top, client
<1>3. Agrees(t)
  BY <1>2, OneManager
<1>4. ~threadLock /\ Runs(monThread) /\ monThread \in Monitors /\ ~Shut
  BY <1>2, <1>3 DEF Agrees, Ending, Runs
<1>5. /\ \A m \in Monitors : frames'[m] = frames[m]
      /\ Top(t)' \notin {"await", "flag", "notify", "stop"}
  BY <1>1, Popped
<1>6. Top(t)' = "join" /\ frames'[t] # << >>
  <2>1. frames[t] \in Seq(Frame) /\ Shaped(frames[t]) /\ 1 \in 1 .. Len(frames[t]) /\ Len(frames[t]) \in Nat
    BY <1>1 DEF IInv, StacksOK, PartsOK, Shapes
  <2>2. 1 < Len(frames[t]) /\ frames[t][2] = "join"
    BY <1>1, <2>1 DEF Shaped, ShapedAt
  <2>3. frames'[t] = Tail(frames[t])
    <3>1. Tail(frames[t]) \in Seq(Frame)
      BY <1>1, <2>1
    <3> QED BY <1>1, <3>1 DEF Return, Goto, IInv, StacksOK
  <2>4. Tail(frames[t]) # << >> /\ Tail(frames[t])[1] = frames[t][2]
    <3>1. Len(Tail(frames[t])) = Len(frames[t]) - 1
      BY <1>1, <2>1
    <3>2. \A n \in Nat : 1 < n => n - 1 # 0
      OBVIOUS
    <3>3. Len(Tail(frames[t])) # 0
      BY <2>1, <2>2, <3>1, <3>2
    <3>4. Tail(frames[t]) # << >>
      BY <3>3, Len(<< >>) = 0
    <3> QED BY <1>1, <2>1, <2>2, <3>4
  <2> QED BY <2>2, <2>3, <2>4 DEF Top
<1>7. ~threadLock' /\ monThread' \in Monitors /\ Runs(monThread)' /\ ~Shut'
  <2>1. threadLock' = threadLock /\ monThread' = monThread
    BY <1>1 DEF fields
  <2>2. Runs(monThread)'
    BY <1>1, <1>4, <1>5, <2>1 DEF Runs, Alone
  <2> QED BY <1>1, <1>4, <2>1, <2>2 DEF Shut
<1>8. Agrees(t)'
  BY <1>6, <1>7 DEF Agrees
<1>9. Top(t)' \in Busy
  BY <1>6 DEF Busy
<1> QED BY <1>2, <1>7, <1>8, <1>9, ManagerAgrees

(* The wait for the monitor thread ends: unless it is given up, no loop is *)
(* left.                                                                   *)
LEMMA JoinAgrees ==
  ASSUME IInv, PartsOK, Duties', Disciplined, Agreed, NEW t \in Threads, Join(t), ~gaveUp'
  PROVE  Agreed'
<1>1. /\ frames[t] # << >> /\ frames[t][1] = "join" /\ UNCHANGED client
      /\ UNCHANGED <<fd, device, loops, closing>> /\ t \in Actors
  BY AtTop DEF Join, ports, native, IInv, Actors
<1>2. Manager(t) /\ Top(t) = "join" /\ script' = script
  BY <1>1, InCall DEF PartsOK, Top, client
<1>3. Agrees(t)
  BY <1>2, OneManager
<1>4. ~threadLock /\ monThread \in Monitors /\ (Runs(monThread) \/ Silent) /\ ~Shut
  BY <1>2, <1>3 DEF Agrees, Ending
<1>5. Forgotten /\ Return(t) /\ gaveUp' = (gaveUp \/ frames[monThread] # << >>)
  <2>1. monThread # None
    BY <1>4, ActorsAssumption DEF Actors
  <2> QED BY <2>1 DEF Join
<1>6. Silent
  <2>1. frames[monThread] = << >>
    BY <1>5
  <2> QED BY <1>4, <2>1 DEF Runs, Looping
<1>7. /\ \A m \in Monitors : frames'[m] = frames[m]
      /\ Top(t)' \notin {"await", "flag", "notify", "stop", "join"}
      /\ Duty(t)' # "add"
  BY <1>1, <1>5, Popped
<1>8. Stopped' /\ ~threadLock' /\ ~Shut'
  <2>1. Silent'
    BY <1>1, <1>6, <1>7 DEF Silent
  <2> QED BY <1>1, <1>4, <1>5, <2>1 DEF Forgotten, Stopped, Shut
<1>9. Agrees(t)'
  BY <1>7, <1>8 DEF Agrees
<1> QED BY <1>2, <1>8, <1>9, ManagerAgrees

(* A step of the monitor thread that keeps it in its loop. *)
LEMMA LoopStays ==
  ASSUME Agreed, NEW m \in Monitors, frames[m] # << >>, frames[m][1] \notin {"run", "eventLoop"},
         \A b \in Actors \ {m} : frames'[b] = frames[b],
         Looping(frames[m]) => Looping(frames'[m]),
         UNCHANGED <<script, calls, fd, device, fields, loops, closing>>
  PROVE  Agreed'
<1>1. \A n \in Monitors : Alone(n) => n = m /\ Alone(n)'
  BY DEF Alone, Actors
<1>2. \A n \in Monitors : Runs(n) => Runs(n)'
  BY <1>1 DEF Runs
<1>3. ~Silent /\ ~Stopped
  BY DEF Silent, Stopped
<1>4. ~Shut /\ ~Shut'
  BY <1>3 DEF Agreed, Shut
<1>5. /\ monThread' = monThread /\ alive' = alive /\ isInterrupted' = isInterrupted
      /\ threadLock' = threadLock /\ listener' = listener /\ data' = data
  BY DEF fields
<1>6. Runs(monThread) => monThread \in Monitors /\ Runs(monThread)'
  <2> SUFFICES ASSUME Runs(monThread) PROVE monThread \in Monitors /\ Runs(monThread)'
    OBVIOUS
  <2>1. monThread \in Monitors
    BY DEF Runs
  <2>2. Runs(monThread)'
    BY <1>2, <1>5, <2>1 DEF Runs
  <2> QED BY <2>1, <2>2
<1>7. Serving => Serving'
  BY <1>5, <1>6 DEF Serving
<1>8. Starting => Starting'
  <2> SUFFICES ASSUME Starting PROVE Starting'
    OBVIOUS
  <2>1. monThread \in Monitors /\ monThread = m
    BY <1>1 DEF Starting
  <2>2. frames[monThread] # <<"run">> /\ frames[monThread] # <<"eventLoop">>
    BY <2>1
  <2>3. Alone(monThread)'
    BY <1>1, <1>5, <2>1 DEF Starting, Alone
  <2> QED BY <1>5, <1>6, <2>1, <2>2, <2>3 DEF Starting
<1>9. ASSUME NEW t \in Threads, Manager(t)'
      PROVE  Manager(t) /\ Top(t)' = Top(t) /\ Agrees(t)'
  <2>1. Manager(t)
    BY <1>9 DEF Manager
  <2>2. frames'[t] = frames[t] /\ Top(t)' = Top(t) /\ Duty(t)' = Duty(t)
    BY ActorsAssumption DEF Actors, Top, Duty
  <2>3. Agrees(t)
    BY <2>1 DEF Agreed
  <2> QED BY <1>3, <1>4, <1>5, <1>6, <1>7, <1>8, <2>1, <2>2, <2>3 DEF Agrees
<1>10. \A t \in Threads : Manager(t)' <=> Manager(t)
  BY DEF Manager
<1>11. Settled'
  BY <1>3, <1>5, <1>7, <1>9, <1>10 DEF Settled, Agreed
<1> QED BY <1>4, <1>9, <1>11 DEF Agreed

(* Who is in its first steps is awaited by the thread that started it. *)
LEMMA Awaited ==
  ASSUME IInv, PartsOK, Agreed, NEW m \in Monitors, frames[m] # << >>,
         frames[m][1] \in {"run", "eventLoop"}
  PROVE  /\ \E t \in Threads : Manager(t) /\ Top(t) = "await"
         /\ Starting /\ monThread = m /\ loops = << >>
         /\ frames[m][1] = "eventLoop" => ~isInterrupted
<1>1. frames[m] \in Seq(Frame) /\ Shaped(frames[m])
  BY DEF IInv, StacksOK, PartsOK, Shapes, Actors
<1>2. ~Looping(frames[m])
  BY <1>1, AloneOnStack DEF Rank, Looping
<1>3. \A n \in Monitors : ~Runs(n)
  BY <1>2 DEF Runs, Alone
<1>4. ~Runs(monThread) /\ ~Serving /\ ~Silent /\ ~Stopped
  BY <1>3 DEF Runs, Serving, Silent, Stopped
<1>5. PICK t \in Threads : Manager(t) /\ Top(t) \in Busy
  BY <1>4 DEF Agreed, Settled
<1>6. Agrees(t)
  BY <1>5 DEF Agreed
<1>7. Top(t) = "await" /\ Starting
  BY <1>4, <1>5, <1>6 DEF Agrees, Busy
<1>8. monThread = m
  BY <1>7 DEF Starting, Alone
<1>9. /\ loops = << >>
      /\ frames[m] = <<"run">> \/ (frames[m] = <<"eventLoop">> /\ ~isInterrupted)
  BY <1>4, <1>7, <1>8 DEF Starting
<1>10. frames[m][1] = "eventLoop" => ~isInterrupted
  BY <1>9
<1> QED BY <1>5, <1>7, <1>8, <1>9, <1>10

LEMMA RunAgrees ==
  ASSUME IInv, PartsOK, Disciplined, Agreed, NEW m \in Monitors, Run(m)
  PROVE  Agreed'
<1>1. /\ frames[m] # << >> /\ frames[m][1] = "run" /\ UNCHANGED client /\ m \in Actors
      /\ UNCHANGED <<fd, device, loops, closing, alive, threadLock, listener, monThread, data>>
      /\ Goto(m, <<"eventLoop">>) /\ ~isInterrupted'
  BY AtTop DEF Run, ports, native, IInv, Actors
<1>2. Starting /\ monThread = m /\ loops = << >>
  BY <1>1, Awaited
<1>3. PICK t \in Threads : Manager(t) /\ Top(t) = "await"
  BY <1>1, Awaited
<1>4. frames'[m] = <<"eventLoop">> /\ \A b \in Actors \ {m} : frames'[b] = frames[b]
  <2>1. frames[m] \in Seq(Frame) /\ Shaped(frames[m])
    BY <1>1 DEF IInv, StacksOK, PartsOK, Shapes
  <2>2. \A p \in Seq(Frame) : p \o Tail(frames[m]) = p
    BY <1>1, <2>1, AloneOnStack DEF Rank
  <2>3. <<"eventLoop">> \in Seq(Frame)
    BY DEF Frame
  <2>4. frames' = [frames EXCEPT ![m] = <<"eventLoop">>]
    BY <1>1, <2>2, <2>3 DEF Goto
  <2> QED BY <1>1, <2>4 DEF IInv, StacksOK
<1>5. Starting'
  <2>1. threadLock
    <3>1. ~Runs(monThread)
      BY <1>2 DEF Runs, Looping
    <3> QED BY <1>2, <3>1 DEF Starting
  <2>2. Alone(monThread)'
    BY <1>1, <1>2, <1>4 DEF Starting, Alone, Actors
  <2> QED BY <1>1, <1>2, <1>4, <2>1, <2>2 DEF Starting
<1>6. Agrees(t) /\ ~Shut
  <2>1. Agrees(t)
    BY <1>3, OneManager
  <2> QED BY <1>3, <2>1 DEF Agrees, Ending
<1>7. frames'[t] = frames[t] /\ frames[t] # << >> /\ Top(t)' = "await" /\ ~Shut' /\ script' = script
  BY <1>1, <1>3, <1>4, <1>6, ActorsAssumption DEF Top, Shut, Actors, client
<1>8. Agrees(t)'
  BY <1>5, <1>7 DEF Agrees
<1>9. Top(t)' \in Busy
  BY <1>7 DEF Busy
<1> QED BY <1>3, <1>7, <1>8, <1>9, ManagerAgrees

LEMMA EventLoopAgrees ==
  ASSUME IInv, PartsOK, Disciplined, Agreed, NEW m \in Monitors, EventLoop(m)
  PROVE  Agreed'
<1>1. /\ frames[m] # << >> /\ frames[m][1] = "eventLoop" /\ UNCHANGED client /\ m \in Actors
      /\ UNCHANGED <<fd, device, isInterrupted, alive, listener, monThread, data>>
      /\ Goto(m, <<"loop">>) /\ ~threadLock' /\ m \notin closing' /\ loops' = Append(loops, m)
  BY AtTop DEF EventLoop, ports, IInv, Actors
<1>2. Starting /\ monThread = m /\ loops = << >> /\ ~isInterrupted
  BY <1>1, Awaited
<1>3. PICK t \in Threads : Manager(t) /\ Top(t) = "await"
  BY <1>1, Awaited
<1>4. /\ frames'[m] = <<"loop">> /\ \A b \in Actors \ {m} : frames'[b] = frames[b]
  <2>1. frames'[m] = <<"loop">>
    BY EventLoopListed DEF IInv, PartsOK
  <2> QED BY <1>1, <2>1 DEF Goto, IInv, StacksOK
<1>5. Starting'
  <2>1. Alone(m)'
    BY <1>2, <1>4 DEF Starting, Alone, Actors
  <2>2. Looping(frames'[m])
    BY <1>4 DEF Looping, LastFrame
  <2>3. loops' = <<m>>
    BY <1>1, <1>2
  <2>4. Runs(monThread)' /\ Alone(monThread)'
    BY <1>1, <1>2, <2>1, <2>2, <2>3 DEF Runs, Alone
  <2> QED BY <1>1, <1>2, <2>4 DEF Starting
<1>6. Agrees(t) /\ ~Shut
  <2>1. Agrees(t)
    BY <1>3, OneManager
  <2> QED BY <1>3, <2>1 DEF Agrees, Ending
<1>7. frames'[t] = frames[t] /\ frames[t] # << >> /\ Top(t)' = "await" /\ ~Shut' /\ script' = script
  BY <1>1, <1>3, <1>4, <1>6, ActorsAssumption DEF Top, Shut, Actors, client
<1>8. Agrees(t)'
  BY <1>5, <1>7 DEF Agrees
<1>9. Top(t)' \in Busy
  BY <1>7 DEF Busy
<1> QED BY <1>3, <1>7, <1>8, <1>9, ManagerAgrees

LEMMA LoopAgrees ==
  ASSUME IInv, PartsOK, Disciplined, Agreed, NEW m \in Monitors, Loop(m)
  PROVE  Agreed'
<1>1. /\ frames[m] # << >> /\ frames[m][1] = "loop" /\ UNCHANGED client /\ m \in Actors
      /\ UNCHANGED <<fd, device, fields, closing>>
  BY AtTop DEF Loop, ports, IInv, Actors
<1>2. /\ frames[m] \in Seq(Frame) /\ Shaped(frames[m])
      /\ \A p \in Seq(Frame) : p \o Tail(frames[m]) = p
  BY <1>1, AloneOnStack DEF IInv, StacksOK, PartsOK, Shapes, Rank
<1>3. CASE Goto(m, <<"sendEvent", "loop">>) /\ loops' = loops
  <2>1. <<"sendEvent", "loop">> \in Seq(Frame)
    BY DEF Frame
  <2>2. /\ frames'[m] = <<"sendEvent", "loop">>
        /\ \A b \in Actors \ {m} : frames'[b] = frames[b]
    BY <1>1, <1>2, <1>3, <2>1 DEF Goto, IInv, StacksOK
  <2>3. Looping(frames'[m])
    BY <2>2 DEF Looping, LastFrame
  <2>4. UNCHANGED <<script, calls>>
    BY <1>1 DEF client
  <2> QED BY <1>1, <1>3, <2>2, <2>3, <2>4, LoopStays
<1>4. ASSUME m \in closing, Return(m), NEW i \in 1 .. Len(loops), loops[i] = m,
             loops' = RemoveAt(loops, i)
      PROVE  Agreed'
  <2>1. frames'[m] = << >> /\ \A b \in Actors \ {m} : frames'[b] = frames[b]
    <3>1. Tail(frames[m]) = << >> /\ Tail(frames[m]) \in Seq(Frame)
      BY <1>1, <1>2, AloneOnStack DEF Rank
    <3> QED BY <1>1, <1>4, <3>1 DEF Return, Goto, IInv, StacksOK
  <2>2. ~Silent /\ ~Stopped
    BY <1>1 DEF Silent, Stopped
  <2>3. monThread \notin closing => ~Runs(monThread)
    BY <1>1, <1>4 DEF Runs, Alone
  <2>4. ~Serving
    BY <2>3 DEF Serving
  <2>5. ~Starting
    <3> SUFFICES ASSUME Starting PROVE FALSE
      OBVIOUS
    <3>1. monThread = m
      BY <1>1 DEF Starting, Alone
    <3>2. frames[monThread] # <<"run">> /\ frames[monThread] # <<"eventLoop">>
      BY <1>1, <3>1
    <3> QED BY <1>4, <3>1, <3>2 DEF Starting
  <2>6. PICK t \in Threads : Manager(t) /\ Top(t) \in Busy
    BY <2>2, <2>4 DEF Agreed, Settled
  <2>7. Agrees(t)
    BY <2>6 DEF Agreed
  <2>8. Top(t) = "join" /\ ~threadLock /\ Runs(monThread) /\ ~Shut
    BY <2>2, <2>3, <2>4, <2>5, <2>6, <2>7 DEF Agrees, Busy, Ending
  <2>9. monThread = m /\ loops = <<m>>
    BY <1>1, <2>8 DEF Runs, Alone
  <2>10. loops' = << >>
    <3>1. Len(loops) = 1
      BY <2>9
    <3>2. loops' \in Seq(Monitors) /\ Len(loops') = Len(loops) - 1
      BY <1>4, Removed DEF PartsOK, LoopsOK
    <3> QED BY <3>1, <3>2
  <2>11. Silent'
    <3>1. \A n \in Monitors \ {m} : frames[n] = << >> /\ n \in Actors
      BY <2>8, <2>9 DEF Runs, Alone, Actors
    <3> QED BY <2>1, <2>10, <3>1 DEF Silent
  <2>12. frames'[t] = frames[t] /\ frames[t] # << >> /\ Top(t)' = "join" /\ ~Shut' /\ script' = script
    BY <1>1, <2>1, <2>8, ActorsAssumption DEF Top, Shut, Actors, client
  <2>13. ~threadLock' /\ monThread' \in Monitors
    BY <1>1, <2>8, <2>9 DEF fields
  <2>14. Agrees(t)'
    BY <2>11, <2>12, <2>13 DEF Agrees
  <2>15. Top(t)' \in Busy
    BY <2>12 DEF Busy
  <2> QED BY <2>6, <2>12, <2>14, <2>15, ManagerAgrees
<1> QED BY <1>3, <1>4 DEF Loop

LEMMA AgreementStart == SPInit => Agreement
<1> SUFFICES ASSUME SPInit, Disciplined PROVE Agreed
  BY DEF Agreement
<1>1. First \in Monitors
  BY ActorsAssumption DEF First
<1>2. /\ frames[First] = <<"loop">> /\ Looping(frames[First])
      /\ \A a \in Actors \ {First} : frames[a] = << >>
  BY <1>1 DEF SPInit, Actors, Looping, LastFrame
<1>3. \A t \in Threads : frames[t] = << >> /\ Top(t) = "idle" /\ calls[t] = 0
  BY <1>1, <1>2, ActorsAssumption DEF SPInit, Actors, Top
<1>4. Runs(First)
  BY <1>1, <1>2 DEF SPInit, Runs, Alone, Actors
<1>5. Serving /\ ~threadLock /\ ~Shut
  BY <1>4 DEF SPInit, Serving, Shut
<1>6. Settled
  BY <1>5 DEF Settled
<1>7. \A t \in Threads : Agrees(t)
  BY <1>3, <1>5 DEF Agrees
<1> QED BY <1>5, <1>6, <1>7 DEF Agreed

LEMMA InputOutputOutside ==
  ASSUME NEW a, InputOutput(a) \/ ReadFails(a)
  PROVE  Outer
<1>1. CASE Read(a) \/ Size(a) \/ Count(a) \/ Enter(a) \/ NativeEnds(a)
  BY <1>1 DEF Read, Size, Count, Enter, NativeEnds, Outer, ports, native
<1>2. CASE TakeBytes(a) \/ TimesOut(a) \/ ReadFails(a)
  BY <1>2 DEF TakeBytes, TimesOut, ReadFails, FinishRead, Outer, ports, native
<1> QED BY <1>1, <1>2 DEF InputOutput

LEMMA ThreadsInputOutputAgrees ==
  ASSUME IInv, IInv', PartsOK, PartsOK', Disciplined, Agreed, NEW t \in Threads,
         InputOutput(t) \/ ReadFails(t)
  PROVE  Agreed'
<1>0. StacksOK /\ Shapes /\ Duties /\ Duties' /\ t \in Actors
  BY DEF IInv, PartsOK, Actors
<1>1. /\ UNCHANGED client /\ frames[t] # << >> /\ Outer
      /\ frames[t][1] \in {"read", "size", "count", "settle", "enter", "native", "reading"}
      /\ Moves(t) \/ frames' = frames
  BY <1>0, InputOutputMoves, InputOutputOutside
<1>2. frames[t][1] # "enter"
  <2>1. frames[t][1] \in FramesOf(Duty(t)) /\ Duty(t) \in Calls
    BY <1>0, <1>1, InCall
  <2> QED BY <2>1 DEF FramesOf
<1>3. \A b \in Actors \ {t} : frames'[b] = frames[b]
  BY <1>0, <1>1, MovesShape DEF Moved
<1>4. frames'[t] \in Seq(Frame)
  BY <1>0 DEF IInv, StacksOK
<1> QED BY <1>0, <1>1, <1>2, <1>3, <1>4, InputOutputAgrees

LEMMA ClientAgrees ==
  ASSUME IInv, IInv', PartsOK, PartsOK', Disciplined, Agreed, NEW t \in Threads,
         Client(t) \/ CloseInterrupted(t), ~gaveUp'
  PROVE  Agreed'
<1>0. StacksOK /\ Shapes /\ Duties' /\ t \in Actors
  BY DEF IInv, PartsOK, Actors
<1>1. CASE InputOutput(t)
  BY <1>1, ThreadsInputOutputAgrees
<1>2. CASE Write(t)
  <2>1. /\ UNCHANGED client /\ frames[t] # << >> /\ frames[t][1] = "write" /\ Outer
        /\ Return(t) \/ Goto(t, <<"count", "settle", "native">>)
    BY <1>0, <1>2, AtTop DEF Write, Outer, ports, native
  <2>2. Moves(t)
    BY <1>0, <2>1, ReturnMoves, GotoMoves DEF Expands
  <2>3. \A b \in Actors \ {t} : frames'[b] = frames[b]
    BY <1>0, <2>2, MovesShape DEF Moved
  <2>4. frames'[t] \in Seq(Frame)
    BY <1>0 DEF IInv, StacksOK
  <2> QED BY <1>0, <2>1, <2>3, <2>4, InputOutputAgrees
<1>3. CASE Synchronize(t) \/ Release(t) \/ CloseInterrupted(t)
  <2>1. /\ UNCHANGED client /\ frames[t] # << >> /\ Return(t) /\ Outer
        /\ frames[t][1] \in {"synchronize", "release", "close"}
    BY <1>0, <1>3, AtTop DEF Synchronize, Release, CloseInterrupted, Outer, ports, native
  <2> QED BY <1>0, <2>1, PlainReturnAgrees
<1>4. CASE Notify(t)
  BY <1>4, NotifyAgrees
<1>5. CASE SetFlag(t)
  BY <1>0, <1>5, SetFlagAgrees
<1>6. CASE AddEventListener(t)
  BY <1>0, <1>6, AddAgrees
<1>7. CASE Await(t)
  BY <1>0, <1>7, AwaitAgrees
<1>8. CASE RemoveEventListener(t)
  BY <1>0, <1>8, RemoveAgrees
<1>9. CASE InterruptEventLoop(t)
  BY <1>0, <1>9, InterruptAgrees
<1>10. CASE Join(t)
  BY <1>0, <1>10, JoinAgrees
<1>11. CASE Close(t)
  BY <1>0, <1>11, CloseAgrees
<1>12. CASE Shutdown(t)
  BY <1>0, <1>12, ShutdownAgrees
<1>13. CASE NativeClose(t) \/ Closed(t)
  BY <1>0, <1>13, ClosedAgrees
<1> QED BY <1>1, <1>2, <1>3, <1>4, <1>5, <1>6, <1>7, <1>8, <1>9, <1>10, <1>11, <1>12, <1>13 DEF Client

LEMMA MonitorAgrees ==
  ASSUME IInv, PartsOK, Disciplined, Agreed, NEW m \in Monitors, Monitor(m) \/ ReadFails(m)
  PROVE  Agreed'
<1>0. StacksOK /\ Shapes /\ m \in Actors
  BY DEF IInv, PartsOK, Actors
<1>1. CASE Run(m)
  BY <1>1, RunAgrees
<1>2. CASE EventLoop(m)
  BY <1>2, EventLoopAgrees
<1>3. CASE Loop(m)
  BY <1>3, LoopAgrees
<1>4. CASE \/ SendEvent(m) \/ SerialEvent(m) \/ Available(m) \/ Respond(m) \/ Release(m)
           \/ InputOutput(m) \/ ReadFails(m)
  <2>1. /\ UNCHANGED client /\ frames[m] # << >> /\ Outer
        /\ frames[m][1] \notin {"run", "eventLoop", "loop", "join"}
        /\ Moves(m) \/ frames' = frames
    <3>1. CASE InputOutput(m) \/ ReadFails(m)
      BY <1>0, <3>1, InputOutputMoves, InputOutputOutside
    <3>2. CASE SendEvent(m) \/ SerialEvent(m) \/ Available(m) \/ Respond(m) \/ Release(m)
      <4>1. /\ frames[m] # << >> /\ Outer
            /\ frames[m][1] \in {"sendEvent", "serialEvent", "available", "respond", "release"}
        BY <1>0, <3>2, AtTop DEF SendEvent, SerialEvent, Available, Respond, Release,
                                 Outer, ports, native
      <4>2. UNCHANGED client /\ (Moves(m) \/ frames' = frames)
        BY <1>0, <3>2, MonitorMoves DEF Monitor
      <4> QED BY <4>1, <4>2
    <3> QED BY <1>4, <3>1, <3>2
  <2>2. /\ \A b \in Actors \ {m} : frames'[b] = frames[b]
        /\ Looping(frames[m]) => Looping(frames'[m])
    BY <1>0, <2>1, MovesShape DEF Moved
  <2> QED BY <2>1, <2>2, LoopStays DEF Outer, client
<1> QED BY <1>1, <1>2, <1>3, <1>4 DEF Monitor

LEMMA PastStays ==
  ASSUME StacksOK, [SPNext]_vars
  PROVE  script' = script /\ (~gaveUp' => ~gaveUp) /\ (~overlap' => ~overlap)
<1>1. CASE UNCHANGED vars \/ Arrive
  BY <1>1 DEF vars, Arrive, client, past
<1>2. ASSUME NEW t \in Threads, Begin(t) \/ Client(t) \/ CloseInterrupted(t)
      PROVE  script' = script /\ (~gaveUp' => ~gaveUp) /\ (~overlap' => ~overlap)
  <2>1. script' = script
    BY <1>2, ClientMoves DEF Begin, client
  <2>2. (~gaveUp' => ~gaveUp) /\ (~overlap' => ~overlap)
    <3>1. CASE InputOutput(t)
      BY <3>1 DEF InputOutput, Read, Size, Count, Enter, NativeEnds, TakeBytes, TimesOut,
                  FinishRead, past
    <3>2. CASE SetFlag(t)
      <4>1. gaveUp' = gaveUp /\ overlap' = (overlap \/ borrowed # None)
        BY <3>2 DEF SetFlag
      <4> QED BY <4>1, Zenon
    <3>3. CASE Join(t)
      BY <3>3 DEF Join
    <3>4. CASE ~InputOutput(t) /\ ~SetFlag(t) /\ ~Join(t)
      BY <1>2, <3>4 DEF Begin, Client, Write, Notify, AddEventListener, Await,
         RemoveEventListener, InterruptEventLoop, Close, CloseInterrupted, Shutdown,
         NativeClose, Closed, Synchronize, Release, past
    <3> QED BY <3>1, <3>2, <3>3, <3>4
  <2> QED BY <2>1, <2>2
<1>3. ASSUME NEW a \in Actors, ReadFails(a)
      PROVE  script' = script /\ (~gaveUp' => ~gaveUp) /\ (~overlap' => ~overlap)
  BY <1>3 DEF ReadFails, FinishRead, client, past
<1>4. ASSUME NEW m \in Monitors, Monitor(m)
      PROVE  script' = script /\ (~gaveUp' => ~gaveUp) /\ (~overlap' => ~overlap)
  <2>1. script' = script
    BY <1>4, MonitorMoves DEF client
  <2>2. (~gaveUp' => ~gaveUp) /\ (~overlap' => ~overlap)
    <3>1. CASE InputOutput(m)
      BY <3>1 DEF InputOutput, Read, Size, Count, Enter, NativeEnds, TakeBytes, TimesOut,
                  FinishRead, past
    <3>2. CASE ~InputOutput(m)
      BY <1>4, <3>2 DEF Monitor, Run, EventLoop, Loop, SendEvent, SerialEvent, Available,
         Respond, Release, past
    <3> QED BY <3>1, <3>2
  <2> QED BY <2>1, <2>2
<1> QED BY <1>1, <1>2, <1>3, <1>4 DEF SPNext

LEMMA AgreementStep ==
  ASSUME IInv, IInv', PartsOK, PartsOK', Agreement, [SPNext]_vars
  PROVE  Agreement'
<1> SUFFICES ASSUME Disciplined', ~gaveUp' PROVE Agreed'
  BY DEF Agreement
<1>1. script' = script /\ ~gaveUp
  BY PastStays DEF IInv
<1>2. Disciplined /\ Agreed
  <2>1. Disciplined
    BY <1>1 DEF Disciplined, Manager
  <2> QED BY <1>1, <2>1 DEF Agreement
<1>3. CASE UNCHANGED vars \/ Arrive
  <2>1. UNCHANGED <<client, frames, ports, fields, loops, closing>>
    BY <1>3 DEF vars, Arrive, native
  <2>2. /\ Serving' <=> Serving
        /\ Stopped' <=> Stopped
        /\ Starting' <=> Starting
        /\ Silent' <=> Silent
        /\ Runs(monThread)' <=> Runs(monThread)
    BY <2>1 DEF Serving, Stopped, Starting, Silent, Runs, Alone, fields
  <2>3. /\ Settled' <=> Settled
        /\ Shut' <=> Shut
        /\ \A t \in Threads : (Manager(t)' <=> Manager(t)) /\ (Agrees(t)' <=> Agrees(t))
    BY <2>1, <2>2 DEF Settled, Shut, Manager, Agrees, Top, Duty, client, ports, fields
  <2> QED BY <1>2, <2>3, <2>2 DEF Agreed
<1>4. ASSUME NEW t \in Threads, Begin(t) PROVE Agreed'
  BY <1>2, <1>4, BeginAgrees
<1>5. ASSUME NEW t \in Threads, Client(t) \/ CloseInterrupted(t) PROVE Agreed'
  BY <1>2, <1>5, ClientAgrees
<1>6. ASSUME NEW m \in Monitors, Monitor(m) \/ ReadFails(m) PROVE Agreed'
  BY <1>2, <1>6, MonitorAgrees
<1>7. ASSUME NEW t \in Threads, ReadFails(t) PROVE Agreed'
  BY <1>2, <1>7, ThreadsInputOutputAgrees
<1> QED BY <1>3, <1>4, <1>5, <1>6, <1>7 DEF SPNext, Actors

LEMMA PortAgrees == SPSpec => [](IInv /\ PartsOK /\ Agreement)
<1>1. SPInit => Agreement
  BY AgreementStart
<1>2. IInv /\ IInv' /\ PartsOK /\ PartsOK' /\ Agreement /\ [SPNext]_vars => Agreement'
  BY AgreementStep
<1> QED BY <1>1, <1>2, PartsInvariant, PTL DEF SPSpec

(* The monitor thread that was asked for events looks for data, or will    *)
(* when the read that has cleared its flag is over.                        *)
Noted ==
  (Disciplined /\ ~gaveUp /\ ~overlap /\ monThread \in data)
    => IF borrowed = monThread THEN saved = TRUE ELSE monThread \in flags

LEMMA NotedSame ==
  ASSUME Noted, Disciplined, ~gaveUp, ~overlap,
         monThread' \in data' => monThread' = monThread /\ monThread \in data,
         UNCHANGED <<flags, borrowed, saved>>
  PROVE  Noted'
BY DEF Noted

LEMMA NotedEnter ==
  ASSUME IInv, PartsOK, Noted, Disciplined, ~gaveUp, ~overlap, NEW a \in Actors, Enter(a)
  PROVE  Noted'
<1>1. monThread' = monThread /\ data' = data /\ StacksOK /\ ReadersOK /\ BorrowOK
  BY DEF Enter, fields, IInv, PartsOK
<1>2. CASE frames[a][2] = "reading"
  <2>1. borrowed' = eis /\ flags' = flags \ {eis} /\ saved' = (eis \in flags)
    BY <1>2 DEF Enter
  <2>2. frames[a] \in Seq(Frame) /\ frames[a] # << >> /\ frames[a][1] \in {"settle", "enter"}
    BY <1>1, AtTop DEF Enter, StacksOK
  <2>3. stream = a
    <3>1. 1 \in 1 .. Len(frames[a]) /\ LinkedAt(frames[a], 1)
      BY <1>1, <2>2 DEF StacksOK, Linked
    <3>2. 2 \in 1 .. Len(frames[a])
      BY <2>2, <3>1 DEF LinkedAt
    <3> QED BY <1>1, <1>2, <3>2 DEF ReadersOK, Reads
  <2>4. borrowed = None
    <3> SUFFICES ASSUME NEW b \in Actors, At(b, "reading") PROVE FALSE
      BY <1>1 DEF BorrowOK
    <3>1. stream = b /\ frames[b][1] = "reading"
      BY <1>1, AtTop DEF ReadersOK
    <3> QED BY <2>2, <2>3, <3>1
  <2>5. SUFFICES ASSUME monThread \in data
                 PROVE  IF eis = monThread THEN saved' = TRUE ELSE monThread \in flags \ {eis}
    BY <1>1, <2>1 DEF Noted
  <2>6. monThread # borrowed
    BY <2>4, <2>5, ActorsAssumption DEF PartsOK, Typed, TypedOwners, Actors
  <2>7. monThread \in flags
    BY <2>5, <2>6 DEF Noted
  <2>8. eis = monThread => saved' = TRUE
    BY <2>1, <2>7, Zenon
  <2> QED BY <2>7, <2>8
<1>3. CASE frames[a][2] # "reading"
  <2>1. UNCHANGED <<flags, borrowed, saved>>
    BY <1>3 DEF Enter
  <2> QED BY <1>1, <2>1, NotedSame
<1> QED BY <1>2, <1>3

LEMMA NotedFinish ==
  ASSUME PartsOK, Noted, Disciplined, ~gaveUp, ~overlap, NEW a, FinishRead(a)
  PROVE  Noted'
<1>1. monThread' = monThread /\ data' = data /\ borrowed' = None
  BY DEF FinishRead, fields
<1>2. SUFFICES ASSUME monThread \in data PROVE monThread \in flags'
  <2>1. monThread \in data => monThread # None
    BY ActorsAssumption DEF PartsOK, Typed, TypedOwners, Actors
  <2> QED BY <1>1, <2>1 DEF Noted
<1>3. IF borrowed = monThread THEN saved = TRUE ELSE monThread \in flags
  BY <1>2 DEF Noted
<1>4. flags' = IF saved THEN flags \cup {borrowed} ELSE flags \ {borrowed}
  BY DEF FinishRead
<1>5. CASE borrowed = monThread
  BY <1>3, <1>4, <1>5
<1>6. CASE borrowed # monThread
  BY <1>3, <1>4, <1>6
<1> QED BY <1>5, <1>6

LEMMA NotedInputOutput ==
  ASSUME IInv, PartsOK, Noted, Disciplined, ~gaveUp, ~overlap, NEW a \in Actors,
         InputOutput(a) \/ ReadFails(a)
  PROVE  Noted'
<1>1. CASE Enter(a)
  BY <1>1, NotedEnter
<1>2. CASE FinishRead(a)
  BY <1>2, NotedFinish
<1>3. CASE UNCHANGED <<fields, flags, borrowed, saved>>
  BY <1>3, NotedSame DEF fields
<1>4. CASE Read(a) \/ Size(a) \/ Count(a) \/ NativeEnds(a)
  BY <1>3, <1>4 DEF Read, Size, Count, NativeEnds, native, io, read
<1>5. CASE TakeBytes(a) \/ TimesOut(a) \/ ReadFails(a)
  BY <1>2, <1>3, <1>5 DEF TakeBytes, TimesOut, ReadFails, native
<1> QED BY <1>1, <1>4, <1>5 DEF InputOutput

(* Who asks for events is served by the first loop of the descriptor. *)
LEMMA NotedSetFlag ==
  ASSUME IInv, PartsOK, Duties', Disciplined, Agreed, NEW t \in Threads, SetFlag(t), ~overlap'
  PROVE  Noted'
<1>1. Serving /\ ~Shut
  BY SetFlagAgrees
<1>2. loops = <<monThread>> /\ fd /\ monThread \in Monitors
  BY <1>1 DEF Serving, Shut, Runs
<1>3. loops # << >> /\ Head(loops) = monThread
  BY <1>2
<1>4. monThread \in flags' /\ monThread' = monThread
  BY <1>2, <1>3 DEF SetFlag
<1>5. borrowed = None /\ borrowed' = borrowed
  BY DEF SetFlag, io, read
<1>6. borrowed' # monThread'
  BY <1>2, <1>4, <1>5, ActorsAssumption DEF Actors
<1> QED BY <1>4, <1>6 DEF Noted

LEMMA NotedStep ==
  ASSUME IInv, IInv', PartsOK, PartsOK', Agreement, Noted, [SPNext]_vars
  PROVE  Noted'
<1> SUFFICES ASSUME Disciplined', ~gaveUp', ~overlap' PROVE Noted'
  BY DEF Noted
<1>0. /\ Disciplined /\ ~gaveUp /\ ~overlap /\ Agreed
  <2>1. script' = script /\ ~gaveUp /\ ~overlap
    BY PastStays DEF IInv
  <2>2. Disciplined
    BY <2>1 DEF Disciplined, Manager
  <2> QED BY <2>1, <2>2 DEF Agreement
<1>n. monThread \in data => monThread # None /\ None \notin data
  BY ActorsAssumption DEF PartsOK, Typed, TypedOwners, Actors
<1>s. ASSUME UNCHANGED <<flags, borrowed, saved, monThread, data>> PROVE Noted'
  BY <1>0, <1>s, NotedSame
<1>1. CASE UNCHANGED vars \/ Arrive
  BY <1>1, <1>s DEF vars, Arrive, fields, native, io, read
<1>2. ASSUME NEW t \in Threads, Begin(t) \/ Client(t) \/ CloseInterrupted(t) PROVE Noted'
  <2>1. CASE InputOutput(t)
    BY <1>0, <2>1, NotedInputOutput DEF Actors
  <2>2. CASE SetFlag(t)
    BY <1>0, <2>2, NotedSetFlag DEF PartsOK
  <2>3. CASE AddEventListener(t) \/ RemoveEventListener(t) \/ Join(t)
    <3>1. UNCHANGED <<flags, borrowed, saved>>
      BY <2>3 DEF AddEventListener, RemoveEventListener, Join, native, io, read
    <3>2. monThread' \in data' => monThread' = monThread /\ monThread \in data
      <4>1. CASE AddEventListener(t)
        BY <4>1 DEF AddEventListener, fields
      <4>2. CASE RemoveEventListener(t) \/ Join(t)
        <5>1. data' = data /\ (monThread' = monThread \/ monThread' = None)
          BY <4>2 DEF RemoveEventListener, Join, Forgotten, fields
        <5>2. None \notin data
          BY ActorsAssumption DEF PartsOK, Typed, TypedOwners, Actors
        <5> QED BY <5>1, <5>2
      <4> QED BY <2>3, <4>1, <4>2
    <3> QED BY <1>0, <3>1, <3>2, NotedSame
  <2>4. CASE \/ Begin(t) \/ Write(t) \/ Notify(t) \/ Await(t) \/ InterruptEventLoop(t)
             \/ Close(t) \/ CloseInterrupted(t) \/ Shutdown(t) \/ NativeClose(t) \/ Closed(t)
             \/ Synchronize(t) \/ Release(t)
    BY <1>s, <2>4 DEF Begin, Write, Notify, Await, InterruptEventLoop, Close, CloseInterrupted,
       Shutdown, NativeClose, Closed, Synchronize, Release, fields, native, io, read
  <2> QED BY <1>2, <2>1, <2>2, <2>3, <2>4 DEF Client
<1>3. ASSUME NEW a \in Actors, ReadFails(a) PROVE Noted'
  BY <1>0, <1>3, NotedInputOutput
<1>4. ASSUME NEW m \in Monitors, Monitor(m) PROVE Noted'
  <2>1. CASE InputOutput(m)
    BY <1>0, <2>1, NotedInputOutput DEF Actors
  <2>2. CASE EventLoop(m)
    <3>1. frames[m] # << >> /\ frames[m][1] = "eventLoop"
      BY <2>2, AtTop DEF EventLoop, IInv, Actors
    <3>2. Starting /\ monThread' = monThread /\ data' = data
      BY <1>0, <2>2, <3>1, Awaited DEF EventLoop
    <3> QED BY <3>2 DEF Starting, Noted
  <2>3. CASE Run(m) \/ Loop(m) \/ SendEvent(m) \/ SerialEvent(m) \/ Available(m) \/ Respond(m) \/ Release(m)
    BY <1>s, <2>3 DEF Run, Loop, SendEvent, SerialEvent, Available, Respond, Release,
       fields, native, io, read
  <2> QED BY <1>4, <2>1, <2>2, <2>3 DEF Monitor
<1> QED BY <1>1, <1>2, <1>3, <1>4 DEF SPNext

LEMMA PortNotes == SPSpec => [](IInv /\ PartsOK /\ Agreement /\ Noted)
<1>1. SPInit => Noted
  BY DEF SPInit, Noted
<1>2. /\ IInv /\ IInv' /\ PartsOK /\ PartsOK' /\ Agreement /\ Agreement' /\ Noted /\ [SPNext]_vars
      => Noted'
  BY NotedStep
<1> QED BY <1>1, <1>2, PortAgrees, PTL DEF SPSpec

(* When the thread that manages the port is not inside a call of its, the  *)
(* port is served or has been stopped.                                     *)
LEMMA BetweenCalls ==
  ASSUME Disciplined, Agreed, \A t \in Threads : Manager(t) => frames[t] = << >>
  PROVE  Serving \/ Stopped
BY DEF Agreed, Settled, Top, Busy

(* When the descriptor is closed no event loop selects on it, whatever the *)
(* threads that only read and write do, unless the wait of                 *)
(* removeEventListener for the monitor thread's end was given up.          *)
THEOREM ClosedPortHasNoLoop == SPSpec => []LoopOnOpenDevice
<1>1. Agreement => LoopOnOpenDevice
  BY DEF Agreement, Agreed, LoopOnOpenDevice, Shut, Stopped, Silent
<1> QED BY <1>1, PortAgrees, PTL

(* Between the calls of the thread that manages it, a port with a listener *)
(* has one monitor thread, which is in its loop, the only one listed, and  *)
(* nobody has told it to end.                                              *)
THEOREM ListenerHasItsLoop == SPSpec => []ListenerIsServed
<1>1. Agreement => ListenerIsServed
  <2> SUFFICES ASSUME Agreement, Disciplined, ~gaveUp, listener,
                      \A t \in Threads : Manager(t) => frames[t] = << >>
               PROVE  /\ alive /\ ~isInterrupted /\ monThread # None
                      /\ frames[monThread] # << >>
                      /\ loops = <<monThread>> /\ monThread \notin closing
    BY DEF ListenerIsServed
  <2>1. Serving
    BY BetweenCalls DEF Agreement, Stopped
  <2> QED BY <2>1, ActorsAssumption DEF Serving, Runs, Looping, Actors
<1> QED BY <1>1, PortAgrees, PTL

(* No read, however it ends and whichever thread does it, loses what the   *)
(* manager asked for while nobody read: the loop of its listener has the   *)
(* flag for data whenever no read has it.                                  *)
THEOREM ReadsKeepTheNotification == SPSpec => []NotificationIsKept
<1>1. PartsOK /\ Noted => NotificationIsKept
  <2> SUFFICES ASSUME PartsOK, Noted, Disciplined, ~gaveUp, ~overlap, borrowed = None,
                      monThread \in data
               PROVE  monThread \in flags
    BY DEF NotificationIsKept
  <2>1. borrowed # monThread
    BY ActorsAssumption DEF PartsOK, Typed, TypedOwners, Actors
  <2> QED BY <2>1 DEF Noted
<1> QED BY <1>1, PortNotes, PTL
=============================================================================
